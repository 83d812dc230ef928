----------------------------- MODULE ListProofs -----------------------------
(***************************************************************************)
(* Proofs about the list for every set of nodes and every keys: the links  *)
(* always thread one sequence of nodes in both directions, the size is     *)
(* right as long as it is counted, and every operation, merge sort         *)
(* included, does to that sequence what NodeSequence promises.             *)
(***************************************************************************)
EXTENDS List, DataInduction

(***************************************************************************)
(* Links that thread a sequence.                                           *)
(***************************************************************************)
\* The sequences of nodes without a repetition.
Distinct(s) == \A i, j \in 1..Len(s) : s[i] = s[j] => i = j

Threads == {s \in Seq(Nodes) : Distinct(s)}

\* The node at a place of s; NULL before the first and behind the last.
At(s, i) == IF i \in 1..Len(s) THEN s[i] ELSE NULL

\* The pointer l.head, followed by nx, and l.tail, followed by pv, lead along s.
Thread(l, nx, pv, s) ==
    /\ s \in Threads
    /\ l.head = At(s, 1) /\ l.tail = At(s, Len(s))
    /\ \A i \in 1..Len(s) : nx[s[i]] = At(s, i + 1) /\ pv[s[i]] = At(s, i - 1)

\* There are no more places than nodes.
LEMMA ThreadShort ==
    ASSUME NEW s \in Threads
    PROVE  /\ Len(s) \in Nat /\ Cardinality(Nodes) \in Nat /\ Len(s) <= Cardinality(Nodes)
           /\ Cardinality(1..Len(s)) = Len(s)
<1>1. s \in Seq(Nodes) /\ Len(s) \in Nat /\ Distinct(s)
  BY DEF Threads
<1>2. s \in Injection(1..Len(s), Nodes)
  <2>1. s \in [1..Len(s) -> Nodes] /\ DOMAIN s = 1..Len(s)
    BY <1>1
  <2>2. IsInjective(s)
    BY <1>1, <2>1, Zenon DEF IsInjective, Distinct
  <2> QED
    BY <2>1, <2>2, Zenon DEF Injection
<1>3. Cardinality(1..Len(s)) = Len(s)
  <2>1. PICK n \in Nat : n = Len(s)
    BY <1>1
  <2>2. Cardinality(1..n) = IF 1 > n THEN 0 ELSE n - 1 + 1
    BY FS_Interval
  <2> QED
    BY <2>1, <2>2
<1>4. Cardinality(Nodes) \in Nat
  BY NodesAssumption, FS_CardinalityType
<1> QED
  BY <1>1, <1>2, <1>3, <1>4, NodesAssumption, FS_Injection

\* What the walk of Chain computes.
Walk(from, link, w) ==
    w = [i \in 1..(Cardinality(Nodes) + 1) |->
            IF i = 1 THEN from ELSE IF w[i - 1] = NULL THEN NULL ELSE link[w[i - 1]]]

\* A pointer that leads along s makes the chain s.
LEMMA ChainIs ==
    ASSUME NEW s \in Threads, NEW from, NEW link, from = At(s, 1),
           \A i \in 1..Len(s) : link[s[i]] = At(s, i + 1)
    PROVE  Chain(from, link) = s
<1> DEFINE N == Cardinality(Nodes)
           g == [i \in 1..(N + 1) |-> At(s, i)]
           f == CHOOSE w : w = [i \in 1..(Cardinality(Nodes) + 1) |->
                    IF i = 1 THEN from ELSE IF w[i - 1] = NULL THEN NULL ELSE link[w[i - 1]]]
<1>1. /\ s \in Seq(Nodes) /\ Len(s) \in Nat /\ N \in Nat /\ Len(s) <= N
      /\ \A i \in 1..Len(s) : s[i] # NULL
  BY ThreadShort, NodesAssumption DEF Threads
<1>2. Walk(from, link, g)
  <2>1. ASSUME NEW i \in 1..(N + 1)
        PROVE  g[i] = IF i = 1 THEN from ELSE IF g[i - 1] = NULL THEN NULL ELSE link[g[i - 1]]
    <3>1. CASE i = 1
      BY <1>1, <3>1
    <3>2. CASE i # 1
      <4>1. i - 1 \in 1..(N + 1) /\ g[i] = At(s, i) /\ g[i - 1] = At(s, i - 1) /\ (i - 1) + 1 = i
        BY <1>1, <3>2
      <4>2. CASE i - 1 \in 1..Len(s)
        BY <1>1, <3>2, <4>1, <4>2 DEF At
      <4>3. CASE i - 1 \notin 1..Len(s)
        <5>1. i \notin 1..Len(s)
          BY <1>1, <3>2, <4>3
        <5> QED
          BY <3>2, <4>1, <4>3, <5>1 DEF At
      <4> QED
        BY <4>2, <4>3
    <3> QED
      BY <3>1, <3>2
  <2> QED
    BY <2>1 DEF Walk
<1>3. Walk(from, link, f)
  BY <1>2, Zenon DEF Walk
<1> HIDE DEF f
<1>4. \A i \in 1..(N + 1) : f[i] = At(s, i)
  <2> DEFINE T == {k \in Nat : k \in 1..(N + 1) => f[k] = At(s, k)}
  <2>1. 0 \in T
    OBVIOUS
  <2>2. ASSUME NEW k \in Nat, k \in T PROVE k + 1 \in T
    <3> SUFFICES ASSUME k + 1 \in 1..(N + 1) PROVE f[k + 1] = At(s, k + 1)
      OBVIOUS
    <3>1. f[k + 1] = IF k + 1 = 1 THEN from
                     ELSE IF f[(k + 1) - 1] = NULL THEN NULL ELSE link[f[(k + 1) - 1]]
      BY <1>3 DEF Walk
    <3>2. g[k + 1] = IF k + 1 = 1 THEN from
                     ELSE IF g[(k + 1) - 1] = NULL THEN NULL ELSE link[g[(k + 1) - 1]]
      BY <1>2 DEF Walk
    <3>3. g[k + 1] = At(s, k + 1)
      OBVIOUS
    <3>4. k # 0 => f[(k + 1) - 1] = At(s, k) /\ g[(k + 1) - 1] = At(s, k)
      BY <1>1, <2>2
    <3> HIDE DEF g
    <3> QED
      BY <3>1, <3>2, <3>3, <3>4
  <2>3. \A k \in Nat : k \in T
    <3> HIDE DEF T
    <3> QED
      BY <2>1, <2>2, NatClosed
  <2> QED
    BY <1>1, <2>3
<1>5. {i \in 1..(Cardinality(Nodes) + 1) : f[i] # NULL} = 1..Len(s)
  BY <1>1, <1>4 DEF At
<1>6. Chain(from, link) =
         [i \in 1..Cardinality({j \in 1..(Cardinality(Nodes) + 1) : f[j] # NULL}) |-> f[i]]
  BY Zenon DEF Chain, f
<1>7. Chain(from, link) = [i \in 1..Len(s) |-> f[i]]
  BY <1>5, <1>6, ThreadShort
<1>8. \A i \in 1..Len(s) : f[i] = s[i]
  BY <1>1, <1>4 DEF At
<1> QED
  BY <1>1, <1>7, <1>8

\* The places of s from the last to the first.
Backwards(s) == [i \in 1..Len(s) |-> s[Len(s) + 1 - i]]

\* A thread read from its end is a thread, too.
LEMMA BackwardsIs ==
    ASSUME NEW s \in Threads
    PROVE  /\ Backwards(s) \in Threads /\ Len(Backwards(s)) = Len(s) /\ Len(s) \in Nat
           /\ \A i \in Int : At(Backwards(s), i) = At(s, Len(s) + 1 - i)
           /\ \A i \in 1..Len(s) : Len(s) + 1 - i \in 1..Len(s) /\ Backwards(s)[i] = s[Len(s) + 1 - i]
<1>1. s \in Seq(Nodes) /\ Len(s) \in Nat /\ \A i, j \in 1..Len(s) : s[i] = s[j] => i = j
  BY DEF Threads, Distinct
<1>2. PICK n \in Nat : n = Len(s)
  BY <1>1
<1>3. \A i \in 1..n : n + 1 - i \in 1..n
  OBVIOUS
<1>4. \A i \in 1..n : Backwards(s)[i] = s[n + 1 - i]
  BY <1>2 DEF Backwards
<1>5. Backwards(s) \in Seq(Nodes) /\ Len(Backwards(s)) = n
  BY <1>1, <1>2, <1>3 DEF Backwards
<1>6. \A i, j \in 1..n : Backwards(s)[i] = Backwards(s)[j] => i = j
  <2> SUFFICES ASSUME NEW i \in 1..n, NEW j \in 1..n, Backwards(s)[i] = Backwards(s)[j]
               PROVE  i = j
    OBVIOUS
  <2>1. s[n + 1 - i] = s[n + 1 - j]
    BY <1>4
  <2>2. n + 1 - i = n + 1 - j
    BY <1>1, <1>2, <1>3, <2>1
  <2> QED
    BY <2>2
<1>7. \A i \in Int : At(Backwards(s), i) = At(s, n + 1 - i)
  <2> SUFFICES ASSUME NEW i \in Int PROVE At(Backwards(s), i) = At(s, n + 1 - i)
    OBVIOUS
  <2>1. i \in 1..n <=> n + 1 - i \in 1..n
    OBVIOUS
  <2> QED
    BY <1>2, <1>4, <1>5, <2>1 DEF At
<1> QED
  BY <1>2, <1>3, <1>4, <1>5, <1>6, <1>7 DEF Threads, Distinct

\* Both chains of links that thread s.
LEMMA ThreadIs ==
    ASSUME NEW l, NEW nx, NEW pv, NEW s, Thread(l, nx, pv, s)
    PROVE  Chain(l.head, nx) = s /\ Chain(l.tail, pv) = Backwards(s)
<1>1. /\ s \in Threads /\ l.head = At(s, 1) /\ l.tail = At(s, Len(s))
      /\ \A i \in 1..Len(s) : nx[s[i]] = At(s, i + 1) /\ pv[s[i]] = At(s, i - 1)
  BY DEF Thread
<1>2. Chain(l.head, nx) = s
  BY <1>1, ChainIs
<1>3. PICK r \in Threads : r = Backwards(s)
  BY <1>1, BackwardsIs
<1>4. PICK n \in Nat : n = Len(s) /\ n = Len(r)
  BY <1>1, <1>3, BackwardsIs
<1>5. /\ \A i \in Int : At(r, i) = At(s, n + 1 - i)
      /\ \A i \in 1..n : n + 1 - i \in 1..n /\ r[i] = s[n + 1 - i]
  <2>1. /\ \A i \in Int : At(Backwards(s), i) = At(s, Len(s) + 1 - i)
        /\ \A i \in 1..Len(s) : /\ Len(s) + 1 - i \in 1..Len(s)
                               /\ Backwards(s)[i] = s[Len(s) + 1 - i]
    BY <1>1, BackwardsIs
  <2> QED
    BY <1>3, <1>4, <2>1
<1>6. l.tail = At(r, 1)
  <2>1. n + 1 - 1 = n
    OBVIOUS
  <2> QED
    BY <1>1, <1>4, <1>5, <2>1
<1>7. ASSUME NEW i \in 1..n PROVE pv[r[i]] = At(r, i + 1)
  <2>1. pv[r[i]] = At(s, (n + 1 - i) - 1)
    BY <1>1, <1>4, <1>5
  <2>2. (n + 1 - i) - 1 = n + 1 - (i + 1)
    OBVIOUS
  <2>3. At(r, i + 1) = At(s, n + 1 - (i + 1))
    BY <1>5
  <2> QED
    BY <2>1, <2>2, <2>3
<1>8. Chain(l.tail, pv) = r
  BY <1>4, <1>6, <1>7, ChainIs
<1> QED
  BY <1>2, <1>3, <1>8

(***************************************************************************)
(* Linking a node in and out.                                              *)
(***************************************************************************)
\* The places of a sequence with one node more.
LEMMA InsertedIs ==
    ASSUME NEW s \in Seq(Nodes), NEW k \in 1..(Len(s) + 1), NEW n \in Nodes
    PROVE  /\ InsertAt(s, k, n) \in Seq(Nodes) /\ Len(InsertAt(s, k, n)) = Len(s) + 1
           /\ \A i \in 1..(Len(s) + 1) :
                 InsertAt(s, k, n)[i] = IF i < k THEN s[i] ELSE IF i = k THEN n ELSE s[i - 1]
<1>1. PICK m \in Nat : m = Len(s)
  OBVIOUS
<1>a. k \in Nat /\ k >= 1 /\ k <= m + 1
  BY <1>1
<1>2. PICK a, b : a = SubSeq(s, 1, k - 1) /\ b = SubSeq(s, k, m)
  OBVIOUS
<1>3. a \in Seq(Nodes) /\ Len(a) = k - 1 /\ \A i \in 1..(k - 1) : a[i] = s[i]
  BY <1>1, <1>2
<1>4. b \in Seq(Nodes) /\ Len(b) = m + 1 - k /\ \A i \in 1..(m + 1 - k) : b[i] = s[k + i - 1]
  BY <1>1, <1>2
<1>5. PICK c : c = a \o <<n>>
  OBVIOUS
<1>6. /\ c \in Seq(Nodes) /\ Len(c) = k /\ c[k] = n
      /\ \A i \in 1..(k - 1) : c[i] = s[i]
  BY <1>3, <1>5
<1>7. InsertAt(s, k, n) = c \o b
  BY <1>1, <1>2, <1>5 DEF InsertAt
<1>8. c \o b \in Seq(Nodes) /\ Len(c \o b) = m + 1
  <2>0. c \in Seq(Nodes) /\ b \in Seq(Nodes)
    BY <1>4, <1>6
  <2>1. c \o b \in Seq(Nodes) /\ Len(c \o b) = Len(c) + Len(b)
    BY <2>0
  <2>2. k + (m + 1 - k) = m + 1
    BY <1>a
  <2> QED
    BY <1>4, <1>6, <2>1, <2>2
<1>9. ASSUME NEW i \in 1..(m + 1)
      PROVE  (c \o b)[i] = IF i < k THEN s[i] ELSE IF i = k THEN n ELSE s[i - 1]
  <2>1. CASE i <= k
    BY <1>1, <1>4, <1>6, <2>1
  <2>2. CASE i > k
    <3>1. (c \o b)[i] = b[i - k] /\ i - k \in 1..(m + 1 - k) /\ k + (i - k) - 1 = i - 1
      BY <1>1, <1>4, <1>6, <2>2
    <3>2. b[i - k] = s[k + (i - k) - 1]
      BY <1>4, <3>1
    <3> QED
      BY <2>2, <3>1, <3>2
  <2>3. i <= k \/ i > k
    BY <1>a
  <2> QED
    BY <2>1, <2>2, <2>3, Zenon
<1> QED
  BY <1>1, <1>7, <1>8, <1>9

\* The places of a sequence with one node less.
LEMMA RemovedIs ==
    ASSUME NEW s \in Seq(Nodes), NEW k \in 1..Len(s)
    PROVE  /\ RemoveAt(s, k) \in Seq(Nodes) /\ Len(RemoveAt(s, k)) = Len(s) - 1
           /\ \A i \in 1..(Len(s) - 1) :
                 RemoveAt(s, k)[i] = IF i < k THEN s[i] ELSE s[i + 1]
<1>1. PICK m \in Nat : m = Len(s)
  OBVIOUS
<1>a. k \in Nat /\ k >= 1 /\ k <= m
  BY <1>1
<1>2. PICK a, b : a = SubSeq(s, 1, k - 1) /\ b = SubSeq(s, k + 1, m)
  OBVIOUS
<1>3. a \in Seq(Nodes) /\ Len(a) = k - 1 /\ \A i \in 1..(k - 1) : a[i] = s[i]
  BY <1>1, <1>2
<1>4. b \in Seq(Nodes) /\ Len(b) = m - k /\ \A i \in 1..(m - k) : b[i] = s[k + i]
  BY <1>1, <1>2
<1>5. RemoveAt(s, k) = a \o b
  BY <1>1, <1>2 DEF RemoveAt
<1>6. a \o b \in Seq(Nodes) /\ Len(a \o b) = m - 1
  BY <1>1, <1>3, <1>4
<1>7. ASSUME NEW i \in 1..(m - 1) PROVE (a \o b)[i] = IF i < k THEN s[i] ELSE s[i + 1]
  <2>1. CASE i < k
    BY <1>1, <1>3, <1>4, <2>1
  <2>2. CASE i >= k
    <3>1. (a \o b)[i] = b[i - (k - 1)] /\ i - (k - 1) \in 1..(m - k) /\ k + (i - (k - 1)) = i + 1
      BY <1>1, <1>3, <1>4, <2>2
    <3>2. b[i - (k - 1)] = s[k + (i - (k - 1))]
      BY <1>4, <3>1
    <3> QED
      BY <2>2, <3>1, <3>2
  <2>3. i < k \/ i >= k
    BY <1>a
  <2> QED
    BY <2>1, <2>2, <2>3, Zenon
<1> QED
  BY <1>1, <1>5, <1>6, <1>7

\* What linking n in at place k changes of the links of s, and what it leaves.
LinkedIn(l, nx, pv, s, k, n, l2, nx2, pv2) ==
    /\ l2.head = IF k = 1 THEN n ELSE l.head
    /\ l2.tail = IF k = Len(s) + 1 THEN n ELSE l.tail
    /\ nx2[n] = At(s, k) /\ pv2[n] = At(s, k - 1)
    /\ \A i \in 1..Len(s) : /\ nx2[s[i]] = IF i = k - 1 THEN n ELSE nx[s[i]]
                            /\ pv2[s[i]] = IF i = k THEN n ELSE pv[s[i]]

\* Then they thread s with n at place k.
LEMMA LinkIn ==
    ASSUME NEW l, NEW nx, NEW pv, NEW s, Thread(l, nx, pv, s),
           NEW n \in Nodes, \A i \in 1..Len(s) : s[i] # n, NEW k \in 1..(Len(s) + 1),
           NEW l2, NEW nx2, NEW pv2, LinkedIn(l, nx, pv, s, k, n, l2, nx2, pv2)
    PROVE  Thread(l2, nx2, pv2, InsertAt(s, k, n))
<1>1. PICK m \in Nat : m = Len(s) /\ s \in Seq(Nodes) /\ k \in 1..(m + 1)
  BY DEF Thread, Threads
<1>2. PICK t \in Seq(Nodes) : t = InsertAt(s, k, n)
  BY <1>1, InsertedIs
<1>3. /\ Len(t) = m + 1
      /\ \A i \in 1..(m + 1) : t[i] = IF i < k THEN s[i] ELSE IF i = k THEN n ELSE s[i - 1]
  <2>0. s \in Seq(Nodes)
    BY <1>1
  <2>1. Len(InsertAt(s, k, n)) = Len(s) + 1
    BY <2>0, InsertedIs
  <2>2. \A i \in 1..(Len(s) + 1) :
            InsertAt(s, k, n)[i] = IF i < k THEN s[i] ELSE IF i = k THEN n ELSE s[i - 1]
    BY <2>0, InsertedIs
  <2> QED
    BY <1>1, <1>2, <2>1, <2>2, Zenon
<1>4. \A i, j \in 1..m : s[i] = s[j] => i = j
  BY <1>1 DEF Thread, Threads, Distinct
<1>5. Distinct(t)
  <2> SUFFICES ASSUME NEW i \in 1..(m + 1), NEW j \in 1..(m + 1), t[i] = t[j] PROVE i = j
    BY <1>3 DEF Distinct
  <2> DEFINE p(x) == IF x < k THEN x ELSE x - 1
  <2>1. \A x \in 1..(m + 1) : x # k => p(x) \in 1..m /\ t[x] = s[p(x)]
    BY <1>1, <1>3
  <2>2. t[k] = n
    BY <1>1, <1>3
  <2>3. \A x \in 1..(m + 1) : x # k => t[x] # n
    BY <1>1, <2>1
  <2>4. CASE i = k \/ j = k
    BY <2>2, <2>3, <2>4
  <2>5. CASE i # k /\ j # k
    <3>1. p(i) = p(j)
      BY <1>4, <2>1, <2>5
    <3> QED
      BY <1>1, <2>5, <3>1
  <2> QED
    BY <2>4, <2>5
<1>6. t \in Threads
  BY <1>5 DEF Threads
<1>7. \A i \in 1..(m + 1) : At(t, i) = t[i]
  BY <1>3 DEF At
<1>8. At(t, m + 2) = NULL /\ At(t, 0) = NULL
  BY <1>3 DEF At
<1>9. l2.head = At(t, 1) /\ l2.tail = At(t, m + 1)
  <2>1. l.head = At(s, 1) /\ l.tail = At(s, m)
    BY <1>1 DEF Thread
  <2>2. l2.head = IF k = 1 THEN n ELSE l.head
    BY DEF LinkedIn
  <2>3. l2.tail = IF k = m + 1 THEN n ELSE l.tail
    BY <1>1 DEF LinkedIn
  <2>4. k # 1 => At(s, 1) = t[1]
    BY <1>1, <1>3 DEF At
  <2>5. k # m + 1 => At(s, m) = t[m + 1]
    BY <1>1, <1>3 DEF At
  <2>6. t[k] = n
    BY <1>1, <1>3
  <2> QED
    BY <1>1, <1>7, <2>1, <2>2, <2>3, <2>4, <2>5, <2>6
<1>10. ASSUME NEW i \in 1..(m + 1) PROVE nx2[t[i]] = At(t, i + 1) /\ pv2[t[i]] = At(t, i - 1)
  <2>1. nx2[n] = At(s, k) /\ pv2[n] = At(s, k - 1)
    BY DEF LinkedIn
  <2>2. \A x \in 1..m : /\ nx2[s[x]] = IF x = k - 1 THEN n ELSE At(s, x + 1)
                        /\ pv2[s[x]] = IF x = k THEN n ELSE At(s, x - 1)
    BY <1>1 DEF LinkedIn, Thread
  <2>3. CASE i < k
    <3>1. i \in 1..m /\ t[i] = s[i]
      BY <1>1, <1>3, <2>3
    <3>2. nx2[s[i]] = At(t, i + 1)
      BY <1>1, <1>3, <2>2, <2>3, <3>1 DEF At
    <3>3. pv2[s[i]] = At(t, i - 1)
      BY <1>1, <1>3, <2>2, <2>3, <3>1 DEF At
    <3> QED
      BY <3>1, <3>2, <3>3
  <2>4. CASE i = k
    <3>1. t[i] = n
      BY <1>1, <1>3, <2>4
    <3>2. At(s, k) = At(t, k + 1) /\ At(s, k - 1) = At(t, k - 1)
      BY <1>1, <1>3 DEF At
    <3> QED
      BY <2>1, <2>4, <3>1, <3>2
  <2>5. CASE i > k
    <3>1. i - 1 \in 1..m /\ t[i] = s[i - 1]
      BY <1>1, <1>3, <2>5
    <3>2. nx2[s[i - 1]] = At(t, i + 1)
      <4>1. i - 1 # k - 1 /\ (i - 1) + 1 = i
        BY <1>1, <2>5
      <4>2. nx2[s[i - 1]] = At(s, i)
        BY <2>2, <3>1, <4>1
      <4>3. i \in 1..m => At(s, i) = s[i] /\ At(t, i + 1) = s[i]
        BY <1>1, <1>3, <2>5 DEF At
      <4>4. i \notin 1..m => At(s, i) = NULL /\ At(t, i + 1) = NULL
        BY <1>1, <1>3, <2>5 DEF At
      <4> QED
        BY <4>2, <4>3, <4>4
    <3>3. pv2[s[i - 1]] = At(t, i - 1)
      BY <1>1, <1>3, <2>2, <2>5, <3>1 DEF At
    <3> QED
      BY <3>1, <3>2, <3>3
  <2>6. i < k \/ i = k \/ i > k
    BY <1>1
  <2> QED
    BY <2>3, <2>4, <2>5, <2>6, Zenon
<1> QED
  BY <1>2, <1>3, <1>6, <1>9, <1>10 DEF Thread

\* What linking out the node at place k changes of the others, and leaves.
LinkedOut(l, nx, pv, s, k, l2, nx2, pv2) ==
    /\ l2.head = IF k = 1 THEN nx[s[k]] ELSE l.head
    /\ l2.tail = IF k = Len(s) THEN pv[s[k]] ELSE l.tail
    /\ \A i \in 1..Len(s) :
          i # k => /\ nx2[s[i]] = IF i = k - 1 THEN nx[s[k]] ELSE nx[s[i]]
                   /\ pv2[s[i]] = IF i = k + 1 THEN pv[s[k]] ELSE pv[s[i]]

\* Then they thread s without place k.
LEMMA LinkOut ==
    ASSUME NEW l, NEW nx, NEW pv, NEW s, Thread(l, nx, pv, s), NEW k \in 1..Len(s),
           NEW l2, NEW nx2, NEW pv2, LinkedOut(l, nx, pv, s, k, l2, nx2, pv2)
    PROVE  Thread(l2, nx2, pv2, RemoveAt(s, k))
<1>1. PICK m \in Nat : m = Len(s) /\ s \in Seq(Nodes) /\ k \in 1..m
  BY DEF Thread, Threads
<1>2. PICK t \in Seq(Nodes) : t = RemoveAt(s, k)
  BY <1>1, RemovedIs
<1>3. Len(t) = m - 1 /\ \A i \in 1..(m - 1) : t[i] = IF i < k THEN s[i] ELSE s[i + 1]
  BY <1>1, <1>2, RemovedIs
<1>4. \A i, j \in 1..m : s[i] = s[j] => i = j
  BY <1>1 DEF Thread, Threads, Distinct
<1>5. Distinct(t)
  <2> SUFFICES ASSUME NEW i \in 1..(m - 1), NEW j \in 1..(m - 1), t[i] = t[j] PROVE i = j
    BY <1>3 DEF Distinct
  <2> DEFINE p(x) == IF x < k THEN x ELSE x + 1
  <2>1. \A x \in 1..(m - 1) : p(x) \in 1..m /\ t[x] = s[p(x)]
    BY <1>1, <1>3
  <2>2. p(i) = p(j)
    BY <1>4, <2>1
  <2> QED
    BY <1>1, <2>2
<1>6. t \in Threads
  BY <1>5 DEF Threads
<1>7. \A x \in 1..m : nx[s[x]] = At(s, x + 1) /\ pv[s[x]] = At(s, x - 1)
  BY <1>1 DEF Thread
<1>9. l2.head = At(t, 1) /\ l2.tail = At(t, m - 1)
  <2>1. l.head = At(s, 1) /\ l.tail = At(s, m)
    BY <1>1 DEF Thread
  <2>2. l2.head = IF k = 1 THEN At(s, k + 1) ELSE At(s, 1)
    BY <1>1, <1>7, <2>1 DEF LinkedOut
  <2>3. l2.tail = IF k = m THEN At(s, k - 1) ELSE At(s, m)
    BY <1>1, <1>7, <2>1 DEF LinkedOut
  <2>4. At(t, 1) = IF k = 1 THEN At(s, k + 1) ELSE At(s, 1)
    BY <1>1, <1>3 DEF At
  <2>5. At(t, m - 1) = IF k = m THEN At(s, k - 1) ELSE At(s, m)
    BY <1>1, <1>3 DEF At
  <2> QED
    BY <2>2, <2>3, <2>4, <2>5
<1>10. ASSUME NEW i \in 1..(m - 1) PROVE nx2[t[i]] = At(t, i + 1) /\ pv2[t[i]] = At(t, i - 1)
  <2>2. \A x \in 1..m : x # k => /\ nx2[s[x]] = IF x = k - 1 THEN At(s, k + 1) ELSE At(s, x + 1)
                                 /\ pv2[s[x]] = IF x = k + 1 THEN At(s, k - 1) ELSE At(s, x - 1)
    BY <1>1, <1>7 DEF LinkedOut
  <2>3. CASE i < k
    <3>1. i \in 1..m /\ i # k /\ t[i] = s[i]
      BY <1>1, <1>3, <2>3
    <3>2. nx2[s[i]] = At(t, i + 1)
      BY <1>1, <1>3, <2>2, <2>3, <3>1 DEF At
    <3>3. pv2[s[i]] = At(t, i - 1)
      BY <1>1, <1>3, <2>2, <2>3, <3>1 DEF At
    <3> QED
      BY <3>1, <3>2, <3>3
  <2>5. CASE i >= k
    <3>1. i + 1 \in 1..m /\ i + 1 # k /\ t[i] = s[i + 1]
      BY <1>1, <1>3, <2>5
    <3>2. nx2[s[i + 1]] = At(t, i + 1)
      BY <1>1, <1>3, <2>2, <2>5, <3>1 DEF At
    <3>3. pv2[s[i + 1]] = At(t, i - 1)
      BY <1>1, <1>3, <2>2, <2>5, <3>1 DEF At
    <3> QED
      BY <3>1, <3>2, <3>3
  <2>6. i < k \/ i >= k
    BY <1>1
  <2> QED
    BY <2>3, <2>5, <2>6, Zenon
<1> QED
  BY <1>1, <1>2, <1>3, <1>6, <1>9, <1>10 DEF Thread

(***************************************************************************)
(* Merge sort.                                                             *)
(***************************************************************************)
\* The nodes of s.
Nodesof(s) == {s[i] : i \in 1..Len(s)}

\* Every node is no greater than those behind it.
Rising(s) == \A i, j \in 1..Len(s) : i <= j => Key[s[i]] <= Key[s[j]]

\* What merging promises.
Merges(l, r, t) ==
    /\ t \in Seq(Nodes) /\ Len(t) = Len(l) + Len(r)
    /\ Nodesof(t) = Nodesof(l) \cup Nodesof(r)
    /\ Distinct(l) /\ Distinct(r) /\ Nodesof(l) \cap Nodesof(r) = {} => Distinct(t)
    /\ Rising(l) /\ Rising(r) => Rising(t)

Chains == Seq(Nodes)

Pairs == Seq(Nodes) \X Seq(Nodes)

MergeRank == [p \in Pairs |-> Len(p[1]) + Len(p[2])]

MergeBody == [g \in [Pairs -> Chains] |-> [p \in Pairs |-> MergeOf(g, p[1], p[2])]]

\* A sequence and what is left of it without its first node.
LEMMA HeadTail ==
    ASSUME NEW s \in Seq(Nodes), s # <<>>
    PROVE  /\ Len(s) \in Nat /\ Len(s) > 0
           /\ Head(s) = s[1] /\ Head(s) \in Nodes
           /\ Tail(s) \in Seq(Nodes) /\ Len(Tail(s)) = Len(s) - 1
           /\ \A i \in 1..(Len(s) - 1) : Tail(s)[i] = s[i + 1]
  OBVIOUS

\* A node in front of a sequence.
LEMMA InFront ==
    ASSUME NEW n \in Nodes, NEW s \in Seq(Nodes)
    PROVE  /\ <<n>> \o s \in Seq(Nodes) /\ Len(<<n>> \o s) = Len(s) + 1 /\ Len(s) \in Nat
           /\ (<<n>> \o s)[1] = n
           /\ \A i \in 1..Len(s) : (<<n>> \o s)[i + 1] = s[i]
           /\ \A i \in 2..(Len(s) + 1) : (<<n>> \o s)[i] = s[i - 1]
  OBVIOUS

\* The merge goes on to shorter pairs.
LEMMA Shorter ==
    ASSUME NEW l \in Seq(Nodes), NEW r \in Seq(Nodes), l # <<>>, r # <<>>
    PROVE  /\ <<l, r>> \in Pairs /\ <<Tail(l), r>> \in Pairs /\ <<l, Tail(r)>> \in Pairs
           /\ MergeRank[<<l, r>>] = Len(l) + Len(r)
           /\ MergeRank[<<Tail(l), r>>] < MergeRank[<<l, r>>]
           /\ MergeRank[<<l, Tail(r)>>] < MergeRank[<<l, r>>]
<1>1. /\ Len(l) \in Nat /\ Tail(l) \in Seq(Nodes) /\ Len(Tail(l)) = Len(l) - 1
      /\ Len(r) \in Nat /\ Tail(r) \in Seq(Nodes) /\ Len(Tail(r)) = Len(r) - 1
  BY HeadTail
<1>2. <<l, r>> \in Pairs /\ <<Tail(l), r>> \in Pairs /\ <<l, Tail(r)>> \in Pairs
  BY <1>1 DEF Pairs
<1>3. /\ MergeRank[<<l, r>>] = Len(l) + Len(r)
      /\ MergeRank[<<Tail(l), r>>] = Len(Tail(l)) + Len(r)
      /\ MergeRank[<<l, Tail(r)>>] = Len(l) + Len(Tail(r))
  BY <1>2 DEF MergeRank
<1> QED
  BY <1>1, <1>2, <1>3

\* The recursion of Merge is well founded.
LEMMA MergeDescends == DescendsFreely(Pairs, Chains, MergeRank, MergeBody)
<1>1. MergeRank \in [Pairs -> Nat]
  <2>1. ASSUME NEW p \in Pairs PROVE Len(p[1]) + Len(p[2]) \in Nat
    <3>1. PICK l, r \in Seq(Nodes) : p[1] = l /\ p[2] = r
      BY DEF Pairs
    <3>2. Len(l) \in Nat /\ Len(r) \in Nat
      OBVIOUS
    <3> QED
      BY <3>1, <3>2
  <2> QED
    BY <2>1 DEF MergeRank
<1>2. ASSUME NEW g \in [Pairs -> Chains], NEW p \in Pairs
      PROVE  MergeOf(g, p[1], p[2]) \in Seq(Nodes)
  <2>1. p[1] \in Seq(Nodes) /\ p[2] \in Seq(Nodes)
    BY DEF Pairs
  <2>2. CASE p[1] = <<>> \/ p[2] = <<>>
    BY <2>1, <2>2 DEF MergeOf
  <2>3. CASE p[1] # <<>> /\ p[2] # <<>>
    <3>1. g[<<Tail(p[1]), p[2]>>] \in Seq(Nodes) /\ g[<<p[1], Tail(p[2])>>] \in Seq(Nodes)
      BY <2>1, <2>3, Shorter DEF Chains
    <3>2. Head(p[1]) \in Nodes /\ Head(p[2]) \in Nodes
      BY <2>1, <2>3, HeadTail
    <3>3. /\ <<Head(p[1])>> \o g[<<Tail(p[1]), p[2]>>] \in Seq(Nodes)
          /\ <<Head(p[2])>> \o g[<<p[1], Tail(p[2])>>] \in Seq(Nodes)
      BY <3>1, <3>2, InFront
    <3> QED
      BY <2>1, <2>3, <3>3 DEF MergeOf
  <2> QED
    BY <2>2, <2>3
<1>3. MergeBody \in [[Pairs -> Chains] -> [Pairs -> Chains]]
  BY <1>2 DEF MergeBody, Chains
<1>4. ASSUME NEW g \in [Pairs -> Chains], NEW h \in [Pairs -> Chains], NEW p \in Pairs,
             \A q \in Pairs : MergeRank[q] < MergeRank[p] => g[q] = h[q]
      PROVE  MergeBody[g][p] = MergeBody[h][p]
  <2>1. p[1] \in Seq(Nodes) /\ p[2] \in Seq(Nodes) /\ p = <<p[1], p[2]>>
    BY DEF Pairs
  <2>2. MergeBody[g][p] = MergeOf(g, p[1], p[2]) /\ MergeBody[h][p] = MergeOf(h, p[1], p[2])
    BY DEF MergeBody
  <2>3. CASE p[1] = <<>> \/ p[2] = <<>>
    BY <2>2, <2>3 DEF MergeOf
  <2>4. CASE p[1] # <<>> /\ p[2] # <<>>
    <3>1. /\ g[<<Tail(p[1]), p[2]>>] = h[<<Tail(p[1]), p[2]>>]
          /\ g[<<p[1], Tail(p[2])>>] = h[<<p[1], Tail(p[2])>>]
      BY <1>4, <2>1, <2>4, Shorter
    <3> QED
      BY <2>2, <3>1 DEF MergeOf
  <2> QED
    BY <2>3, <2>4
<1> QED
  BY <1>1, <1>3, <1>4 DEF DescendsFreely

\* Merge is what its definition says.
LEMMA MergeIs ==
    ASSUME NEW l \in Seq(Nodes), NEW r \in Seq(Nodes)
    PROVE  Merge[<<l, r>>] = MergeOf(Merge, l, r)
<1>1. \E g \in [Pairs -> Chains] : g = MergeBody[g]
  <2>1. <<>> \in Chains
    BY DEF Chains
  <2> QED
    BY <2>1, MergeDescends, RecursionFree
<1>2. PICK g \in [Pairs -> Chains] : g = [p \in Pairs |-> MergeOf(g, p[1], p[2])]
  BY <1>1 DEF MergeBody
<1>3. Merge = [p \in Pairs |-> MergeOf(Merge, p[1], p[2])]
  BY <1>2, Zenon DEF Merge, Pairs
<1>4. PICK p \in Pairs : p = <<l, r>>
  BY DEF Pairs
<1>5. p[1] = l /\ p[2] = r
  BY <1>4
<1>6. Merge[p] = MergeOf(Merge, p[1], p[2])
  BY <1>3, Zenon
<1> QED
  BY <1>4, <1>5, <1>6, Zenon

\* Merging with nothing.
LEMMA MergesNothing ==
    ASSUME NEW s \in Seq(Nodes)
    PROVE  Merges(s, <<>>, s) /\ Merges(<<>>, s, s)
  BY DEF Merges, Nodesof

\* One node taken from the left, the rest merged.
LEMMA MergesLeft ==
    ASSUME NEW l \in Seq(Nodes), NEW r \in Seq(Nodes), l # <<>>,
           NEW t, Merges(Tail(l), r, t),
           \A i \in 1..Len(r) : Rising(r) => Key[l[1]] <= Key[r[i]]
    PROVE  Merges(l, r, <<Head(l)>> \o t)
<1>1. PICK n \in Nat : n = Len(l) /\ n > 0
  BY HeadTail
<1>2. PICK x \in Nodes : x = Head(l) /\ x = l[1]
  BY HeadTail
<1>3. PICK tl \in Seq(Nodes) : tl = Tail(l)
  BY HeadTail
<1>4. Len(tl) = n - 1 /\ \A i \in 1..(n - 1) : tl[i] = l[i + 1]
  BY <1>1, <1>3, HeadTail
<1>5. PICK k \in Nat : k = Len(r)
  OBVIOUS
<1>6. t \in Seq(Nodes) /\ Len(t) = (n - 1) + k
  BY <1>3, <1>4, <1>5 DEF Merges
<1>7. PICK u \in Seq(Nodes) : u = <<Head(l)>> \o t
  BY <1>2, <1>6, InFront
<1>8. /\ Len(u) = n + k /\ u[1] = x
      /\ \A i \in 1..(n + k - 1) : u[i + 1] = t[i]
      /\ \A i \in 2..(n + k) : u[i] = t[i - 1]
  <2>1. /\ Len(u) = Len(t) + 1 /\ u[1] = x
        /\ \A i \in 1..Len(t) : u[i + 1] = t[i]
        /\ \A i \in 2..(Len(t) + 1) : u[i] = t[i - 1]
    BY <1>2, <1>6, <1>7, InFront
  <2> QED
    BY <1>1, <1>5, <1>6, <2>1
<1>9. Nodesof(t) = Nodesof(tl) \cup Nodesof(r)
  BY <1>3 DEF Merges
<1>10. \A e : e \in Nodesof(t) <=> \E i \in 1..(n + k - 1) : e = t[i]
  BY <1>1, <1>5, <1>6 DEF Nodesof
<1>11. \A e : e \in Nodesof(u) <=> e = x \/ e \in Nodesof(t)
  <2>1. \A e : e \in Nodesof(u) <=> \E i \in 1..(n + k) : e = u[i]
    BY <1>8 DEF Nodesof
  <2>2. ASSUME NEW e, e \in Nodesof(u) PROVE e = x \/ e \in Nodesof(t)
    <3>1. PICK i \in 1..(n + k) : e = u[i]
      BY <2>1, <2>2
    <3>2. CASE i = 1
      BY <1>8, <3>1, <3>2
    <3>3. CASE i # 1
      <4>1. i - 1 \in 1..(n + k - 1) /\ u[i] = t[i - 1]
        BY <1>1, <1>5, <1>8, <3>3
      <4> QED
        BY <1>10, <3>1, <4>1
    <3> QED
      BY <3>2, <3>3
  <2>3. x \in Nodesof(u)
    BY <1>1, <1>5, <1>8, <2>1
  <2>4. ASSUME NEW e, e \in Nodesof(t) PROVE e \in Nodesof(u)
    <3>1. PICK i \in 1..(n + k - 1) : e = t[i]
      BY <1>10, <2>4
    <3>2. i + 1 \in 1..(n + k) /\ u[i + 1] = t[i]
      BY <1>1, <1>5, <1>8
    <3> QED
      BY <2>1, <3>1, <3>2
  <2> QED
    BY <2>2, <2>3, <2>4
<1>12. \A e : e \in Nodesof(l) <=> e = x \/ e \in Nodesof(tl)
  <2>1. \A e : e \in Nodesof(l) <=> \E i \in 1..n : e = l[i]
    BY <1>1 DEF Nodesof
  <2>2. \A e : e \in Nodesof(tl) <=> \E i \in 1..(n - 1) : e = l[i + 1]
    BY <1>1, <1>4 DEF Nodesof
  <2>3. ASSUME NEW e, e \in Nodesof(l) PROVE e = x \/ e \in Nodesof(tl)
    <3>1. PICK i \in 1..n : e = l[i]
      BY <2>1, <2>3
    <3>2. i # 1 => i - 1 \in 1..(n - 1) /\ (i - 1) + 1 = i
      BY <1>1
    <3> QED
      BY <1>2, <2>2, <3>1, <3>2
  <2>4. ASSUME NEW e, e \in Nodesof(tl) PROVE e \in Nodesof(l)
    <3>1. PICK i \in 1..(n - 1) : e = l[i + 1]
      BY <2>2, <2>4
    <3>2. i + 1 \in 1..n
      BY <1>1
    <3> QED
      BY <2>1, <3>1, <3>2
  <2>5. x \in Nodesof(l)
    BY <1>1, <1>2, <2>1
  <2> QED
    BY <2>3, <2>4, <2>5
<1>13. Nodesof(u) = Nodesof(l) \cup Nodesof(r)
  BY <1>9, <1>11, <1>12
<1>14. ASSUME Distinct(l), Distinct(r), Nodesof(l) \cap Nodesof(r) = {} PROVE Distinct(u)
  <2>1. Distinct(tl)
    <3> SUFFICES ASSUME NEW i \in 1..(n - 1), NEW j \in 1..(n - 1), tl[i] = tl[j] PROVE i = j
      BY <1>4 DEF Distinct
    <3>1. i + 1 \in 1..n /\ j + 1 \in 1..n /\ l[i + 1] = l[j + 1]
      BY <1>1, <1>4
    <3>2. i + 1 = j + 1
      BY <1>1, <1>14, <3>1 DEF Distinct
    <3> QED
      BY <3>2
  <2>2. Nodesof(tl) \cap Nodesof(r) = {}
    BY <1>12, <1>14
  <2>3. Distinct(t)
    BY <1>3, <1>14, <2>1, <2>2 DEF Merges
  <2>4. x \notin Nodesof(tl)
    <3> SUFFICES ASSUME x \in Nodesof(tl) PROVE FALSE
      OBVIOUS
    <3>1. PICK i \in 1..(n - 1) : x = l[i + 1]
      BY <1>1, <1>4 DEF Nodesof
    <3>2. i + 1 \in 1..n /\ 1 \in 1..n /\ i + 1 # 1
      BY <1>1
    <3> QED
      BY <1>1, <1>2, <1>14, <3>1, <3>2 DEF Distinct
  <2>5. x \notin Nodesof(t)
    BY <1>9, <1>12, <1>14, <2>4
  <2> SUFFICES ASSUME NEW i \in 1..(n + k), NEW j \in 1..(n + k), u[i] = u[j] PROVE i = j
    BY <1>8 DEF Distinct
  <2>6. \A e \in 2..(n + k) : e - 1 \in 1..(n + k - 1) /\ u[e] = t[e - 1] /\ u[e] # x
    <3> SUFFICES ASSUME NEW e \in 2..(n + k)
                 PROVE  e - 1 \in 1..(n + k - 1) /\ u[e] = t[e - 1] /\ u[e] # x
      OBVIOUS
    <3>1. e - 1 \in 1..(n + k - 1) /\ u[e] = t[e - 1]
      BY <1>1, <1>5, <1>8
    <3>2. t[e - 1] \in Nodesof(t)
      BY <1>10, <3>1
    <3> QED
      BY <2>5, <3>1, <3>2
  <2>7. CASE i = 1 \/ j = 1
    BY <1>1, <1>5, <1>8, <2>6, <2>7
  <2>8. CASE i # 1 /\ j # 1
    <3>1. i \in 2..(n + k) /\ j \in 2..(n + k)
      BY <1>1, <1>5, <2>8
    <3>2. i - 1 \in 1..(n + k - 1) /\ j - 1 \in 1..(n + k - 1) /\ t[i - 1] = t[j - 1]
      BY <2>6, <3>1
    <3>3. (n - 1) + k = n + k - 1
      BY <1>1, <1>5
    <3>4. i - 1 = j - 1
      BY <1>6, <2>3, <3>2, <3>3 DEF Distinct
    <3> QED
      BY <3>1, <3>4
  <2> QED
    BY <2>7, <2>8
<1>15. ASSUME Rising(l), Rising(r) PROVE Rising(u)
  <2>1. Rising(tl)
    <3> SUFFICES ASSUME NEW i \in 1..(n - 1), NEW j \in 1..(n - 1), i <= j
                 PROVE  Key[tl[i]] <= Key[tl[j]]
      BY <1>4 DEF Rising
    <3>1. i + 1 \in 1..n /\ j + 1 \in 1..n /\ i + 1 <= j + 1 /\ tl[i] = l[i + 1] /\ tl[j] = l[j + 1]
      BY <1>1, <1>4
    <3> QED
      BY <1>1, <1>15, <3>1 DEF Rising
  <2>2. Rising(t)
    BY <1>3, <1>15, <2>1 DEF Merges
  <2>3. \A e \in Nodesof(t) : Key[x] <= Key[e]
    <3> SUFFICES ASSUME NEW e \in Nodesof(t) PROVE Key[x] <= Key[e]
      OBVIOUS
    <3>1. CASE e \in Nodesof(tl)
      <4>1. PICK i \in 1..(n - 1) : e = l[i + 1]
        BY <1>1, <1>4, <3>1 DEF Nodesof
      <4>2. i + 1 \in 1..n /\ 1 \in 1..n /\ 1 <= i + 1
        BY <1>1
      <4> QED
        BY <1>1, <1>2, <1>15, <4>1, <4>2 DEF Rising
    <3>2. CASE e \in Nodesof(r)
      <4>1. PICK i \in 1..Len(r) : e = r[i]
        BY <3>2 DEF Nodesof
      <4> QED
        BY <1>2, <1>15, <4>1
    <3> QED
      BY <1>9, <3>1, <3>2
  <2> SUFFICES ASSUME NEW i \in 1..(n + k), NEW j \in 1..(n + k), i <= j
               PROVE  Key[u[i]] <= Key[u[j]]
    BY <1>8 DEF Rising
  <2>4. Key[x] \in Nat
    BY KeyAssumption
  <2>5. \A e \in 2..(n + k) : e - 1 \in 1..(n + k - 1) /\ u[e] = t[e - 1]
    BY <1>1, <1>5, <1>8
  <2>6. CASE i = 1 /\ j = 1
    BY <1>8, <2>4, <2>6
  <2>7. CASE i = 1 /\ j # 1
    <3>1. j \in 2..(n + k)
      BY <2>7
    <3>2. u[j] \in Nodesof(t)
      BY <1>10, <2>5, <3>1
    <3> QED
      BY <1>8, <2>3, <2>7, <3>2
  <2>8. CASE i # 1
    <3>1. i \in 2..(n + k) /\ j \in 2..(n + k) /\ i - 1 <= j - 1
      BY <2>8
    <3>2. (n - 1) + k = n + k - 1
      BY <1>1, <1>5
    <3>3. /\ i - 1 \in 1..Len(t) /\ j - 1 \in 1..Len(t)
          /\ u[i] = t[i - 1] /\ u[j] = t[j - 1]
      BY <1>6, <2>5, <3>1, <3>2
    <3>4. Key[t[i - 1]] <= Key[t[j - 1]]
      BY <2>2, <3>1, <3>3 DEF Rising
    <3> QED
      BY <3>3, <3>4
  <2> QED
    BY <2>6, <2>7, <2>8
<1> QED
  BY <1>1, <1>5, <1>7, <1>8, <1>13, <1>14, <1>15 DEF Merges

\* It does not matter which side is which.
LEMMA MergesSwap ==
    ASSUME NEW l \in Seq(Nodes), NEW r \in Seq(Nodes), NEW t, Merges(l, r, t)
    PROVE  Merges(r, l, t)
<1>1. Len(l) \in Nat /\ Len(r) \in Nat
  OBVIOUS
<1>2. Len(l) + Len(r) = Len(r) + Len(l)
  BY <1>1
<1>3. /\ Nodesof(l) \cup Nodesof(r) = Nodesof(r) \cup Nodesof(l)
      /\ Nodesof(l) \cap Nodesof(r) = Nodesof(r) \cap Nodesof(l)
  OBVIOUS
<1> QED
  BY <1>2, <1>3, Zenon DEF Merges

\* Merge keeps the promise.
LEMMA MergeRight ==
    ASSUME NEW l \in Seq(Nodes), NEW r \in Seq(Nodes)
    PROVE  Merges(l, r, Merge[<<l, r>>])
<1> DEFINE T == {n \in Nat : \A a, b \in Seq(Nodes) :
                    Len(a) + Len(b) = n => Merges(a, b, Merge[<<a, b>>])}
<1>a. ASSUME NEW a \in Seq(Nodes), NEW b \in Seq(Nodes), a = <<>> \/ b = <<>>
      PROVE  Merges(a, b, Merge[<<a, b>>])
  <2>1. Merge[<<a, b>>] = IF a = <<>> THEN b ELSE a
    BY <1>a, MergeIs DEF MergeOf
  <2> QED
    BY <1>a, <2>1, MergesNothing
<1>1. 0 \in T
  <2> SUFFICES ASSUME NEW a \in Seq(Nodes), NEW b \in Seq(Nodes), Len(a) + Len(b) = 0
               PROVE  Merges(a, b, Merge[<<a, b>>])
    OBVIOUS
  <2>1. Len(a) = 0
    OBVIOUS
  <2>2. a = <<>>
    BY <2>1
  <2> QED
    BY <1>a, <2>2
<1>2. ASSUME NEW n \in Nat, n \in T PROVE n + 1 \in T
  <2> SUFFICES ASSUME NEW a \in Seq(Nodes), NEW b \in Seq(Nodes), Len(a) + Len(b) = n + 1,
                      a # <<>>, b # <<>>
               PROVE  Merges(a, b, Merge[<<a, b>>])
    BY <1>a
  <2>1. /\ Head(a) = a[1] /\ a[1] \in Nodes /\ Tail(a) \in Seq(Nodes)
        /\ Len(Tail(a)) = Len(a) - 1 /\ Len(a) \in Nat /\ Len(a) > 0
    BY HeadTail
  <2>2. /\ Head(b) = b[1] /\ b[1] \in Nodes /\ Tail(b) \in Seq(Nodes)
        /\ Len(Tail(b)) = Len(b) - 1 /\ Len(b) \in Nat /\ Len(b) > 0
    BY HeadTail
  <2>3. Merge[<<a, b>>] = IF Key[Head(a)] < Key[Head(b)] THEN <<Head(a)>> \o Merge[<<Tail(a), b>>]
                          ELSE <<Head(b)>> \o Merge[<<a, Tail(b)>>]
    BY MergeIs DEF MergeOf
  <2>4. Key[a[1]] \in Nat /\ Key[b[1]] \in Nat
    BY <2>1, <2>2, KeyAssumption
  <2>5. CASE Key[a[1]] < Key[b[1]]
    <3>1. Len(Tail(a)) + Len(b) = n
      BY <2>1, <2>2
    <3>2. Merges(Tail(a), b, Merge[<<Tail(a), b>>])
      BY <1>2, <2>1, <3>1
    <3>3. ASSUME Rising(b), NEW i \in 1..Len(b) PROVE Key[a[1]] <= Key[b[i]]
      <4>1. Key[b[1]] <= Key[b[i]] /\ Key[b[i]] \in Nat
        BY <2>2, <3>3, KeyAssumption DEF Rising
      <4> QED
        BY <2>4, <2>5, <4>1
    <3>4. Merges(a, b, <<Head(a)>> \o Merge[<<Tail(a), b>>])
      BY <3>2, <3>3, MergesLeft
    <3> QED
      BY <2>1, <2>2, <2>3, <2>5, <3>4
  <2>6. CASE ~(Key[a[1]] < Key[b[1]])
    <3>1. Len(a) + Len(Tail(b)) = n
      BY <2>1, <2>2
    <3>2. Merges(a, Tail(b), Merge[<<a, Tail(b)>>])
      BY <1>2, <2>2, <3>1
    <3>3. Merges(Tail(b), a, Merge[<<a, Tail(b)>>])
      BY <2>2, <3>2, MergesSwap
    <3>4. ASSUME Rising(a), NEW i \in 1..Len(a) PROVE Key[b[1]] <= Key[a[i]]
      <4>1. Key[a[1]] <= Key[a[i]] /\ Key[a[i]] \in Nat
        BY <2>1, <3>4, KeyAssumption DEF Rising
      <4> QED
        BY <2>4, <2>6, <4>1
    <3>5. Merges(b, a, <<Head(b)>> \o Merge[<<a, Tail(b)>>])
      BY <3>3, <3>4, MergesLeft
    <3>6. Merges(a, b, <<Head(b)>> \o Merge[<<a, Tail(b)>>])
      BY <3>5, MergesSwap
    <3> QED
      BY <2>1, <2>2, <2>3, <2>6, <3>6
  <2> QED
    BY <2>5, <2>6
<1>3. \A n \in Nat : n \in T
  <2> HIDE DEF T
  <2> QED
    BY <1>1, <1>2, NatClosed
<1>4. Len(l) + Len(r) \in Nat
  OBVIOUS
<1> QED
  BY <1>3, <1>4

\* The lists and sublists that are sorted, by the size they are believed to have.
Sized == Seq(Nodes) \X Nat

Truths == BOOLEAN

SizedRank == [p \in Sized |-> p[2]]

FallsBody == [g \in [Sized -> Truths] |-> [p \in Sized |-> FallsOf(g, p[1], p[2])]]

SortedBody == [g \in [Sized -> Chains] |-> [p \in Sized |-> SortedOf(g, p[1], p[2])]]

\* The two sublists are smaller.
LEMMA Halves ==
    ASSUME NEW s \in Seq(Nodes), NEW size \in Nat, size >= 2, ~(size \div 2 > Len(s))
    PROVE  /\ size \div 2 \in Nat /\ size - size \div 2 \in Nat
           /\ size \div 2 >= 1 /\ size \div 2 <= Len(s)
           /\ size \div 2 < size /\ size - size \div 2 < size
           /\ SubSeq(s, 1, size \div 2) \in Seq(Nodes)
           /\ SubSeq(s, size \div 2 + 1, Len(s)) \in Seq(Nodes)
           /\ LeftOf(s, size) \in Sized /\ RightOf(s, size) \in Sized
           /\ SizedRank[LeftOf(s, size)] < size /\ SizedRank[RightOf(s, size)] < size
<1>1. PICK m \in Nat : m = size \div 2
  OBVIOUS
<1>2. /\ m \in Nat /\ size - m \in Nat /\ m >= 1 /\ m <= Len(s) /\ m < size /\ size - m < size
  BY <1>1
<1>3. PICK a, b \in Seq(Nodes) : a = SubSeq(s, 1, m) /\ b = SubSeq(s, m + 1, Len(s))
  <2>1. PICK n \in Nat : n = Len(s) /\ m <= n
    BY <1>2
  <2>2. SubSeq(s, 1, m) \in Seq(Nodes)
    BY <1>2, <2>1
  <2>3. SubSeq(s, m + 1, n) \in Seq(Nodes)
    BY <1>2, <2>1
  <2> QED
    BY <2>1, <2>2, <2>3
<1>4. LeftOf(s, size) = <<a, m>> /\ RightOf(s, size) = <<b, size - m>>
  BY <1>1, <1>3 DEF LeftOf, RightOf
<1>5. <<a, m>> \in Sized /\ <<b, size - m>> \in Sized
  BY <1>2, <1>3 DEF Sized
<1>6. SizedRank[<<a, m>>] = m /\ SizedRank[<<b, size - m>>] = size - m
  BY <1>5 DEF SizedRank
<1> QED
  BY <1>1, <1>2, <1>3, <1>4, <1>5, <1>6

\* The parts of a list and its size.
LEMMA SizedIs ==
    ASSUME NEW p \in Sized
    PROVE  p[1] \in Seq(Nodes) /\ p[2] \in Nat /\ SizedRank[p] = p[2]
  BY DEF Sized, SizedRank

\* The size a caller believes in is a number.
LEMMA SizedRankType == SizedRank \in [Sized -> Nat]
<1>1. \A p \in Sized : p[2] \in Nat
  BY SizedIs
<1> QED
  BY <1>1 DEF SizedRank

\* The recursion of Falls is well founded.
LEMMA FallsDescends == DescendsFreely(Sized, Truths, SizedRank, FallsBody)
<1>1. ASSUME NEW g \in [Sized -> Truths], NEW p \in Sized
      PROVE  FallsOf(g, p[1], p[2]) \in Truths
  BY DEF FallsOf, Truths
<1>2. FallsBody \in [[Sized -> Truths] -> [Sized -> Truths]]
  BY <1>1 DEF FallsBody
<1>3. ASSUME NEW g \in [Sized -> Truths], NEW h \in [Sized -> Truths], NEW p \in Sized,
             \A q \in Sized : SizedRank[q] < SizedRank[p] => g[q] = h[q]
      PROVE  FallsBody[g][p] = FallsBody[h][p]
  <2>1. p[1] \in Seq(Nodes) /\ p[2] \in Nat /\ SizedRank[p] = p[2]
    BY SizedIs
  <2>2. FallsBody[g][p] = FallsOf(g, p[1], p[2]) /\ FallsBody[h][p] = FallsOf(h, p[1], p[2])
    BY DEF FallsBody
  <2>3. CASE p[2] >= 2 /\ ~(p[2] \div 2 > Len(p[1]))
    <3>1. g[LeftOf(p[1], p[2])] = h[LeftOf(p[1], p[2])]
      BY <1>3, <2>1, <2>3, Halves
    <3>2. g[RightOf(p[1], p[2])] = h[RightOf(p[1], p[2])]
      BY <1>3, <2>1, <2>3, Halves
    <3>3. FallsOf(g, p[1], p[2]) = FallsOf(h, p[1], p[2])
      BY <3>1, <3>2, Zenon DEF FallsOf
    <3> QED
      BY <2>2, <3>3
  <2>4. CASE ~(p[2] >= 2 /\ ~(p[2] \div 2 > Len(p[1])))
    <3>1. FallsOf(g, p[1], p[2]) = FallsOf(h, p[1], p[2])
      BY <2>4, Zenon DEF FallsOf
    <3> QED
      BY <2>2, <3>1
  <2> QED
    BY <2>3, <2>4
<1> QED
  BY <1>2, <1>3, SizedRankType DEF DescendsFreely

\* The recursion of Sorted is well founded.
LEMMA SortedDescends == DescendsFreely(Sized, Chains, SizedRank, SortedBody)
<1>1. ASSUME NEW g \in [Sized -> Chains], NEW p \in Sized
      PROVE  SortedOf(g, p[1], p[2]) \in Chains
  <2>1. p[1] \in Seq(Nodes) /\ p[2] \in Nat
    BY SizedIs
  <2>2. CASE p[2] < 2 \/ p[2] \div 2 > Len(p[1])
    BY <2>1, <2>2 DEF SortedOf, Chains
  <2>3. CASE ~(p[2] < 2 \/ p[2] \div 2 > Len(p[1]))
    <3>0. p[2] >= 2 /\ ~(p[2] \div 2 > Len(p[1]))
      BY <2>1, <2>3
    <3>1. PICK a \in Seq(Nodes) : a = g[LeftOf(p[1], p[2])]
      BY <2>1, <3>0, Halves DEF Chains
    <3>2. PICK b \in Seq(Nodes) : b = g[RightOf(p[1], p[2])]
      BY <2>1, <3>0, Halves DEF Chains
    <3>3. Merge[<<a, b>>] \in Chains
      BY MergeRight DEF Merges, Chains
    <3> QED
      BY <2>3, <3>1, <3>2, <3>3 DEF SortedOf
  <2> QED
    BY <2>2, <2>3
<1>2. SortedBody \in [[Sized -> Chains] -> [Sized -> Chains]]
  BY <1>1 DEF SortedBody
<1>3. ASSUME NEW g \in [Sized -> Chains], NEW h \in [Sized -> Chains], NEW p \in Sized,
             \A q \in Sized : SizedRank[q] < SizedRank[p] => g[q] = h[q]
      PROVE  SortedBody[g][p] = SortedBody[h][p]
  <2>1. p[1] \in Seq(Nodes) /\ p[2] \in Nat /\ SizedRank[p] = p[2]
    BY SizedIs
  <2>2. SortedBody[g][p] = SortedOf(g, p[1], p[2]) /\ SortedBody[h][p] = SortedOf(h, p[1], p[2])
    BY DEF SortedBody
  <2>3. CASE p[2] < 2 \/ p[2] \div 2 > Len(p[1])
    BY <2>2, <2>3 DEF SortedOf
  <2>4. CASE ~(p[2] < 2 \/ p[2] \div 2 > Len(p[1]))
    <3>0. p[2] >= 2 /\ ~(p[2] \div 2 > Len(p[1]))
      BY <2>1, <2>4
    <3>1. g[LeftOf(p[1], p[2])] = h[LeftOf(p[1], p[2])]
      BY <1>3, <2>1, <3>0, Halves
    <3>2. g[RightOf(p[1], p[2])] = h[RightOf(p[1], p[2])]
      BY <1>3, <2>1, <3>0, Halves
    <3> QED
      BY <2>2, <3>1, <3>2 DEF SortedOf
  <2> QED
    BY <2>3, <2>4
<1> QED
  BY <1>2, <1>3, SizedRankType DEF DescendsFreely

\* Falls and Sorted are what their definitions say.
LEMMA FallsIs ==
    ASSUME NEW s \in Seq(Nodes), NEW size \in Nat
    PROVE  Falls[<<s, size>>] = FallsOf(Falls, s, size)
<1>1. \E g \in [Sized -> Truths] : g = FallsBody[g]
  <2>1. PICK v \in Truths : TRUE
    BY DEF Truths
  <2> QED
    BY <2>1, FallsDescends, RecursionFree
<1>2. PICK g \in [Sized -> Truths] : g = [p \in Sized |-> FallsOf(g, p[1], p[2])]
  BY <1>1 DEF FallsBody
<1>3. Falls = [p \in Sized |-> FallsOf(Falls, p[1], p[2])]
  BY <1>2, Zenon DEF Falls, Sized
<1>4. PICK p \in Sized : p = <<s, size>>
  BY DEF Sized
<1>5. p[1] = s /\ p[2] = size
  BY <1>4
<1>6. Falls[p] = FallsOf(Falls, p[1], p[2])
  BY <1>3, Zenon
<1> QED
  BY <1>4, <1>5, <1>6, Zenon

\* Sorted satisfies its definition.
LEMMA SortedIs ==
    ASSUME NEW s \in Seq(Nodes), NEW size \in Nat
    PROVE  Sorted[<<s, size>>] = SortedOf(Sorted, s, size)
<1>1. \E g \in [Sized -> Chains] : g = SortedBody[g]
  <2>1. <<>> \in Chains
    BY DEF Chains
  <2> QED
    BY <2>1, SortedDescends, RecursionFree
<1>2. PICK g \in [Sized -> Chains] : g = [p \in Sized |-> SortedOf(g, p[1], p[2])]
  BY <1>1 DEF SortedBody
<1>3. Sorted = [p \in Sized |-> SortedOf(Sorted, p[1], p[2])]
  BY <1>2, Zenon DEF Sorted, Sized
<1>4. PICK p \in Sized : p = <<s, size>>
  BY DEF Sized
<1>5. p[1] = s /\ p[2] = size
  BY <1>4
<1>6. Sorted[p] = SortedOf(Sorted, p[1], p[2])
  BY <1>3, Zenon
<1> QED
  BY <1>4, <1>5, <1>6, Zenon

\* What sorting a list of a believed size promises: no node is lost, and a
\* list of that size is sorted.
Sorts(s, size, t) ==
    /\ t \in Seq(Nodes) /\ Len(t) = Len(s) /\ Nodesof(t) = Nodesof(s)
    /\ Distinct(s) => Distinct(t)
    /\ size = Len(s) => Rising(t)

\* Cutting a list and merging the sorted parts sorts it.
LEMMA SortsHalves ==
    ASSUME NEW s \in Seq(Nodes), NEW m \in Nat, m <= Len(s), NEW size \in Nat, m <= size,
           NEW a, Sorts(SubSeq(s, 1, m), m, a),
           NEW b, Sorts(SubSeq(s, m + 1, Len(s)), size - m, b)
    PROVE  Sorts(s, size, Merge[<<a, b>>])
<1>1. PICK n \in Nat : n = Len(s) /\ m <= n
  OBVIOUS
<1>2. PICK l : l = SubSeq(s, 1, m)
  OBVIOUS
<1>3. PICK r : r = SubSeq(s, m + 1, n)
  OBVIOUS
<1>4. l \in Seq(Nodes) /\ Len(l) = m /\ \A i \in 1..m : l[i] = s[i]
  BY <1>1, <1>2
<1>5. r \in Seq(Nodes) /\ Len(r) = n - m /\ \A i \in 1..(n - m) : r[i] = s[m + i]
  BY <1>1, <1>3
<1>6. Sorts(l, m, a) /\ Sorts(r, size - m, b)
  BY <1>1, <1>2, <1>3
<1>7. PICK t : t = Merge[<<a, b>>]
  OBVIOUS
<1>8. Merges(a, b, t)
  BY <1>6, <1>7, MergeRight DEF Sorts
<1>9. \A e : e \in Nodesof(s) <=> \E i \in 1..n : e = s[i]
  BY <1>1 DEF Nodesof
<1>10. \A e : e \in Nodesof(l) <=> \E i \in 1..m : e = s[i]
  BY <1>4 DEF Nodesof
<1>11. \A e : e \in Nodesof(r) <=> \E i \in 1..(n - m) : e = s[m + i]
  BY <1>5 DEF Nodesof
<1>12. Nodesof(s) = Nodesof(l) \cup Nodesof(r)
  <2>1. ASSUME NEW e, e \in Nodesof(s) PROVE e \in Nodesof(l) \/ e \in Nodesof(r)
    <3>1. PICK i \in 1..n : e = s[i]
      BY <1>9, <2>1
    <3>2. i > m => i - m \in 1..(n - m) /\ m + (i - m) = i
      BY <1>1
    <3>3. i <= m => i \in 1..m
      BY <1>1
    <3>4. i <= m \/ i > m
      BY <1>1
    <3> QED
      BY <1>10, <1>11, <3>1, <3>2, <3>3, <3>4
  <2>2. ASSUME NEW e, e \in Nodesof(l) PROVE e \in Nodesof(s)
    BY <1>1, <1>9, <1>10, <2>2
  <2>3. ASSUME NEW e, e \in Nodesof(r) PROVE e \in Nodesof(s)
    <3>1. PICK i \in 1..(n - m) : e = s[m + i]
      BY <1>11, <2>3
    <3>2. m + i \in 1..n
      BY <1>1
    <3> QED
      BY <1>9, <3>1, <3>2
  <2> QED
    BY <2>1, <2>2, <2>3
<1>13. t \in Seq(Nodes) /\ Len(t) = n /\ Nodesof(t) = Nodesof(s)
  <2>1. Len(a) = m /\ Len(b) = n - m /\ Nodesof(a) = Nodesof(l) /\ Nodesof(b) = Nodesof(r)
    BY <1>4, <1>5, <1>6 DEF Sorts
  <2>2. t \in Seq(Nodes) /\ Len(t) = m + (n - m) /\ Nodesof(t) = Nodesof(l) \cup Nodesof(r)
    BY <1>8, <2>1 DEF Merges
  <2> QED
    BY <1>1, <1>12, <2>2
<1>14. ASSUME Distinct(s) PROVE Distinct(t)
  <2>0. \A i, j \in 1..n : s[i] = s[j] => i = j
    BY <1>1, <1>14 DEF Distinct
  <2>1. Distinct(l)
    BY <1>1, <1>4, <2>0 DEF Distinct
  <2>2. Distinct(r)
    <3> SUFFICES ASSUME NEW i \in 1..(n - m), NEW j \in 1..(n - m), r[i] = r[j] PROVE i = j
      BY <1>5 DEF Distinct
    <3>1. m + i \in 1..n /\ m + j \in 1..n /\ s[m + i] = s[m + j]
      BY <1>1, <1>5
    <3>2. m + i = m + j
      BY <2>0, <3>1
    <3> QED
      BY <3>2
  <2>3. Nodesof(l) \cap Nodesof(r) = {}
    <3> SUFFICES ASSUME NEW e, e \in Nodesof(l), e \in Nodesof(r) PROVE FALSE
      OBVIOUS
    <3>1. PICK i \in 1..m : e = s[i]
      BY <1>10
    <3>2. PICK j \in 1..(n - m) : e = s[m + j]
      BY <1>11
    <3>3. i \in 1..n /\ m + j \in 1..n /\ i # m + j
      BY <1>1
    <3> QED
      BY <2>0, <3>1, <3>2, <3>3
  <2>4. Distinct(a) /\ Distinct(b) /\ Nodesof(a) \cap Nodesof(b) = {}
    BY <1>6, <2>1, <2>2, <2>3 DEF Sorts
  <2> QED
    BY <1>8, <2>4 DEF Merges
<1>15. ASSUME size = n PROVE Rising(t)
  <2>1. Rising(a) /\ Rising(b)
    BY <1>4, <1>5, <1>6, <1>15 DEF Sorts
  <2> QED
    BY <1>8, <2>1 DEF Merges
<1> QED
  BY <1>1, <1>7, <1>13, <1>14, <1>15 DEF Sorts

\* fpx_list_mergesort loses no node, whatever size it is given, and sorts a
\* list of its own size.
LEMMA SortedRight ==
    ASSUME NEW s \in Seq(Nodes), NEW size \in Nat
    PROVE  Sorts(s, size, Sorted[<<s, size>>])
<1> DEFINE T == {n \in Nat : \A k \in Nat : k <= n =>
                    \A c \in Seq(Nodes) : Sorts(c, k, Sorted[<<c, k>>])}
<1>a. ASSUME NEW c \in Seq(Nodes), NEW k \in Nat, k < 2 \/ k \div 2 > Len(c)
      PROVE  Sorts(c, k, Sorted[<<c, k>>])
  <2>1. Sorted[<<c, k>>] = c
    BY <1>a, SortedIs DEF SortedOf
  <2>2. ASSUME k = Len(c) PROVE Rising(c)
    <3>1. k < 2
      BY <1>a, <2>2
    <3>2. \A i, j \in 1..Len(c) : i = 1 /\ j = 1 /\ c[1] \in Nodes
      BY <2>2, <3>1
    <3> QED
      BY <3>2, KeyAssumption DEF Rising
  <2> QED
    BY <2>1, <2>2 DEF Sorts
<1>1. 0 \in T
  <2>1. ASSUME NEW k \in Nat, k <= 0 PROVE k < 2
    BY <2>1
  <2> QED
    BY <1>a, <2>1
<1>2. ASSUME NEW n \in Nat, n \in T PROVE n + 1 \in T
  <2> SUFFICES ASSUME NEW k \in Nat, k <= n + 1, NEW c \in Seq(Nodes), ~(k < 2 \/ k \div 2 > Len(c))
               PROVE  Sorts(c, k, Sorted[<<c, k>>])
    BY <1>a
  <2>1. k >= 2 /\ ~(k \div 2 > Len(c))
    OBVIOUS
  <2>2. PICK m \in Nat : m = k \div 2
    OBVIOUS
  <2>3. /\ m <= Len(c) /\ m <= k /\ m <= n /\ k - m \in Nat /\ k - m <= n
        /\ SubSeq(c, 1, m) \in Seq(Nodes) /\ SubSeq(c, m + 1, Len(c)) \in Seq(Nodes)
    BY <2>1, <2>2, Halves
  <2>4. PICK a : a = Sorted[<<SubSeq(c, 1, m), m>>]
    OBVIOUS
  <2>5. PICK b : b = Sorted[<<SubSeq(c, m + 1, Len(c)), k - m>>]
    OBVIOUS
  <2>6. Sorts(SubSeq(c, 1, m), m, a)
    BY <1>2, <2>3, <2>4
  <2>7. Sorts(SubSeq(c, m + 1, Len(c)), k - m, b)
    BY <1>2, <2>3, <2>5
  <2>8. Sorted[<<c, k>>] = Merge[<<a, b>>]
    BY <2>2, <2>4, <2>5, SortedIs DEF SortedOf, LeftOf, RightOf
  <2> QED
    BY <2>3, <2>6, <2>7, <2>8, SortsHalves
<1>3. \A n \in Nat : n \in T
  <2> HIDE DEF T
  <2> QED
    BY <1>1, <1>2, NatClosed
<1>4. size \in T
  <2> HIDE DEF T
  <2> QED
    BY <1>3
<1>5. size <= size
  OBVIOUS
<1> QED
  BY <1>4, <1>5

\* Sorting a list of its own size never follows a null pointer.
LEMMA NeverFalls ==
    ASSUME NEW s \in Seq(Nodes)
    PROVE  ~Falls[<<s, Len(s)>>]
<1> DEFINE T == {n \in Nat : \A c \in Seq(Nodes) : Len(c) <= n => ~Falls[<<c, Len(c)>>]}
<1>a. ASSUME NEW c \in Seq(Nodes), Len(c) < 2 PROVE ~Falls[<<c, Len(c)>>]
  <2>1. PICK k \in Nat : k = Len(c) /\ ~(k >= 2)
    BY <1>a
  <2>2. ~FallsOf(Falls, c, k)
    BY <2>1 DEF FallsOf
  <2> QED
    BY <2>1, <2>2, FallsIs
<1>1. 0 \in T
  BY <1>a
<1>2. ASSUME NEW n \in Nat, n \in T PROVE n + 1 \in T
  <2> SUFFICES ASSUME NEW c \in Seq(Nodes), Len(c) <= n + 1, ~(Len(c) < 2)
               PROVE  ~Falls[<<c, Len(c)>>]
    BY <1>a
  <2>1. PICK k \in Nat : k = Len(c)
    OBVIOUS
  <2>2. PICK m \in Nat : m = k \div 2
    OBVIOUS
  <2>3. k >= 2 /\ k <= n + 1 /\ m >= 1 /\ m <= k /\ m <= n /\ k - m <= n /\ ~(k \div 2 > Len(c))
    BY <2>1, <2>2
  <2>4. PICK a : a = SubSeq(c, 1, m)
    OBVIOUS
  <2>5. PICK b : b = SubSeq(c, m + 1, k)
    OBVIOUS
  <2>6. a \in Seq(Nodes) /\ Len(a) = m /\ b \in Seq(Nodes) /\ Len(b) = k - m
    BY <2>1, <2>3, <2>4, <2>5
  <2>7. ~Falls[<<a, m>>] /\ ~Falls[<<b, k - m>>]
    BY <1>2, <2>3, <2>6
  <2>8. LeftOf(c, k) = <<a, m>> /\ RightOf(c, k) = <<b, k - m>>
    BY <2>1, <2>2, <2>4, <2>5 DEF LeftOf, RightOf
  <2>9. ~FallsOf(Falls, c, k)
    BY <2>3, <2>7, <2>8 DEF FallsOf
  <2> QED
    BY <2>1, <2>9, FallsIs
<1>3. \A n \in Nat : n \in T
  <2> HIDE DEF T
  <2> QED
    BY <1>1, <1>2, NatClosed
<1>4. Len(s) \in Nat /\ Len(s) <= Len(s)
  OBVIOUS
<1> QED
  BY <1>3, <1>4

\* Sorting nothing, believed to be something, does.
LEMMA NothingFalls ==
    ASSUME NEW size \in Nat, size >= 2
    PROVE  Falls[<<<<>>, size>>]
<1>1. <<>> \in Seq(Nodes) /\ size \div 2 > Len(<<>>)
  OBVIOUS
<1>2. FallsOf(Falls, <<>>, size)
  BY <1>1 DEF FallsOf
<1> QED
  BY <1>1, <1>2, FallsIs

(***************************************************************************)
(* The operations.                                                         *)
(***************************************************************************)
ListTypes ==
    /\ list \in [head : Pointers, tail : Pointers, size : 0..(SIZE_WRAP - 1)]
    /\ next \in [Nodes -> Pointers] /\ prev \in [Nodes -> Pointers]
    /\ counted \in BOOLEAN /\ fault \in BOOLEAN

\* The chain from the head is threaded both ways, and its size right while counted.
ListInv == ListTypes /\ Thread(list, next, prev, Forward) /\ SizeExact

\* The next state is well typed and threads s.
Becomes(s) == ListTypes' /\ Thread(list', next', prev', s)

\* The chain from the head is then s.
LEMMA BecomesIs == ASSUME NEW s, Becomes(s) PROVE Forward' = s
  BY ThreadIs DEF Becomes, Forward

\* A node of s is at one place only.
LEMMA AtOnce ==
    ASSUME NEW s \in Threads, NEW i \in 1..Len(s), NEW j \in Int
    PROVE  s[i] = At(s, j) <=> i = j
<1>1. s \in Seq(Nodes) /\ \A x, y \in 1..Len(s) : s[x] = s[y] => x = y
  BY DEF Threads, Distinct
<1>2. s[i] \in Nodes /\ s[i] # NULL
  BY <1>1, NodesAssumption
<1> QED
  BY <1>1, <1>2 DEF At

\* What is known of a list.
LEMMA ListIs ==
    ASSUME ListInv
    PROVE  /\ Forward \in Threads /\ Forward \in Seq(Nodes) /\ Len(Forward) \in Nat
           /\ Linked = Nodesof(Forward)
           /\ list.head = At(Forward, 1) /\ list.tail = At(Forward, Len(Forward))
           /\ \A i \in 1..Len(Forward) : /\ Forward[i] \in Nodes
                                         /\ next[Forward[i]] = At(Forward, i + 1)
                                         /\ prev[Forward[i]] = At(Forward, i - 1)
           /\ list.size \in Nat /\ list.size < SIZE_WRAP /\ SIZE_WRAP \in Nat
<1>1. PICK s : s = Forward
  OBVIOUS
<1>2. /\ s \in Threads /\ list.head = At(s, 1) /\ list.tail = At(s, Len(s))
      /\ \A i \in 1..Len(s) : next[s[i]] = At(s, i + 1) /\ prev[s[i]] = At(s, i - 1)
  BY <1>1 DEF ListInv, Thread
<1>3. s \in Seq(Nodes) /\ Len(s) \in Nat /\ \A i \in 1..Len(s) : s[i] \in Nodes
  BY <1>2 DEF Threads
<1>4. Linked = Nodesof(s)
  <2>1. DOMAIN s = 1..Len(s)
    BY <1>3
  <2> QED
    BY <1>1, <2>1 DEF Linked, Nodesof
<1>5. list.size \in Nat /\ list.size < SIZE_WRAP /\ SIZE_WRAP \in Nat
  BY WrapAssumption DEF ListInv, ListTypes
<1> QED
  BY <1>1, <1>2, <1>3, <1>4, <1>5

\* A place of s holds NULL only if it is none.
LEMMA NoPlace ==
    ASSUME NEW s \in Threads, NEW j \in Int
    PROVE  At(s, j) = NULL <=> ~(j >= 1 /\ j <= Len(s))
<1>1. s \in Seq(Nodes) /\ Len(s) \in Nat
  BY DEF Threads
<1>2. \A i \in 1..Len(s) : s[i] \in Nodes /\ s[i] # NULL
  BY <1>1, NodesAssumption
<1> QED
  BY <1>1, <1>2 DEF At

\* fpx_list_push_front puts the node in front.
LEMMA PushFront ==
    ASSUME ListInv, NEW n \in Nodes, fpx_list_push_front(n)
    PROVE  Becomes(InsertAt(Forward, 1, n))
<1>1. PICK s : s = Forward
  OBVIOUS
<1>2. /\ s \in Threads /\ s \in Seq(Nodes) /\ Len(s) \in Nat /\ Linked = Nodesof(s)
      /\ list.head = At(s, 1) /\ list.tail = At(s, Len(s))
      /\ \A i \in 1..Len(s) : s[i] \in Nodes
  BY <1>1, ListIs
<1>3. \A i \in 1..Len(s) : s[i] # n
  BY <1>2 DEF fpx_list_push_front, Nodesof
<1>4. ListTypes'
  <2>1. n \in Pointers /\ NULL \in Pointers /\ list.head \in Pointers /\ list.tail \in Pointers
    BY DEF ListInv, ListTypes, Pointers
  <2>2. (list.size + 1) % SIZE_WRAP \in 0..(SIZE_WRAP - 1)
    BY WrapAssumption, ListIs
  <2>3. next' \in [Nodes -> Pointers] /\ prev' \in [Nodes -> Pointers]
    BY <2>1 DEF fpx_list_push_front, ListInv, ListTypes
  <2>4. list' \in [head : Pointers, tail : Pointers, size : 0..(SIZE_WRAP - 1)]
    BY <2>1, <2>2 DEF fpx_list_push_front
  <2>5. counted' \in BOOLEAN /\ fault' \in BOOLEAN
    BY DEF fpx_list_push_front, ListInv, ListTypes
  <2> QED
    BY <2>3, <2>4, <2>5 DEF ListTypes
<1>5. LinkedIn(list, next, prev, s, 1, n, list', next', prev')
  <2>1. list'.head = n /\ list'.tail = IF list.head = NULL THEN n ELSE list.tail
    BY DEF fpx_list_push_front
  <2>2. list.head = NULL <=> 1 = Len(s) + 1
    BY <1>2, NoPlace
  <2>3. next'[n] = At(s, 1) /\ prev'[n] = At(s, 1 - 1)
    <3>1. next'[n] = list.head /\ prev'[n] = NULL
      BY DEF fpx_list_push_front, ListInv, ListTypes
    <3>2. At(s, 1 - 1) = NULL
      BY <1>2, NoPlace
    <3> QED
      BY <1>2, <3>1, <3>2
  <2>4. ASSUME NEW i \in 1..Len(s)
        PROVE  /\ next'[s[i]] = IF i = 1 - 1 THEN n ELSE next[s[i]]
               /\ prev'[s[i]] = IF i = 1 THEN n ELSE prev[s[i]]
    <3>1. s[i] \in Nodes /\ s[i] # n
      BY <1>2, <1>3
    <3>2. next'[s[i]] = next[s[i]]
      BY <3>1 DEF fpx_list_push_front, ListInv, ListTypes
    <3>3. prev'[s[i]] = IF s[i] = list.head THEN n ELSE prev[s[i]]
      BY <3>1 DEF fpx_list_push_front
    <3>4. s[i] = list.head <=> i = 1
      BY <1>2, AtOnce
    <3> QED
      BY <3>2, <3>3, <3>4
  <2> QED
    BY <2>1, <2>2, <2>3, <2>4 DEF LinkedIn
<1>6. Thread(list, next, prev, s) /\ 1 \in 1..(Len(s) + 1)
  BY <1>1, <1>2 DEF ListInv
<1>7. Thread(list', next', prev', InsertAt(s, 1, n))
  BY <1>3, <1>5, <1>6, LinkIn
<1> QED
  BY <1>1, <1>4, <1>7 DEF Becomes

\* fpx_list_push_back puts it at the end.
LEMMA PushBack ==
    ASSUME ListInv, NEW n \in Nodes, fpx_list_push_back(n)
    PROVE  Becomes(InsertAt(Forward, Len(Forward) + 1, n))
<1>1. PICK s : s = Forward
  OBVIOUS
<1>2. /\ s \in Threads /\ s \in Seq(Nodes) /\ Len(s) \in Nat /\ Linked = Nodesof(s)
      /\ list.head = At(s, 1) /\ list.tail = At(s, Len(s))
      /\ \A i \in 1..Len(s) : s[i] \in Nodes
  BY <1>1, ListIs
<1>3. \A i \in 1..Len(s) : s[i] # n
  BY <1>2 DEF fpx_list_push_back, Nodesof
<1>4. ListTypes'
  <2>1. n \in Pointers /\ NULL \in Pointers /\ list.head \in Pointers /\ list.tail \in Pointers
    BY DEF ListInv, ListTypes, Pointers
  <2>2. (list.size + 1) % SIZE_WRAP \in 0..(SIZE_WRAP - 1)
    BY WrapAssumption, ListIs
  <2>3. next' \in [Nodes -> Pointers] /\ prev' \in [Nodes -> Pointers]
    BY <2>1 DEF fpx_list_push_back, Before, ListInv, ListTypes
  <2>4. list' \in [head : Pointers, tail : Pointers, size : 0..(SIZE_WRAP - 1)]
    BY <2>1, <2>2 DEF fpx_list_push_back
  <2>5. counted' \in BOOLEAN /\ fault' \in BOOLEAN
    BY DEF fpx_list_push_back, ListInv, ListTypes
  <2> QED
    BY <2>3, <2>4, <2>5 DEF ListTypes
<1> DEFINE k == Len(s) + 1
<1>5. LinkedIn(list, next, prev, s, k, n, list', next', prev')
  <2>1. list'.head = (IF list.tail = NULL THEN n ELSE list.head) /\ list'.tail = n
    BY DEF fpx_list_push_back
  <2>2. list.tail = NULL <=> k = 1
    BY <1>2, NoPlace
  <2>3. next'[n] = At(s, k) /\ prev'[n] = At(s, k - 1)
    <3>1. next'[n] = NULL /\ prev'[n] = list.tail
      BY DEF fpx_list_push_back, Before, ListInv, ListTypes
    <3>2. At(s, k) = NULL /\ k - 1 = Len(s)
      BY <1>2, NoPlace
    <3> QED
      BY <1>2, <3>1, <3>2
  <2>4. ASSUME NEW i \in 1..Len(s)
        PROVE  /\ next'[s[i]] = IF i = k - 1 THEN n ELSE next[s[i]]
               /\ prev'[s[i]] = IF i = k THEN n ELSE prev[s[i]]
    <3>1. s[i] \in Nodes /\ s[i] # n
      BY <1>2, <1>3
    <3>2. next'[s[i]] = IF s[i] = list.tail THEN n ELSE next[s[i]]
      BY <3>1 DEF fpx_list_push_back
    <3>3. prev'[s[i]] = prev[s[i]]
      BY <3>1 DEF fpx_list_push_back, ListInv, ListTypes
    <3>4. s[i] = list.tail <=> i = Len(s)
      BY <1>2, AtOnce
    <3>5. i # k /\ k - 1 = Len(s)
      BY <1>2
    <3> QED
      BY <3>2, <3>3, <3>4, <3>5
  <2> QED
    BY <2>1, <2>2, <2>3, <2>4 DEF LinkedIn
<1>6. Thread(list, next, prev, s) /\ k \in 1..(Len(s) + 1)
  BY <1>1, <1>2 DEF ListInv
<1> HIDE DEF k
<1>7. Thread(list', next', prev', InsertAt(s, k, n))
  BY <1>3, <1>5, <1>6, LinkIn
<1> QED
  BY <1>1, <1>4, <1>7 DEF Becomes, k

\* fpx_list_insert_before puts the node in the place of the one it is given.
LEMMA InsertBefore ==
    ASSUME ListInv, NEW n \in Nodes, NEW b \in Nodes, fpx_list_insert_before(b, n)
    PROVE  \E k \in 1..Len(Forward) : Forward[k] = b /\ Becomes(InsertAt(Forward, k, n))
<1>1. PICK s : s = Forward
  OBVIOUS
<1>2. /\ s \in Threads /\ s \in Seq(Nodes) /\ Len(s) \in Nat /\ Linked = Nodesof(s)
      /\ list.head = At(s, 1) /\ list.tail = At(s, Len(s))
      /\ \A i \in 1..Len(s) : s[i] \in Nodes /\ prev[s[i]] = At(s, i - 1)
  BY <1>1, ListIs
<1>3. \A i \in 1..Len(s) : s[i] # n
  BY <1>2 DEF fpx_list_insert_before, Nodesof
<1>4. PICK k \in 1..Len(s) : s[k] = b
  BY <1>2 DEF fpx_list_insert_before, Nodesof
<1>5. prev[b] = At(s, k - 1) /\ b # n
  BY <1>2, <1>3, <1>4
<1>6. ListTypes'
  <2>1. n \in Pointers /\ b \in Pointers /\ prev[b] \in Pointers
    BY DEF ListInv, ListTypes, Pointers
  <2>2. next' \in [Nodes -> Pointers] /\ prev' \in [Nodes -> Pointers]
    BY <2>1 DEF fpx_list_insert_before, ListInv, ListTypes
  <2>3. list' \in [head : Pointers, tail : Pointers, size : 0..(SIZE_WRAP - 1)]
    BY <2>1 DEF fpx_list_insert_before, ListInv, ListTypes
  <2>4. counted' \in BOOLEAN /\ fault' \in BOOLEAN
    BY DEF fpx_list_insert_before, ListInv, ListTypes
  <2> QED
    BY <2>2, <2>3, <2>4 DEF ListTypes
<1>7. LinkedIn(list, next, prev, s, k, n, list', next', prev')
  <2>1. list'.head = (IF prev[b] = NULL THEN n ELSE list.head) /\ list'.tail = list.tail
    BY DEF fpx_list_insert_before, ListInv, ListTypes
  <2>2. prev[b] = NULL <=> k = 1
    BY <1>2, <1>5, NoPlace
  <2>3. next'[n] = At(s, k) /\ prev'[n] = At(s, k - 1)
    <3>1. next'[n] = b /\ prev'[n] = prev[b]
      BY <1>5 DEF fpx_list_insert_before, ListInv, ListTypes
    <3>2. At(s, k) = b
      BY <1>4 DEF At
    <3> QED
      BY <1>5, <3>1, <3>2
  <2>4. ASSUME NEW i \in 1..Len(s)
        PROVE  /\ next'[s[i]] = IF i = k - 1 THEN n ELSE next[s[i]]
               /\ prev'[s[i]] = IF i = k THEN n ELSE prev[s[i]]
    <3>1. s[i] \in Nodes /\ s[i] # n
      BY <1>2, <1>3
    <3>2. next'[s[i]] = IF s[i] = prev[b] THEN n ELSE next[s[i]]
      BY <3>1 DEF fpx_list_insert_before
    <3>3. prev'[s[i]] = IF s[i] = b THEN n ELSE prev[s[i]]
      BY <3>1 DEF fpx_list_insert_before, ListInv, ListTypes
    <3>4. s[i] = prev[b] <=> i = k - 1
      BY <1>2, <1>5, AtOnce
    <3>5. s[i] = b <=> i = k
      BY <1>2, <1>4 DEF Threads, Distinct
    <3> QED
      BY <3>2, <3>3, <3>4, <3>5
  <2>5. k # Len(s) + 1
    BY <1>2
  <2> QED
    BY <2>1, <2>2, <2>3, <2>4, <2>5 DEF LinkedIn
<1>8. Thread(list, next, prev, s) /\ k \in 1..(Len(s) + 1)
  BY <1>1, <1>2 DEF ListInv
<1>9. Thread(list', next', prev', InsertAt(s, k, n))
  BY <1>3, <1>7, <1>8, LinkIn
<1> QED
  BY <1>1, <1>4, <1>6, <1>9 DEF Becomes

\* fpx_list_insert_after puts the node behind the one it is given.
LEMMA InsertAfter ==
    ASSUME ListInv, NEW n \in Nodes, NEW a \in Nodes, fpx_list_insert_after(a, n)
    PROVE  \E k \in 1..Len(Forward) : Forward[k] = a /\ Becomes(InsertAt(Forward, k + 1, n))
<1>1. PICK s : s = Forward
  OBVIOUS
<1>2. /\ s \in Threads /\ s \in Seq(Nodes) /\ Len(s) \in Nat /\ Linked = Nodesof(s)
      /\ list.head = At(s, 1) /\ list.tail = At(s, Len(s))
      /\ \A i \in 1..Len(s) : s[i] \in Nodes /\ next[s[i]] = At(s, i + 1)
  BY <1>1, ListIs
<1>3. \A i \in 1..Len(s) : s[i] # n
  BY <1>2 DEF fpx_list_insert_after, Nodesof
<1>4. PICK k \in 1..Len(s) : s[k] = a
  BY <1>2 DEF fpx_list_insert_after, Nodesof
<1>5. next[a] = At(s, k + 1) /\ a # n
  BY <1>2, <1>3, <1>4
<1>6. ListTypes'
  <2>1. n \in Pointers /\ a \in Pointers /\ next[a] \in Pointers
    BY DEF ListInv, ListTypes, Pointers
  <2>2. next' \in [Nodes -> Pointers] /\ prev' \in [Nodes -> Pointers]
    BY <2>1 DEF fpx_list_insert_after, ListInv, ListTypes
  <2>3. list' \in [head : Pointers, tail : Pointers, size : 0..(SIZE_WRAP - 1)]
    BY <2>1 DEF fpx_list_insert_after, ListInv, ListTypes
  <2>4. counted' \in BOOLEAN /\ fault' \in BOOLEAN
    BY DEF fpx_list_insert_after, ListInv, ListTypes
  <2> QED
    BY <2>2, <2>3, <2>4 DEF ListTypes
<1>7. LinkedIn(list, next, prev, s, k + 1, n, list', next', prev')
  <2>1. list'.head = list.head /\ list'.tail = IF next[a] = NULL THEN n ELSE list.tail
    BY DEF fpx_list_insert_after, ListInv, ListTypes
  <2>2. next[a] = NULL <=> k + 1 = Len(s) + 1
    BY <1>2, <1>5, NoPlace
  <2>3. next'[n] = At(s, k + 1) /\ prev'[n] = At(s, (k + 1) - 1)
    <3>1. next'[n] = next[a] /\ prev'[n] = a
      BY <1>5 DEF fpx_list_insert_after, ListInv, ListTypes
    <3>2. At(s, k) = a /\ (k + 1) - 1 = k
      BY <1>2, <1>4 DEF At
    <3> QED
      BY <1>5, <3>1, <3>2
  <2>4. ASSUME NEW i \in 1..Len(s)
        PROVE  /\ next'[s[i]] = IF i = (k + 1) - 1 THEN n ELSE next[s[i]]
               /\ prev'[s[i]] = IF i = k + 1 THEN n ELSE prev[s[i]]
    <3>1. s[i] \in Nodes /\ s[i] # n
      BY <1>2, <1>3
    <3>2. next'[s[i]] = IF s[i] = a THEN n ELSE next[s[i]]
      BY <3>1 DEF fpx_list_insert_after, ListInv, ListTypes
    <3>3. prev'[s[i]] = IF s[i] = next[a] THEN n ELSE prev[s[i]]
      BY <3>1 DEF fpx_list_insert_after
    <3>4. s[i] = next[a] <=> i = k + 1
      BY <1>2, <1>5, AtOnce
    <3>5. s[i] = a <=> i = k
      BY <1>2, <1>4 DEF Threads, Distinct
    <3>6. (k + 1) - 1 = k
      BY <1>2
    <3> QED
      BY <3>2, <3>3, <3>4, <3>5, <3>6
  <2>5. k + 1 # 1
    BY <1>2
  <2> QED
    BY <2>1, <2>2, <2>3, <2>4, <2>5 DEF LinkedIn
<1>8. Thread(list, next, prev, s) /\ k + 1 \in 1..(Len(s) + 1)
  BY <1>1, <1>2 DEF ListInv
<1>9. Thread(list', next', prev', InsertAt(s, k + 1, n))
  BY <1>3, <1>7, <1>8, LinkIn
<1> QED
  BY <1>1, <1>4, <1>6, <1>9 DEF Becomes

\* Unlinking a node of the list takes it out.
LEMMA Unlinks ==
    ASSUME ListInv, NEW n \in Linked, Unlink(n)
    PROVE  \E k \in 1..Len(Forward) : Forward[k] = n /\ Becomes(RemoveAt(Forward, k))
<1>1. PICK s : s = Forward
  OBVIOUS
<1>2. /\ s \in Threads /\ s \in Seq(Nodes) /\ Len(s) \in Nat /\ Linked = Nodesof(s)
      /\ list.head = At(s, 1) /\ list.tail = At(s, Len(s))
      /\ \A i \in 1..Len(s) : /\ s[i] \in Nodes
                              /\ next[s[i]] = At(s, i + 1) /\ prev[s[i]] = At(s, i - 1)
  BY <1>1, ListIs
<1>3. PICK k \in 1..Len(s) : s[k] = n
  BY <1>2 DEF Nodesof
<1>4. n \in Nodes /\ next[n] = At(s, k + 1) /\ prev[n] = At(s, k - 1)
  BY <1>2, <1>3
<1>5. ListTypes'
  <2>1. /\ next[n] \in Pointers /\ prev[n] \in Pointers
        /\ list.head \in Pointers /\ list.tail \in Pointers
    BY <1>4 DEF ListInv, ListTypes
  <2>2. next' \in [Nodes -> Pointers] /\ prev' \in [Nodes -> Pointers]
    BY <2>1 DEF Unlink, ListInv, ListTypes
  <2>3. Decremented(list.size) \in 0..(SIZE_WRAP - 1)
    <3>1. PICK x \in Nat : x = list.size
      BY ListIs
    <3>2. (x - 1) % SIZE_WRAP \in 0..(SIZE_WRAP - 1)
      <4>1. SIZE_WRAP \in Nat /\ SIZE_WRAP > 0
        BY ListIs
      <4> QED
        BY <4>1
    <3> QED
      BY <3>1, <3>2 DEF Decremented
  <2>4. list' \in [head : Pointers, tail : Pointers, size : 0..(SIZE_WRAP - 1)]
    BY <2>1, <2>3 DEF Unlink, TailWithout
  <2>5. counted' \in BOOLEAN /\ fault' \in BOOLEAN
    BY DEF Unlink, ListInv, ListTypes
  <2> QED
    BY <2>2, <2>4, <2>5 DEF ListTypes
<1>6. LinkedOut(list, next, prev, s, k, list', next', prev')
  <2>1. /\ list'.head = IF list.head = n THEN next[n] ELSE list.head
        /\ list'.tail = IF list.tail = n THEN prev[n] ELSE list.tail
    BY DEF Unlink, TailWithout
  <2>2. list.head = n <=> k = 1
    <3>1. s[k] = At(s, 1) <=> k = 1
      BY <1>2, AtOnce
    <3> QED
      BY <1>2, <1>3, <3>1
  <2>3. list.tail = n <=> k = Len(s)
    <3>1. s[k] = At(s, Len(s)) <=> k = Len(s)
      BY <1>2, AtOnce
    <3> QED
      BY <1>2, <1>3, <3>1
  <2>4. ASSUME NEW i \in 1..Len(s), i # k
        PROVE  /\ next'[s[i]] = IF i = k - 1 THEN next[s[k]] ELSE next[s[i]]
               /\ prev'[s[i]] = IF i = k + 1 THEN prev[s[k]] ELSE prev[s[i]]
    <3>1. s[i] \in Nodes
      BY <1>2
    <3>2. /\ next'[s[i]] = IF s[i] = prev[n] THEN next[n] ELSE next[s[i]]
          /\ prev'[s[i]] = IF s[i] = next[n] THEN prev[n] ELSE prev[s[i]]
      BY <3>1 DEF Unlink
    <3>3. s[i] = prev[n] <=> i = k - 1
      BY <1>2, <1>4, AtOnce
    <3>4. s[i] = next[n] <=> i = k + 1
      BY <1>2, <1>4, AtOnce
    <3> QED
      BY <1>3, <3>2, <3>3, <3>4
  <2> QED
    BY <1>3, <2>1, <2>2, <2>3, <2>4 DEF LinkedOut
<1>7. Thread(list, next, prev, s)
  BY <1>1 DEF ListInv
<1>8. Thread(list', next', prev', RemoveAt(s, k))
  BY <1>6, <1>7, LinkOut
<1> QED
  BY <1>1, <1>3, <1>5, <1>8 DEF Becomes

\* What is found in a chain is the first node with the key.
LEMMA Finds ==
    ASSUME NEW s \in Threads, NEW k, FirstIn(s, k) # NULL
    PROVE  \E i \in 1..Len(s) : /\ FirstIn(s, k) = s[i] /\ Key[s[i]] = k
                                /\ \A j \in 1..Len(s) : Key[s[j]] = k => i <= j
<1> DEFINE hits == {i \in DOMAIN s : Key[s[i]] = k}
<1>1. Len(s) \in Nat /\ DOMAIN s = 1..Len(s)
  BY DEF Threads
<1>2. hits # {}
  BY DEF FirstIn
<1>3. /\ hits \in SUBSET Nat /\ \A i \in hits : i \in 1..Len(s) /\ Key[s[i]] = k
      /\ \A j \in 1..Len(s) : Key[s[j]] = k => j \in hits
  BY <1>1
<1>4. FirstIn(s, k) = s[CHOOSE i \in hits : \A j \in hits : i <= j]
  BY <1>2 DEF FirstIn
<1> HIDE DEF hits
<1>5. \E i \in hits : \A j \in hits : i <= j
  BY <1>2, <1>3, NatMin
<1>6. PICK i : i = CHOOSE x \in hits : \A j \in hits : x <= j
  OBVIOUS
<1>7. i \in hits /\ \A j \in hits : i <= j
  BY <1>5, <1>6
<1> QED
  BY <1>3, <1>4, <1>6, <1>7

\* Walking back meets the nodes of the list.
LEMMA BackwardIs ==
    ASSUME ListInv
    PROVE  Backward = Backwards(Forward) /\ Backward \in Threads /\ Nodesof(Backward) = Linked
<1>1. PICK s : s = Forward
  OBVIOUS
<1>2. s \in Threads /\ Linked = Nodesof(s) /\ Len(s) \in Nat
  BY <1>1, ListIs
<1>3. Backward = Backwards(s)
  BY <1>1, ThreadIs DEF ListInv, Backward
<1>4. PICK r \in Threads : r = Backwards(s) /\ Len(r) = Len(s)
  BY <1>2, BackwardsIs
<1>5. \A i \in 1..Len(s) : Len(s) + 1 - i \in 1..Len(s) /\ r[i] = s[Len(s) + 1 - i]
  BY <1>2, <1>4, BackwardsIs
<1>6. \A i \in 1..Len(s) : s[i] = r[Len(s) + 1 - i]
  <2> SUFFICES ASSUME NEW i \in 1..Len(s) PROVE s[i] = r[Len(s) + 1 - i]
    OBVIOUS
  <2>1. Len(s) + 1 - i \in 1..Len(s) /\ Len(s) + 1 - (Len(s) + 1 - i) = i
    BY <1>2
  <2> QED
    BY <1>5, <2>1
<1>7. Nodesof(r) = Nodesof(s)
  BY <1>4, <1>5, <1>6 DEF Nodesof
<1> QED
  BY <1>1, <1>2, <1>3, <1>4, <1>7

\* Pushing back the nodes of the list in another order threads that order.
LEMMA PushesAll ==
    ASSUME ListInv, NEW t \in Seq(Nodes), Distinct(t), Nodesof(t) = Linked, t # <<>>,
           Pushed(t), UNCHANGED fault, counted' = FALSE
    PROVE  Becomes(t)
<1> DEFINE at(n) == CHOOSE i \in DOMAIN t : t[i] = n
<1>1. t \in Threads
  BY DEF Threads
<1>2. PICK m \in Nat : m = Len(t) /\ m > 0 /\ DOMAIN t = 1..m
  OBVIOUS
<1>3. ASSUME NEW i \in 1..m PROVE at(t[i]) = i
  <2>1. \A j \in DOMAIN t : t[j] = t[i] => j = i
    BY <1>2 DEF Distinct
  <2>2. i \in DOMAIN t
    BY <1>2
  <2> QED
    BY <2>1, <2>2
<1>4. ASSUME NEW n \in Linked PROVE at(n) \in 1..m /\ t[at(n)] = n
  <2>1. PICK i \in 1..m : t[i] = n
    BY <1>2, <1>4 DEF Nodesof
  <2> QED
    BY <1>3, <2>1
<1>5. /\ next' = [n \in Nodes |-> IF n \notin Linked THEN next[n]
                                  ELSE IF at(n) = m THEN NULL ELSE t[at(n) + 1]]
      /\ prev' = [n \in Nodes |-> IF n \notin Linked THEN prev[n]
                                  ELSE IF at(n) = 1 THEN NULL ELSE t[at(n) - 1]]
      /\ list' = [head |-> t[1], tail |-> t[m], size |-> (list.size + m) % SIZE_WRAP]
  BY <1>2 DEF Pushed
<1> HIDE DEF at
<1>6. \A i \in 1..m : t[i] \in Nodes /\ t[i] \in Linked /\ t[i] \in Pointers
  BY <1>2 DEF Nodesof, Pointers
<1>7. NULL \in Pointers
  BY DEF Pointers
<1>8. ListTypes'
  <2>1. ASSUME NEW n \in Nodes
        PROVE  (IF n \notin Linked THEN next[n]
                ELSE IF at(n) = m THEN NULL ELSE t[at(n) + 1]) \in Pointers
    <3>1. next[n] \in Pointers
      BY DEF ListInv, ListTypes
    <3>2. n \in Linked /\ at(n) # m => at(n) + 1 \in 1..m
      BY <1>2, <1>4
    <3> QED
      BY <1>6, <1>7, <3>1, <3>2
  <2>2. ASSUME NEW n \in Nodes
        PROVE  (IF n \notin Linked THEN prev[n]
                ELSE IF at(n) = 1 THEN NULL ELSE t[at(n) - 1]) \in Pointers
    <3>1. prev[n] \in Pointers
      BY DEF ListInv, ListTypes
    <3>2. n \in Linked /\ at(n) # 1 => at(n) - 1 \in 1..m
      BY <1>2, <1>4
    <3> QED
      BY <1>6, <1>7, <3>1, <3>2
  <2>3. next' \in [Nodes -> Pointers]
    BY <1>5, <2>1
  <2>4. prev' \in [Nodes -> Pointers]
    BY <1>5, <2>2
  <2>5. (list.size + m) % SIZE_WRAP \in 0..(SIZE_WRAP - 1)
    <3>1. PICK x \in Nat : x = list.size /\ SIZE_WRAP \in Nat /\ SIZE_WRAP > 0
      BY ListIs
    <3> QED
      BY <3>1
  <2>6. list' \in [head : Pointers, tail : Pointers, size : 0..(SIZE_WRAP - 1)]
    <3>1. t[1] \in Pointers /\ t[m] \in Pointers
      BY <1>2, <1>6
    <3> QED
      BY <1>5, <2>5, <3>1
  <2>7. counted' \in BOOLEAN /\ fault' \in BOOLEAN
    BY DEF ListInv, ListTypes
  <2> QED
    BY <2>3, <2>4, <2>6, <2>7 DEF ListTypes
<1>9. list'.head = At(t, 1) /\ list'.tail = At(t, Len(t))
  BY <1>2, <1>5 DEF At
<1>10. ASSUME NEW i \in 1..m PROVE next'[t[i]] = At(t, i + 1) /\ prev'[t[i]] = At(t, i - 1)
  <2>1. at(t[i]) = i /\ t[i] \in Nodes /\ t[i] \in Linked
    BY <1>3, <1>6
  <2>2. next'[t[i]] = IF i = m THEN NULL ELSE t[i + 1]
    BY <1>5, <2>1
  <2>3. prev'[t[i]] = IF i = 1 THEN NULL ELSE t[i - 1]
    BY <1>5, <2>1
  <2> QED
    BY <1>2, <2>2, <2>3 DEF At
<1> QED
  BY <1>1, <1>2, <1>8, <1>9, <1>10 DEF Becomes, Thread

\* A sort that does not fall threads the nodes in another order; a list that
\* has the size it is believed to have is then sorted.
LEMMA SortStep ==
    ASSUME ListInv, list.size >= 2, ~Falls[<<Forward, list.size>>],
           Pushed(Sorted[<<Forward, list.size>>]), counted' = FALSE, UNCHANGED fault
    PROVE  \E t \in Threads : /\ Becomes(t) /\ Len(t) = Len(Forward)
                              /\ Nodesof(t) = Nodesof(Forward)
                              /\ (list.size = Len(Forward) => Rising(t))
<1>1. PICK s : s = Forward
  OBVIOUS
<1>2. s \in Threads /\ s \in Seq(Nodes) /\ Linked = Nodesof(s)
  BY <1>1, ListIs
<1>3. PICK k \in Nat : k = list.size /\ k >= 2
  BY ListIs
<1>4. PICK t : t = Sorted[<<s, k>>]
  OBVIOUS
<1>5. Sorts(s, k, t)
  BY <1>2, <1>4, SortedRight
<1>6. t \in Seq(Nodes) /\ Len(t) = Len(s) /\ Nodesof(t) = Nodesof(s) /\ Distinct(t)
  BY <1>2, <1>5 DEF Sorts, Threads
<1>7. s # <<>>
  BY <1>1, <1>3, NothingFalls
<1>8. t # <<>>
  BY <1>2, <1>6, <1>7
<1>9. Becomes(t)
  BY <1>1, <1>2, <1>3, <1>4, <1>6, <1>8, PushesAll
<1>10. t \in Threads
  BY <1>6 DEF Threads
<1>11. k = Len(s) => Rising(t)
  BY <1>5 DEF Sorts
<1> QED
  BY <1>1, <1>3, <1>6, <1>9, <1>10, <1>11

(***************************************************************************)
(* The sequence that the links implement.                                  *)
(***************************************************************************)
\* What is left to show when an operation has made the thread s.
LEMMA InvNext ==
    ASSUME NEW s, Becomes(s), counted' => list'.size = Len(s) /\ ~fault'
    PROVE  ListInv' /\ Forward' = s
<1>1. Forward' = s
  BY BecomesIs
<1>2. SizeExact'
  BY <1>1 DEF SizeExact
<1> QED
  BY <1>1, <1>2 DEF ListInv, Becomes

\* A node more is counted without a wrap.
LEMMA CountUp ==
    ASSUME ListInv, ~fault, NEW t \in Threads, Len(t) = Len(Forward) + 1,
           list'.size = (list.size + 1) % SIZE_WRAP, UNCHANGED <<counted, fault>>
    PROVE  counted' => list'.size = Len(t) /\ ~fault'
<1> SUFFICES ASSUME counted PROVE list'.size = Len(t)
  OBVIOUS
<1>1. PICK m \in Nat : m = Len(Forward) /\ list.size = m /\ m + 1 = Len(t)
  BY ListIs DEF ListInv, SizeExact
<1>2. m + 1 < SIZE_WRAP /\ SIZE_WRAP \in Nat
  BY <1>1, ThreadShort, WrapAssumption
<1>3. (m + 1) % SIZE_WRAP = m + 1
  BY <1>2
<1> QED
  BY <1>1, <1>3

\* Insertion at the front.
LEMMA InsertedFront ==
    ASSUME NEW s \in Seq(Nodes), NEW n \in Nodes
    PROVE  InsertAt(s, 1, n) = <<n>> \o s
<1>1. PICK m \in Nat : m = Len(s)
  OBVIOUS
<1>2. PICK t : t = InsertAt(s, 1, n)
  OBVIOUS
<1>3. /\ t \in Seq(Nodes) /\ Len(t) = m + 1
      /\ \A i \in 1..(m + 1) : t[i] = IF i = 1 THEN n ELSE s[i - 1]
  <2>1. PICK k \in 1..(Len(s) + 1) : k = 1
    BY <1>1
  <2>2. /\ InsertAt(s, k, n) \in Seq(Nodes) /\ Len(InsertAt(s, k, n)) = Len(s) + 1
        /\ \A i \in 1..(Len(s) + 1) :
              InsertAt(s, k, n)[i] = IF i < k THEN s[i] ELSE IF i = k THEN n ELSE s[i - 1]
    BY InsertedIs
  <2> QED
    BY <1>1, <1>2, <2>1, <2>2
<1>4. PICK u : u = <<n>> \o s
  OBVIOUS
<1>5. u \in Seq(Nodes) /\ Len(u) = m + 1 /\ u[1] = n /\ \A i \in 2..(m + 1) : u[i] = s[i - 1]
  BY <1>1, <1>4, InFront
<1>6. \A i \in 1..(m + 1) : t[i] = u[i]
  BY <1>3, <1>5
<1>7. t = u
  BY <1>3, <1>5, <1>6
<1> QED
  BY <1>2, <1>4, <1>7

\* Insertion at the end.
LEMMA InsertedEnd ==
    ASSUME NEW s \in Seq(Nodes), NEW n \in Nodes
    PROVE  InsertAt(s, Len(s) + 1, n) = Append(s, n)
<1>1. PICK m \in Nat : m = Len(s)
  OBVIOUS
<1>2. PICK t : t = InsertAt(s, Len(s) + 1, n)
  OBVIOUS
<1>3. /\ t \in Seq(Nodes) /\ Len(t) = m + 1
      /\ \A i \in 1..(m + 1) : t[i] = IF i < m + 1 THEN s[i] ELSE IF i = m + 1 THEN n ELSE s[i - 1]
  <2>1. Len(s) + 1 \in 1..(Len(s) + 1)
    OBVIOUS
  <2>2. PICK k \in 1..(Len(s) + 1) : k = Len(s) + 1 /\ k = m + 1
    BY <1>1, <2>1
  <2>3. /\ InsertAt(s, k, n) \in Seq(Nodes) /\ Len(InsertAt(s, k, n)) = Len(s) + 1
        /\ \A i \in 1..(Len(s) + 1) :
              InsertAt(s, k, n)[i] = IF i < k THEN s[i] ELSE IF i = k THEN n ELSE s[i - 1]
    BY InsertedIs
  <2> QED
    BY <1>1, <1>2, <2>2, <2>3
<1>4. PICK u : u = Append(s, n)
  OBVIOUS
<1>5. u \in Seq(Nodes) /\ Len(u) = m + 1 /\ u[m + 1] = n /\ \A i \in 1..m : u[i] = s[i]
  BY <1>1, <1>4, Appended
<1>6. \A i \in 1..(m + 1) : t[i] = u[i]
  BY <1>3, <1>5
<1>7. t = u
  BY <1>3, <1>5, <1>6
<1> QED
  BY <1>2, <1>4, <1>7

\* A node that is not linked is no member of the sequence.
LEMMA Stranger ==
    ASSUME ListInv, NEW n \in Nodes, n \notin Linked
    PROVE  n \notin Sequence!Members
<1>1. PICK s : s = Forward
  OBVIOUS
<1>2. Linked = Nodesof(s)
  BY <1>1, ListIs
<1> QED
  BY <1>1, <1>2 DEF Sequence!Members, Nodesof

\* fpx_list_push_front is PushFront.
LEMMA PushFrontStep ==
    ASSUME ListInv, ~fault, NEW n \in Nodes, fpx_list_push_front(n)
    PROVE  ListInv' /\ Sequence!PushFront(n)
<1>1. PICK s : s = Forward
  OBVIOUS
<1>2. PICK m \in Nat : m = Len(s) /\ s \in Seq(Nodes)
  BY <1>1, ListIs
<1>3. PICK t : t = InsertAt(s, 1, n)
  OBVIOUS
<1>4. t = <<n>> \o s
  BY <1>2, <1>3, InsertedFront
<1>5. Len(t) = m + 1
  BY <1>2, <1>4, InFront
<1>6. Becomes(t)
  BY <1>1, <1>3, PushFront
<1>7. t \in Threads
  BY <1>6 DEF Becomes, Thread
<1>8. list'.size = (list.size + 1) % SIZE_WRAP /\ UNCHANGED <<counted, fault>>
  BY DEF fpx_list_push_front
<1>9. counted' => list'.size = Len(t) /\ ~fault'
  BY <1>1, <1>2, <1>5, <1>7, <1>8, CountUp
<1>10. ListInv' /\ Forward' = t
  BY <1>6, <1>9, InvNext
<1>11. n \notin Sequence!Members
  BY Stranger DEF fpx_list_push_front
<1> QED
  BY <1>1, <1>4, <1>8, <1>10, <1>11 DEF Sequence!PushFront

\* fpx_list_push_back is PushBack.
LEMMA PushBackStep ==
    ASSUME ListInv, ~fault, NEW n \in Nodes, fpx_list_push_back(n)
    PROVE  ListInv' /\ Sequence!PushBack(n)
<1>1. PICK s : s = Forward
  OBVIOUS
<1>2. PICK m \in Nat : m = Len(s) /\ s \in Seq(Nodes)
  BY <1>1, ListIs
<1>3. PICK t : t = InsertAt(s, m + 1, n)
  OBVIOUS
<1>4. t = Append(s, n)
  BY <1>2, <1>3, InsertedEnd
<1>5. Len(t) = m + 1
  BY <1>2, <1>4, Appended
<1>6. Becomes(t)
  BY <1>1, <1>2, <1>3, PushBack
<1>7. t \in Threads
  BY <1>6 DEF Becomes, Thread
<1>8. list'.size = (list.size + 1) % SIZE_WRAP /\ UNCHANGED <<counted, fault>>
  BY DEF fpx_list_push_back
<1>9. counted' => list'.size = Len(t) /\ ~fault'
  BY <1>1, <1>2, <1>5, <1>7, <1>8, CountUp
<1>10. ListInv' /\ Forward' = t
  BY <1>6, <1>9, InvNext
<1>11. n \notin Sequence!Members
  BY Stranger DEF fpx_list_push_back
<1> QED
  BY <1>1, <1>4, <1>8, <1>10, <1>11 DEF Sequence!PushBack

\* fpx_list_insert_before is InsertBefore.
LEMMA InsertBeforeStep ==
    ASSUME ListInv, ~fault, NEW n \in Nodes, NEW b \in Nodes, fpx_list_insert_before(b, n)
    PROVE  ListInv' /\ Sequence!InsertBefore(b, n)
<1>1. PICK s : s = Forward
  OBVIOUS
<1>2. PICK k \in 1..Len(s) : s[k] = b /\ Becomes(InsertAt(s, k, n))
  BY <1>1, InsertBefore
<1>3. counted' = FALSE /\ fault' = fault
  BY DEF fpx_list_insert_before
<1>4. ListInv' /\ Forward' = InsertAt(s, k, n)
  BY <1>2, <1>3, InvNext
<1>5. n \notin Sequence!Members
  BY Stranger DEF fpx_list_insert_before
<1>6. Sequence!Insert(k, n)
  BY <1>1, <1>3, <1>4, <1>5 DEF Sequence!Insert, Sequence!InsertAt, InsertAt
<1> QED
  BY <1>1, <1>2, <1>4, <1>6 DEF Sequence!InsertBefore

\* fpx_list_insert_after is InsertAfter.
LEMMA InsertAfterStep ==
    ASSUME ListInv, ~fault, NEW n \in Nodes, NEW a \in Nodes, fpx_list_insert_after(a, n)
    PROVE  ListInv' /\ Sequence!InsertAfter(a, n)
<1>1. PICK s : s = Forward
  OBVIOUS
<1>2. PICK k \in 1..Len(s) : s[k] = a /\ Becomes(InsertAt(s, k + 1, n))
  BY <1>1, InsertAfter
<1>3. counted' = FALSE /\ fault' = fault
  BY DEF fpx_list_insert_after
<1>4. ListInv' /\ Forward' = InsertAt(s, k + 1, n)
  BY <1>2, <1>3, InvNext
<1>5. n \notin Sequence!Members
  BY Stranger DEF fpx_list_insert_after
<1>6. Sequence!Insert(k + 1, n)
  BY <1>1, <1>3, <1>4, <1>5 DEF Sequence!Insert, Sequence!InsertAt, InsertAt
<1> QED
  BY <1>1, <1>2, <1>4, <1>6 DEF Sequence!InsertAfter

\* Unlinking the node at place k of the list is Drop(k).
LEMMA DropStep ==
    ASSUME ListInv, ~fault, NEW k \in 1..Len(Forward), Unlink(Forward[k])
    PROVE  ListInv' /\ Sequence!Drop(k)
<1>1. PICK s : s = Forward
  OBVIOUS
<1>2. PICK m \in Nat : m = Len(s) /\ s \in Seq(Nodes) /\ Distinct(s) /\ k \in 1..m
  BY <1>1, ListIs DEF Threads
<1>3. Forward[k] \in Linked
  BY ListIs DEF Nodesof
<1>4. PICK j \in 1..m : s[j] = s[k] /\ Becomes(RemoveAt(s, j))
  BY <1>1, <1>2, <1>3, Unlinks
<1>5. j = k
  BY <1>2, <1>4 DEF Distinct
<1>6. PICK t : t = RemoveAt(s, k)
  OBVIOUS
<1>7. Len(t) = m - 1
  BY <1>2, <1>6, RemovedIs
<1>8. counted' => list'.size = Len(t) /\ ~fault'
  <2> SUFFICES ASSUME counted' PROVE list'.size = Len(t) /\ ~fault'
    OBVIOUS
  <2>1. counted /\ ~fault' /\ list'.size = (list.size - 1) % SIZE_WRAP
    BY DEF Unlink, Decremented
  <2>2. list.size = m
    BY <1>1, <1>2, <2>1 DEF ListInv, SizeExact
  <2>3. m < SIZE_WRAP /\ SIZE_WRAP \in Nat /\ m >= 1
    BY <1>2, <2>2, ListIs
  <2>4. (m - 1) % SIZE_WRAP = m - 1
    BY <2>3
  <2> QED
    BY <1>7, <2>1, <2>2, <2>4
<1>9. ListInv' /\ Forward' = t
  BY <1>4, <1>5, <1>6, <1>8, InvNext
<1>10. counted' = counted /\ fault' = fault
  BY DEF Unlink
<1> QED
  BY <1>1, <1>6, <1>9, <1>10 DEF Sequence!Drop, Sequence!RemoveAt, RemoveAt

\* fpx_list_remove is RemoveNode.
LEMMA RemoveStep ==
    ASSUME ListInv, ~fault, NEW n \in Nodes, fpx_list_remove(n)
    PROVE  ListInv' /\ Sequence!RemoveNode(n)
<1>1. PICK k \in 1..Len(Forward) : Forward[k] = n
  BY ListIs DEF fpx_list_remove, Nodesof
<1>2. Unlink(Forward[k])
  BY <1>1 DEF fpx_list_remove
<1>3. ListInv' /\ Sequence!Drop(k)
  BY <1>2, DropStep
<1> QED
  BY <1>1, <1>3 DEF Sequence!RemoveNode

\* fpx_list_remove_first is RemoveFirstOf.
LEMMA RemoveFirstStep ==
    ASSUME ListInv, ~fault, NEW x, fpx_list_remove_first(x)
    PROVE  ListInv' /\ Sequence!RemoveFirstOf(x)
<1>1. Forward \in Threads /\ FirstIn(Forward, x) # NULL
  BY ListIs DEF fpx_list_remove_first
<1>2. PICK k \in 1..Len(Forward) :
         /\ FirstIn(Forward, x) = Forward[k] /\ Key[Forward[k]] = x
         /\ \A j \in 1..Len(Forward) : Key[Forward[j]] = x => k <= j
  BY <1>1, Finds
<1>3. Unlink(Forward[k])
  BY <1>2 DEF fpx_list_remove_first
<1>4. ListInv' /\ Sequence!Drop(k)
  BY <1>3, DropStep
<1>5. k \in Sequence!Places(x) /\ \A j \in Sequence!Places(x) : k <= j
  BY <1>2 DEF Sequence!Places
<1> QED
  BY <1>4, <1>5 DEF Sequence!RemoveFirstOf

\* fpx_list_remove_last is RemoveLastOf: the first from the tail.
LEMMA RemoveLastStep ==
    ASSUME ListInv, ~fault, NEW x, fpx_list_remove_last(x)
    PROVE  ListInv' /\ Sequence!RemoveLastOf(x)
<1>1. PICK s : s = Forward
  OBVIOUS
<1>2. PICK m \in Nat : m = Len(s) /\ s \in Threads
  BY <1>1, ListIs
<1>3. PICK r \in Threads : r = Backward /\ r = Backwards(s)
  BY <1>1, BackwardIs
<1>4. Len(r) = m /\ \A i \in 1..m : m + 1 - i \in 1..m /\ r[i] = s[m + 1 - i]
  <2>1. /\ Len(Backwards(s)) = Len(s)
        /\ \A i \in 1..Len(s) : Len(s) + 1 - i \in 1..Len(s) /\ Backwards(s)[i] = s[Len(s) + 1 - i]
    BY <1>2, BackwardsIs
  <2> QED
    BY <1>2, <1>3, <2>1
<1>5. PICK i \in 1..Len(r) :
         /\ FirstIn(r, x) = r[i] /\ Key[r[i]] = x
         /\ \A j \in 1..Len(r) : Key[r[j]] = x => i <= j
  <2>1. FirstIn(r, x) # NULL
    BY <1>3 DEF fpx_list_remove_last
  <2> QED
    BY <2>1, Finds
<1>6. PICK k \in 1..m : k = m + 1 - i /\ r[i] = s[k]
  BY <1>4, <1>5
<1>7. Unlink(s[k])
  BY <1>3, <1>5, <1>6 DEF fpx_list_remove_last
<1>8. ListInv' /\ Sequence!Drop(k)
  <2>1. k \in 1..Len(Forward) /\ Unlink(Forward[k])
    BY <1>1, <1>2, <1>6, <1>7
  <2> QED
    BY <2>1, DropStep
<1>9. ASSUME NEW j \in 1..m, Key[s[j]] = x PROVE j <= k
  <2>1. PICK y \in 1..m : y = m + 1 - j
    OBVIOUS
  <2>2. r[y] = s[j]
    <3>1. r[y] = s[m + 1 - y] /\ m + 1 - y = j
      BY <1>4, <2>1
    <3> QED
      BY <3>1
  <2>3. i <= y
    BY <1>4, <1>5, <1>9, <2>2
  <2> QED
    BY <1>4, <1>6, <2>1, <2>3
<1>10. k \in Sequence!Places(x) /\ \A j \in Sequence!Places(x) : j <= k
  BY <1>1, <1>2, <1>5, <1>6, <1>9 DEF Sequence!Places
<1> QED
  BY <1>8, <1>10 DEF Sequence!RemoveLastOf

\* fpx_list_clear is Clear.
LEMMA ClearStep ==
    ASSUME ListInv, ~fault, fpx_list_clear
    PROVE  ListInv' /\ Sequence!Clear
<1>1. ListTypes'
  <2>1. NULL \in Pointers /\ 0 \in 0..(SIZE_WRAP - 1)
    BY ListIs DEF Pointers
  <2>2. list' \in [head : Pointers, tail : Pointers, size : 0..(SIZE_WRAP - 1)]
    BY <2>1 DEF fpx_list_clear, Empty
  <2> QED
    BY <2>2 DEF fpx_list_clear, ListInv, ListTypes
<1>2. <<>> \in Threads /\ Len(<<>>) = 0
  BY DEF Threads, Distinct
<1>3. Thread(list', next', prev', <<>>)
  <2>1. list'.head = NULL /\ list'.tail = NULL
    BY DEF fpx_list_clear, Empty
  <2>2. At(<<>>, 1) = NULL /\ At(<<>>, 0) = NULL
    BY <1>2 DEF At
  <2> QED
    BY <1>2, <2>1, <2>2 DEF Thread
<1>4. list'.size = 0 /\ ~fault' /\ fault' = fault /\ counted' = TRUE
  BY DEF fpx_list_clear, Empty
<1>5. ListInv' /\ Forward' = <<>>
  BY <1>1, <1>2, <1>3, <1>4, InvNext DEF Becomes
<1> QED
  BY <1>4, <1>5 DEF Sequence!Clear

\* fpx_list_mergesort is Sort.
LEMMA MergesortStep ==
    ASSUME ListInv, ~fault, fpx_list_mergesort
    PROVE  ListInv' /\ Sequence!Sort
<1> DEFINE Kept == ListInv' /\ Sequence!Sort
<1> SUFFICES Kept
  OBVIOUS
<1>1. PICK s : s = Forward
  OBVIOUS
<1>2. PICK m \in Nat : m = Len(s) /\ s \in Seq(Nodes) /\ s \in Threads
  BY <1>1, ListIs
<1>3. CASE list.size < 2 /\ UNCHANGED vars
  <2>1. /\ list' = list /\ next' = next /\ prev' = prev
        /\ counted' = counted /\ fault' = fault /\ counted \in BOOLEAN
    BY <1>3 DEF vars, ListInv, ListTypes
  <2>2. Forward' = s
    BY <1>1, <2>1 DEF Forward
  <2>3. ListInv'
    BY <1>1, <2>1, <2>2 DEF ListInv, ListTypes, SizeExact
  <2>4. s \in Sequence!Arrangements
    <3>1. Sequence!Members = Nodesof(s)
      BY <1>1 DEF Sequence!Members, Nodesof
    <3>2. s \in [1..m -> Nodesof(s)]
      BY <1>2 DEF Nodesof
    <3>3. \A i, j \in 1..m : i # j => s[i] # s[j]
      BY <1>2 DEF Threads, Distinct
    <3> QED
      BY <1>1, <1>2, <3>1, <3>2, <3>3 DEF Sequence!Arrangements
  <2>5. counted => m < 2
    BY <1>1, <1>2, <1>3 DEF ListInv, SizeExact
  <2>6. counted => Sequence!Ordered(s)
    BY <1>2, <2>5 DEF Sequence!Ordered
  <2>7. counted' = (counted /\ Len(Forward) < 2)
    BY <1>1, <1>2, <2>1, <2>5
  <2>8. Sequence!Sort
    BY <2>1, <2>2, <2>4, <2>6, <2>7 DEF Sequence!Sort
  <2> QED
    BY <2>3, <2>8
<1>4. CASE /\ list.size >= 2 /\ ~Falls[<<Forward, list.size>>]
           /\ Pushed(Sorted[<<Forward, list.size>>]) /\ counted' = FALSE /\ UNCHANGED fault
  <2>1. PICK t \in Threads : /\ Becomes(t) /\ Len(t) = m /\ Nodesof(t) = Nodesof(s)
                             /\ (list.size = m => Rising(t))
    BY <1>1, <1>2, <1>4, SortStep
  <2>2. ListInv' /\ Forward' = t
    BY <1>4, <2>1, InvNext
  <2>3. t \in Seq(Nodes) /\ \A i, j \in 1..m : t[i] = t[j] => i = j
    BY <2>1 DEF Threads, Distinct
  <2>4. Forward' \in Sequence!Arrangements
    <3>1. Sequence!Members = Nodesof(t)
      BY <1>1, <2>1 DEF Sequence!Members, Nodesof
    <3>2. t \in [1..m -> Nodesof(t)]
      BY <2>1, <2>3 DEF Nodesof
    <3>3. \A i, j \in 1..m : i # j => t[i] # t[j]
      BY <2>3
    <3> QED
      BY <1>1, <1>2, <2>2, <3>1, <3>2, <3>3 DEF Sequence!Arrangements
  <2>5. counted => list.size = m
    BY <1>1, <1>2 DEF ListInv, SizeExact
  <2>6. counted => Sequence!Ordered(Forward')
    <3> SUFFICES ASSUME counted, NEW i \in 1..(m - 1) PROVE Key[t[i]] <= Key[t[i + 1]]
      BY <2>1, <2>2 DEF Sequence!Ordered
    <3>1. i \in 1..m /\ i + 1 \in 1..m /\ i <= i + 1
      BY <1>2
    <3> QED
      BY <2>1, <2>5, <3>1 DEF Rising
  <2>7. counted' = (counted /\ Len(Forward) < 2)
    <3>1. ~(counted /\ Len(Forward) < 2)
      BY <1>1, <1>2, <1>4, <2>5
    <3> QED
      BY <1>4, <3>1
  <2>8. Sequence!Sort
    BY <1>4, <2>4, <2>6, <2>7 DEF Sequence!Sort
  <2> QED
    BY <2>2, <2>8
<1>5. CASE /\ Falls[<<Forward, list.size>>] /\ fault' = TRUE
           /\ UNCHANGED <<list, next, prev, counted>>
  <2>1. ~counted
    <3>1. counted => list.size = Len(s)
      BY <1>1 DEF ListInv, SizeExact
    <3>2. ~Falls[<<s, Len(s)>>]
      BY <1>2, NeverFalls
    <3> QED
      BY <1>1, <1>5, <3>1, <3>2
  <2>2. Forward' = Forward
    BY <1>5 DEF Forward
  <2>3. ListInv'
    BY <1>5, <2>1, <2>2 DEF ListInv, ListTypes, SizeExact
  <2>4. Sequence!Sort
    BY <1>5, <2>1, <2>2 DEF Sequence!Sort
  <2> QED
    BY <2>3, <2>4
<1> QED
  BY <1>3, <1>4, <1>5 DEF fpx_list_mergesort

\* Every operation on a list that is whole does what it promises.
LEMMA EachRight ==
    ASSUME ListInv, ~fault
    PROVE  AsPromised
<1>1. ASSUME NEW n \in Nodes
      PROVE  /\ fpx_list_push_front(n) => Sequence!PushFront(n)
             /\ fpx_list_push_back(n) => Sequence!PushBack(n)
             /\ fpx_list_remove(n) => Sequence!RemoveNode(n)
  BY PushFrontStep, PushBackStep, RemoveStep
<1>2. ASSUME NEW n \in Nodes, NEW m \in Nodes
      PROVE  /\ fpx_list_insert_before(m, n) => Sequence!InsertBefore(m, n)
             /\ fpx_list_insert_after(m, n) => Sequence!InsertAfter(m, n)
  BY InsertBeforeStep, InsertAfterStep
<1>3. ASSUME NEW k
      PROVE  /\ fpx_list_remove_first(k) => Sequence!RemoveFirstOf(k)
             /\ fpx_list_remove_last(k) => Sequence!RemoveLastOf(k)
  BY RemoveFirstStep, RemoveLastStep
<1>4. fpx_list_clear => Sequence!Clear
  BY ClearStep
<1>5. fpx_list_mergesort => Sequence!Sort
  BY MergesortStep
<1>6. \A n \in Linked : n \in Nodes
  BY ListIs DEF Nodesof
<1> QED
  BY <1>1, <1>2, <1>3, <1>4, <1>5, <1>6, Zenon DEF AsPromised

\* Every step keeps the invariant.
LEMMA ListStep ==
    ASSUME ListInv, [Next]_vars
    PROVE  ListInv'
<1> DEFINE Kept == ListInv'
<1> SUFFICES Kept
  OBVIOUS
<1>1. CASE UNCHANGED vars
  <2>1. /\ list' = list /\ next' = next /\ prev' = prev
        /\ counted' = counted /\ fault' = fault
    BY <1>1 DEF vars
  <2>2. Forward' = Forward
    BY <2>1 DEF Forward
  <2> QED
    BY <2>1, <2>2 DEF ListInv, ListTypes, SizeExact
<1>2. ASSUME NEW n \in Nodes, ~fault,
             fpx_list_push_front(n) \/ fpx_list_push_back(n) \/ fpx_list_remove(n)
      PROVE  Kept
  BY <1>2, PushFrontStep, PushBackStep, RemoveStep
<1>3. ASSUME NEW n \in Nodes, NEW m \in Nodes, ~fault,
             fpx_list_insert_before(m, n) \/ fpx_list_insert_after(m, n)
      PROVE  Kept
  BY <1>3, InsertBeforeStep, InsertAfterStep
<1>4. ASSUME NEW k, ~fault, fpx_list_remove_first(k) \/ fpx_list_remove_last(k) PROVE Kept
  BY <1>4, RemoveFirstStep, RemoveLastStep
<1>5. ASSUME ~fault, fpx_list_clear \/ fpx_list_mergesort PROVE Kept
  BY <1>5, ClearStep, MergesortStep
<1> HIDE DEF Kept
<1>6. CASE Next
  <2>1. ~fault
    BY <1>6 DEF Next
  <2> QED
    BY <1>2, <1>3, <1>4, <1>5, <1>6, <2>1, Zenon DEF Next
<1> QED
  BY <1>1, <1>6

\* Every step is a step of the sequence.
LEMMA SequenceStep ==
    ASSUME ListInv, Next
    PROVE  Sequence!Next
<1>1. ~fault
  BY DEF Next
<1>2. ASSUME NEW n \in Nodes,
             fpx_list_push_front(n) \/ fpx_list_push_back(n) \/ fpx_list_remove(n)
      PROVE  Sequence!PushFront(n) \/ Sequence!PushBack(n) \/ Sequence!RemoveNode(n)
  BY <1>1, <1>2, PushFrontStep, PushBackStep, RemoveStep
<1>3. ASSUME NEW n \in Nodes, NEW m \in Nodes,
             fpx_list_insert_before(m, n) \/ fpx_list_insert_after(m, n)
      PROVE  Sequence!InsertBefore(m, n) \/ Sequence!InsertAfter(m, n)
  BY <1>1, <1>3, InsertBeforeStep, InsertAfterStep
<1>4. ASSUME NEW k \in {Key[n] : n \in Nodes},
             fpx_list_remove_first(k) \/ fpx_list_remove_last(k)
      PROVE  Sequence!RemoveFirstOf(k) \/ Sequence!RemoveLastOf(k)
  BY <1>1, <1>4, RemoveFirstStep, RemoveLastStep
<1>5. ASSUME fpx_list_clear \/ fpx_list_mergesort PROVE Sequence!Clear \/ Sequence!Sort
  BY <1>1, <1>5, ClearStep, MergesortStep
<1> QED
  BY <1>1, <1>2, <1>3, <1>4, <1>5, Zenon DEF Next, Sequence!Next

\* The list starts out empty.
LEMMA ListStart == Init => ListInv /\ Sequence!Init
<1> SUFFICES ASSUME Init PROVE ListInv /\ Sequence!Init
  OBVIOUS
<1>1. <<>> \in Threads /\ Len(<<>>) = 0
  BY DEF Threads, Distinct
<1>2. Cardinality(Nodes) \in Nat /\ SIZE_WRAP \in Nat /\ SIZE_WRAP > 0
  <2>1. Cardinality(Nodes) \in Nat
    BY NodesAssumption, FS_CardinalityType
  <2> QED
    BY <2>1, WrapAssumption
<1>3. ListTypes
  <2>1. NULL \in Pointers /\ 0 \in 0..(SIZE_WRAP - 1)
    BY <1>2 DEF Pointers
  <2> QED
    BY <2>1 DEF Init, Empty, ListTypes
<1>4. Thread(list, next, prev, <<>>)
  <2>1. list.head = NULL /\ list.tail = NULL
    BY DEF Init, Empty
  <2>2. At(<<>>, 1) = NULL /\ At(<<>>, 0) = NULL
    BY <1>1 DEF At
  <2> QED
    BY <1>1, <2>1, <2>2 DEF Thread
<1>5. Forward = <<>>
  BY <1>4, ThreadIs DEF Forward
<1>6. SizeExact
  BY <1>1, <1>5 DEF SizeExact, Init, Empty
<1> QED
  BY <1>3, <1>4, <1>5, <1>6 DEF ListInv, Sequence!Init, Init

\* The invariant says that both walks agree.
LEMMA SameWays == ListInv => SameBothWays
<1> SUFFICES ASSUME ListInv PROVE SameBothWays
  OBVIOUS
<1>1. PICK s : s = Forward
  OBVIOUS
<1>2. PICK m \in Nat : m = Len(s)
  BY <1>1, ListIs
<1>3. s \in Threads /\ s \in Seq(Nodes) /\ Linked = Nodesof(s) /\ Distinct(s)
  BY <1>1, ListIs DEF Threads
<1>4. PICK r \in Threads : r = Backward /\ r = Backwards(s)
  BY <1>1, BackwardIs
<1>5. Len(r) = m /\ \A i \in 1..m : m + 1 - i \in 1..m /\ r[i] = s[m + 1 - i]
  <2>1. /\ Len(Backwards(s)) = Len(s)
        /\ \A i \in 1..Len(s) : Len(s) + 1 - i \in 1..Len(s) /\ Backwards(s)[i] = s[Len(s) + 1 - i]
    BY <1>3, BackwardsIs
  <2> QED
    BY <1>2, <1>4, <2>1
<1>6. ASSUME NEW i \in DOMAIN s PROVE r[m + 1 - i] = s[i]
  <2>1. i \in 1..m
    BY <1>2, <1>3
  <2>2. m + 1 - i \in 1..m /\ m + 1 - (m + 1 - i) = i
    BY <2>1
  <2> QED
    BY <1>5, <2>2
<1>7. Cardinality(Linked) = m
  <2>1. s \in [1..m -> Nodesof(s)] /\ DOMAIN s = 1..m
    BY <1>2, <1>3 DEF Nodesof
  <2>2. s \in Surjection(1..m, Nodesof(s))
    BY <1>2, <2>1 DEF Surjection, Nodesof
  <2>3. s \in Injection(1..m, Nodesof(s))
    <3>1. IsInjective(s)
      BY <1>2, <1>3, <2>1, Zenon DEF IsInjective, Distinct
    <3> QED
      BY <2>1, <3>1, Zenon DEF Injection
  <2>4. IsFiniteSet(1..m) /\ Cardinality(1..m) = m
    BY <1>2, <1>3, ThreadShort, FS_Interval
  <2>5. Cardinality(Nodesof(s)) = Cardinality(1..m)
    BY <2>2, <2>3, <2>4, FS_Surjection
  <2> QED
    BY <1>3, <2>4, <2>5
<1> QED
  BY <1>1, <1>2, <1>4, <1>5, <1>6, <1>7 DEF SameBothWays

\* Walking back from the tail always meets the nodes that walking from the
\* head meets, in the opposite order, each once.
THEOREM BothWays == Spec => []SameBothWays
<1>1. Init => ListInv
  BY ListStart
<1>2. ListInv /\ [Next]_vars => ListInv'
  BY ListStep
<1>3. ListInv => SameBothWays
  BY SameWays
<1> QED
  BY <1>1, <1>2, <1>3, PTL DEF Spec

\* Without insertions in the middle and sorts fpx_list_size is the number of
\* nodes, and a sort follows no null pointer.
THEOREM SizeIsExact == Spec => []SizeExact
<1>1. Init => ListInv
  BY ListStart
<1>2. ListInv /\ [Next]_vars => ListInv'
  BY ListStep
<1>3. ListInv => SizeExact
  BY DEF ListInv
<1> QED
  BY <1>1, <1>2, <1>3, PTL DEF Spec

\* Each operation of list.c does what its own name promises, for every set
\* of nodes and every keys, whatever was done before.
THEOREM EachOperation == Spec => OperationsRight
<1>1. Init => ListInv
  BY ListStart
<1>2. ListInv /\ [Next]_vars => ListInv'
  BY ListStep
<1>3. ListInv /\ [Next]_vars => [AsPromised]_vars
  <2> SUFFICES ASSUME ListInv, Next PROVE AsPromised
    OBVIOUS
  <2>1. ~fault
    BY DEF Next
  <2> QED
    BY <2>1, EachRight
<1> QED
  BY <1>1, <1>2, <1>3, PTL DEF Spec, OperationsRight

\* The links implement the sequence of NodeSequence: every step changes the
\* chain as one of its operations does, merge sort included.
THEOREM ListIsSequence == Spec => ImplementsSequence
<1>1. Init => ListInv /\ Sequence!Init
  BY ListStart
<1>2. ListInv /\ [Next]_vars => ListInv' /\ [Sequence!Next]_<<Forward, counted, fault>>
  <2> SUFFICES ASSUME ListInv, [Next]_vars
               PROVE  ListInv' /\ [Sequence!Next]_<<Forward, counted, fault>>
    OBVIOUS
  <2>1. ListInv'
    BY ListStep
  <2>2. CASE Next
    BY <2>1, <2>2, SequenceStep
  <2>3. CASE UNCHANGED vars
    <3>1. Forward' = Forward /\ counted' = counted /\ fault' = fault
      BY <2>3 DEF vars, Forward
    <3> QED
      BY <2>1, <3>1
  <2> QED
    BY <2>2, <2>3
<1> QED
  BY <1>1, <1>2, PTL DEF Spec, ImplementsSequence, Sequence!Spec, Sequence!vars

=============================================================================
