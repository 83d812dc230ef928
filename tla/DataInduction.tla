--------------------------- MODULE DataInduction ---------------------------
(***************************************************************************)
(* Induction over numbers, sequences and finite sets, stated for sets: a   *)
(* property is the set of the values that have it.  With it, what          *)
(* FlattenSeq makes of a sequence of sequences (the lists of directives of *)
(* Startup and the nodes a pool searches are built with it) and how a sum  *)
(* over a finite set changes with the set and the values (the sizes a pool *)
(* reports are such sums).                                                 *)
(***************************************************************************)
EXTENDS SequencesExt, FiniteSetTheorems, WellFoundedInduction, TLAPS

\* A set of numbers that is not empty has a least element.
LEMMA NatMin ==
    ASSUME NEW T \in SUBSET Nat, T # {}
    PROVE  \E n \in T : \A m \in T : n <= m
<1> DEFINE R == OpToRel(<, Nat)
<1>1. IsWellFoundedOn(R, Nat)
  BY NatLessThanWellFounded, Zenon
<1>2. \A x, y \in Nat : <<y, x>> \in R <=> y < x
  BY Zenon DEF OpToRel
<1> HIDE DEF R
<1>3. PICK x \in T : \A y \in T : ~(<<y, x>> \in R)
  BY <1>1, WFMin
<1>4. x \in Nat /\ \A y \in T : y \in Nat
  OBVIOUS
<1>5. \A y \in T : ~(y < x)
  BY <1>2, <1>3, <1>4, Zenon
<1>6. \A y \in T : x <= y
  BY <1>4, <1>5
<1> QED
  BY <1>6

\* Numbers with a bound have a greatest one.
LEMMA BoundedMax ==
    ASSUME NEW n \in Nat, NEW S \in SUBSET Nat, S # {}, \A j \in S : j <= n
    PROVE  \E k \in S : \A j \in S : j <= k
<1> DEFINE B == {b \in Nat : \A j \in S : j <= b}
<1>1. B \in SUBSET Nat /\ n \in B
  OBVIOUS
<1>2. PICK b \in B : \A c \in B : b <= c
  BY <1>1, NatMin
<1>3. b \in Nat /\ \A j \in S : j \in Nat /\ j <= b
  OBVIOUS
<1>4. b \in S
  <2> SUFFICES ASSUME b \notin S PROVE FALSE
    OBVIOUS
  <2>1. b # 0
    <3>1. PICK j \in S : TRUE
      OBVIOUS
    <3> QED
      BY <1>3, <3>1
  <2>2. \A j \in S : j <= b - 1
    BY <1>3
  <2>3. b - 1 \in B
    BY <1>3, <2>1, <2>2
  <2> QED
    BY <1>2, <1>3, <2>3
<1> QED
  BY <1>3, <1>4

\* A set that holds 0, and with every number the next one, holds them all.
LEMMA NatClosed ==
    ASSUME NEW T, 0 \in T, \A n \in Nat : n \in T => n + 1 \in T
    PROVE  \A n \in Nat : n \in T
<1> DEFINE U == {n \in Nat : n \notin T}
<1> SUFFICES ASSUME U # {} PROVE FALSE
  OBVIOUS
<1>1. U \in SUBSET Nat
  OBVIOUS
<1>2. PICK n \in U : \A m \in U : n <= m
  BY <1>1, NatMin
<1>3. n \in Nat /\ n \notin T /\ n # 0
  OBVIOUS
<1>4. n - 1 \in Nat /\ ~(n <= n - 1) /\ (n - 1) + 1 = n
  BY <1>3
<1>5. n - 1 \notin U
  BY <1>2, <1>4
<1>6. n - 1 \in T
  BY <1>4, <1>5
<1> QED
  BY <1>3, <1>4, <1>6

\* A set that holds the empty sequence, and with every sequence those that
\* are one longer, holds all sequences.
LEMMA SeqClosed ==
    ASSUME NEW S, NEW T, <<>> \in T,
           \A s \in Seq(S) : \A x \in S : s \in T => Append(s, x) \in T
    PROVE  \A s \in Seq(S) : s \in T
<1> DEFINE L == {n \in Nat : \A s \in Seq(S) : Len(s) = n => s \in T}
<1>1. 0 \in L
  OBVIOUS
<1>2. ASSUME NEW n \in Nat, n \in L PROVE n + 1 \in L
  <2> SUFFICES ASSUME NEW s \in Seq(S), Len(s) = n + 1 PROVE s \in T
    OBVIOUS
  <2> DEFINE f == [i \in 1..n |-> s[i]]
  <2>1. f \in Seq(S) /\ Len(f) = n /\ s[n + 1] \in S
    OBVIOUS
  <2>2. s = Append(f, s[n + 1])
    <3>1. Append(f, s[n + 1]) \in Seq(S) /\ Len(Append(f, s[n + 1])) = n + 1
      BY <2>1
    <3>2. \A i \in 1..(n + 1) : Append(f, s[n + 1])[i] = s[i]
      BY <2>1
    <3> QED
      BY <3>1, <3>2
  <2>3. f \in T
    BY <1>2, <2>1
  <2> QED
    BY <2>1, <2>2, <2>3
<1>3. \A n \in Nat : n \in L
  <2> HIDE DEF L
  <2> QED
    BY <1>1, <1>2, NatClosed
<1> QED
  BY <1>3

\* What Append makes of a sequence.
LEMMA Appended ==
    ASSUME NEW S, NEW s \in Seq(S), NEW x \in S
    PROVE  /\ Append(s, x) \in Seq(S) /\ Append(s, x) # <<>>
           /\ Len(s) \in Nat /\ Len(Append(s, x)) = Len(s) + 1
           /\ Append(s, x)[Len(s) + 1] = x
           /\ \A i \in 1..Len(s) : Append(s, x)[i] = s[i]
  OBVIOUS

\* B makes of a function the one whose values are the right sides of a
\* recursive definition: they use only arguments of lower rank.
DescendsFreely(D, V, rank, B) ==
    /\ rank \in [D -> Nat]
    /\ B \in [[D -> V] -> [D -> V]]
    /\ \A g, h \in [D -> V] : \A x \in D :
          (\A y \in D : rank[y] < rank[x] => g[y] = h[y]) => B[g][x] = B[h][x]

\* g solves the definition for the arguments of rank below m.
SolvedTo(D, rank, B, g, m) == \A x \in D : rank[x] < m => g[x] = B[g][x]

(* For every rank there is a solution up to it. *)
LEMMA SolutionsExist ==
    ASSUME NEW D, NEW V, NEW v \in V, NEW rank, NEW B, DescendsFreely(D, V, rank, B),
           NEW m \in Nat
    PROVE  \E g \in [D -> V] : SolvedTo(D, rank, B, g, m)
<1> USE DEF DescendsFreely, SolvedTo
<1> DEFINE T == {n \in Nat : \E g \in [D -> V] : SolvedTo(D, rank, B, g, n)}
<1>1. 0 \in T
  <2>1. [x \in D |-> v] \in [D -> V] /\ SolvedTo(D, rank, B, [x \in D |-> v], 0)
    OBVIOUS
  <2> QED
    BY <2>1
<1>2. ASSUME NEW n \in Nat, n \in T PROVE n + 1 \in T
  <2>1. PICK g \in [D -> V] : SolvedTo(D, rank, B, g, n)
    BY <1>2
  <2> DEFINE h == [x \in D |-> IF rank[x] < n THEN g[x] ELSE B[g][x]]
  <2>2. h \in [D -> V]
    OBVIOUS
  <2>3. \A y \in D : rank[y] < n => h[y] = g[y]
    OBVIOUS
  <2>4. \A x \in D : h[x] = B[g][x]
    BY <2>1
  <2>5. ASSUME NEW x \in D, rank[x] < n + 1 PROVE h[x] = B[h][x]
    <3>1. \A y \in D : rank[y] < rank[x] => g[y] = h[y]
      <4>1. rank[x] \in Nat /\ \A y \in D : rank[y] \in Nat
        OBVIOUS
      <4> QED
        BY <2>3, <2>5, <4>1
    <3> HIDE DEF h
    <3>2. B[g][x] = B[h][x]
      BY <2>2, <3>1
    <3> QED
      BY <2>4, <3>2
  <2> HIDE DEF h
  <2> QED
    BY <2>2, <2>5
<1>3. \A n \in Nat : n \in T
  <2> HIDE DEF T
  <2> QED
    BY <1>1, <1>2, NatClosed
<1> QED
  BY <1>3

(* Solutions agree as far as both go. *)
LEMMA SolutionsAgree ==
    ASSUME NEW D, NEW V, NEW rank, NEW B, DescendsFreely(D, V, rank, B),
           NEW m \in Nat, NEW n \in Nat, NEW g \in [D -> V], NEW h \in [D -> V],
           SolvedTo(D, rank, B, g, m), SolvedTo(D, rank, B, h, n)
    PROVE  \A x \in D : rank[x] < m /\ rank[x] < n => g[x] = h[x]
<1> USE DEF DescendsFreely, SolvedTo
<1> DEFINE T == {k \in Nat : k <= m /\ k <= n => \A x \in D : rank[x] < k => g[x] = h[x]}
<1>0. \A x \in D : rank[x] \in Nat
  OBVIOUS
<1>1. 0 \in T
  BY <1>0
<1>2. ASSUME NEW k \in Nat, k \in T PROVE k + 1 \in T
  <2> SUFFICES ASSUME k + 1 <= m, k + 1 <= n, NEW x \in D, rank[x] < k + 1 PROVE g[x] = h[x]
    OBVIOUS
  <2>1. \A y \in D : rank[y] < k => g[y] = h[y]
    BY <1>2
  <2>2. \A y \in D : rank[y] < rank[x] => g[y] = h[y]
    BY <1>0, <2>1
  <2>3. B[g][x] = B[h][x]
    BY <2>2
  <2>4. g[x] = B[g][x] /\ h[x] = B[h][x]
    BY <1>0
  <2> QED
    BY <2>3, <2>4
<1>3. \A k \in Nat : k \in T
  <2> HIDE DEF T
  <2> QED
    BY <1>1, <1>2, NatClosed
<1> SUFFICES ASSUME NEW x \in D, rank[x] < m, rank[x] < n PROVE g[x] = h[x]
  OBVIOUS
<1>4. rank[x] + 1 \in Nat /\ rank[x] + 1 <= m /\ rank[x] + 1 <= n /\ rank[x] < rank[x] + 1
  BY <1>0
<1> QED
  BY <1>3, <1>4

\* Such a definition has a solution: every value from a solution that goes
\* far enough.
LEMMA RecursionFree ==
    ASSUME NEW D, NEW V, NEW v \in V, NEW rank, NEW B, DescendsFreely(D, V, rank, B)
    PROVE  \E g \in [D -> V] : g = B[g]
<1> DEFINE G(m) == CHOOSE g \in [D -> V] : SolvedTo(D, rank, B, g, m)
           f == [x \in D |-> G(rank[x] + 1)[x]]
<1>1. ASSUME NEW m \in Nat PROVE G(m) \in [D -> V] /\ SolvedTo(D, rank, B, G(m), m)
  <2>1. \E g \in [D -> V] : SolvedTo(D, rank, B, g, m)
    BY SolutionsExist
  <2> QED
    BY <2>1
<1>2. \A x \in D : rank[x] \in Nat /\ rank[x] + 1 \in Nat
  BY DEF DescendsFreely
<1> HIDE DEF G
<1>3. f \in [D -> V]
  <2>1. ASSUME NEW x \in D PROVE G(rank[x] + 1)[x] \in V
    BY <1>1, <1>2
  <2> QED
    BY <2>1
<1>4. ASSUME NEW x \in D PROVE f[x] = B[f][x]
  <2>1. PICK g \in [D -> V] : g = G(rank[x] + 1)
    BY <1>1, <1>2
  <2>2. SolvedTo(D, rank, B, g, rank[x] + 1) /\ f[x] = g[x]
    BY <1>1, <1>2, <2>1
  <2>3. ASSUME NEW y \in D, rank[y] < rank[x] PROVE g[y] = f[y]
    <3>1. PICK h \in [D -> V] : h = G(rank[y] + 1)
      BY <1>1, <1>2
    <3>2. SolvedTo(D, rank, B, h, rank[y] + 1) /\ f[y] = h[y]
      BY <1>1, <1>2, <3>1
    <3>3. rank[y] < rank[x] + 1 /\ rank[y] < rank[y] + 1
      BY <1>2, <2>3
    <3>4. g[y] = h[y]
      BY <1>2, <2>2, <3>2, <3>3, SolutionsAgree
    <3> QED
      BY <3>2, <3>4
  <2>4. f[x] = B[g][x]
    BY <1>2, <2>2 DEF SolvedTo
  <2> HIDE DEF f
  <2>5. B[g][x] = B[f][x]
    BY <1>3, <2>3 DEF DescendsFreely
  <2> QED
    BY <2>4, <2>5
<1> HIDE DEF f
<1>5. B[f] \in [D -> V]
  BY <1>3 DEF DescendsFreely
<1>6. f = B[f]
  BY <1>3, <1>4, <1>5
<1> QED
  BY <1>3, <1>6

\* The same for ranks with a bound.
Descends(D, V, M, rank, B) ==
    /\ M \in Nat /\ rank \in [D -> Nat] /\ \A x \in D : rank[x] < M
    /\ B \in [[D -> V] -> [D -> V]]
    /\ \A g, h \in [D -> V] : \A x \in D :
          (\A y \in D : rank[y] < rank[x] => g[y] = h[y]) => B[g][x] = B[h][x]

\* It has a solution, too.
LEMMA Recursion ==
    ASSUME NEW D, NEW V, NEW v \in V, NEW M, NEW rank, NEW B, Descends(D, V, M, rank, B)
    PROVE  \E g \in [D -> V] : g = B[g]
<1>1. DescendsFreely(D, V, rank, B)
  BY DEF Descends, DescendsFreely
<1> QED
  BY <1>1, RecursionFree

(***************************************************************************)
(* FlattenSeq.                                                             *)
(***************************************************************************)
\* The parts that FlattenSeq(ss) puts together from the left.
Parts(ss, g) == g = [i \in 1..Len(ss) |-> IF i = 1 THEN ss[i] ELSE g[i - 1] \o ss[i]]

(* Every sequence of sequences has partial concatenations. *)
LEMMA PartsExist ==
    ASSUME NEW S, NEW ss \in Seq(S)
    PROVE  \E g : Parts(ss, g)
<1> DEFINE T == {s \in Seq(S) : \E g : Parts(s, g)}
<1>1. <<>> \in T
  <2>1. Parts(<<>>, [i \in 1..0 |-> 0])
    BY DEF Parts
  <2> QED
    BY <2>1
<1>2. ASSUME NEW s \in Seq(S), NEW x \in S, s \in T PROVE Append(s, x) \in T
  <2>1. PICK g : Parts(s, g)
    BY <1>2
  <2> DEFINE n == Len(s)
             t == Append(s, x)
             h == [i \in 1..(n + 1) |-> IF i = n + 1 THEN IF i = 1 THEN x ELSE g[i - 1] \o x
                                        ELSE g[i]]
  <2>2. t \in Seq(S) /\ Len(t) = n + 1 /\ n \in Nat /\ t[n + 1] = x
    OBVIOUS
  <2>3. \A i \in 1..n : t[i] = s[i]
    OBVIOUS
  <2>4. \A i \in 1..(n + 1) : h[i] = IF i = 1 THEN t[i] ELSE h[i - 1] \o t[i]
    <3> SUFFICES ASSUME NEW i \in 1..(n + 1)
                 PROVE  h[i] = IF i = 1 THEN t[i] ELSE h[i - 1] \o t[i]
      OBVIOUS
    <3>1. i # 1 => i - 1 \in 1..n /\ i - 1 # n + 1
      BY <2>2
    <3>2. i # 1 => h[i - 1] = g[i - 1]
      BY <3>1, <2>2
    <3>3. CASE i = n + 1
      BY <3>2, <3>3, <2>2
    <3>4. CASE i # n + 1
      <4>1. i \in 1..n
        BY <3>4, <2>2
      <4>2. g[i] = IF i = 1 THEN s[i] ELSE g[i - 1] \o s[i]
        BY <2>1, <4>1 DEF Parts
      <4> QED
        BY <3>2, <3>4, <4>1, <4>2, <2>3
    <3> QED
      BY <3>3, <3>4
  <2>5. Parts(t, h)
    <3>1. h = [i \in 1..(n + 1) |-> h[i]]
      OBVIOUS
    <3> HIDE DEF h
    <3>2. h = [i \in 1..(n + 1) |-> IF i = 1 THEN t[i] ELSE h[i - 1] \o t[i]]
      BY <2>4, <3>1, Zenon
    <3> QED
      BY <2>2, <3>2 DEF Parts
  <2> QED
    BY <2>2, <2>5
<1>3. \A s \in Seq(S) : s \in T
  <2> HIDE DEF T
  <2> QED
    BY <1>1, <1>2, SeqClosed
<1> QED
  BY <1>3

(* FlattenSeq is the last of them. *)
LEMMA PartsOf ==
    ASSUME NEW S, NEW ss \in Seq(S), ss # <<>>
    PROVE  \E g : Parts(ss, g) /\ FlattenSeq(ss) = g[Len(ss)]
<1>1. Len(ss) # 0
  OBVIOUS
<1> DEFINE f == CHOOSE g : g = [i \in 1..Len(ss) |-> IF i = 1 THEN ss[i] ELSE g[i - 1] \o ss[i]]
<1>2. f = [i \in 1..Len(ss) |-> IF i = 1 THEN ss[i] ELSE f[i - 1] \o ss[i]]
  BY PartsExist, Zenon DEF Parts
<1>3. FlattenSeq(ss) = f[Len(ss)]
  BY <1>1, Zenon DEF FlattenSeq
<1> QED
  BY <1>2, <1>3, Zenon DEF Parts

(* Flattening nothing gives nothing. *)
LEMMA FlattenEmpty == FlattenSeq(<<>>) = <<>>
  BY DEF FlattenSeq

\* One sequence more at the end: its elements come last.
LEMMA FlattenAppend ==
    ASSUME NEW S, NEW ss \in Seq(Seq(S)), NEW s \in Seq(S)
    PROVE  FlattenSeq(Append(ss, s)) = FlattenSeq(ss) \o s
<1> DEFINE n == Len(ss)
           t == Append(ss, s)
<1>1. n \in Nat /\ t \in Seq(Seq(S)) /\ Len(t) = n + 1 /\ t[n + 1] = s /\ t # <<>>
  BY Appended
<1>2. \A i \in 1..n : t[i] = ss[i]
  BY Appended
<1>3. PICK h : Parts(t, h) /\ FlattenSeq(t) = h[Len(t)]
  BY <1>1, PartsOf
<1>4. \A i \in 1..(n + 1) : h[i] = IF i = 1 THEN t[i] ELSE h[i - 1] \o t[i]
  BY <1>1, <1>3 DEF Parts
<1>5. CASE ss = <<>>
  <2>1. n = 0 /\ FlattenSeq(ss) = <<>>
    BY <1>5, FlattenEmpty
  <2>2. FlattenSeq(t) = s
    BY <1>1, <1>3, <1>4, <2>1
  <2> QED
    BY <2>1, <2>2
<1>6. CASE ss # <<>>
  <2>1. PICK g : Parts(ss, g) /\ FlattenSeq(ss) = g[n]
    BY <1>6, PartsOf
  <2>2. \A i \in 1..n : g[i] = IF i = 1 THEN ss[i] ELSE g[i - 1] \o ss[i]
    BY <2>1 DEF Parts
  <2> DEFINE T == {i \in Nat : i \in 1..n => h[i] = g[i]}
  <2>3. 0 \in T
    OBVIOUS
  <2>4. ASSUME NEW i \in Nat, i \in T PROVE i + 1 \in T
    <3> SUFFICES ASSUME i + 1 \in 1..n PROVE h[i + 1] = g[i + 1]
      OBVIOUS
    <3>1. /\ h[i + 1] = IF i + 1 = 1 THEN t[i + 1] ELSE h[(i + 1) - 1] \o t[i + 1]
          /\ g[i + 1] = IF i + 1 = 1 THEN ss[i + 1] ELSE g[(i + 1) - 1] \o ss[i + 1]
          /\ t[i + 1] = ss[i + 1]
      BY <1>1, <1>2, <1>4, <2>2
    <3>2. i # 0 => h[(i + 1) - 1] = g[(i + 1) - 1]
      BY <1>1, <2>4
    <3> QED
      BY <3>1, <3>2
  <2>5. \A i \in Nat : i \in T
    <3> HIDE DEF T
    <3> QED
      BY <2>3, <2>4, NatClosed
  <2>6. n # 0
    BY <1>6
  <2>a. n \in 1..n /\ n + 1 \in 1..(n + 1) /\ n + 1 # 1
    BY <1>1, <2>6
  <2>7. h[n] = g[n]
    BY <1>1, <2>5, <2>a
  <2>8. h[n + 1] = h[(n + 1) - 1] \o s
    BY <1>1, <1>4, <2>a
  <2>9. (n + 1) - 1 = n
    BY <1>1
  <2> QED
    BY <1>1, <1>3, <2>1, <2>7, <2>8, <2>9
<1> QED
  BY <1>5, <1>6

(* The elements of the flattened sequence are those of the parts. *)
LEMMA FlattenType ==
    ASSUME NEW S, NEW ss \in Seq(Seq(S))
    PROVE  FlattenSeq(ss) \in Seq(S)
<1> DEFINE T == {s \in Seq(Seq(S)) : FlattenSeq(s) \in Seq(S)}
<1>1. <<>> \in T
  <2>1. <<>> \in Seq(Seq(S)) /\ <<>> \in Seq(S)
    OBVIOUS
  <2> QED
    BY <2>1, FlattenEmpty
<1>2. ASSUME NEW s \in Seq(Seq(S)), NEW x \in Seq(S), s \in T PROVE Append(s, x) \in T
  <2>1. Append(s, x) \in Seq(Seq(S))
    BY Appended
  <2>2. FlattenSeq(s) \in Seq(S) /\ FlattenSeq(Append(s, x)) = FlattenSeq(s) \o x
    BY <1>2, FlattenAppend
  <2>3. FlattenSeq(s) \o x \in Seq(S)
    BY <2>2
  <2> QED
    BY <2>1, <2>2, <2>3
<1>3. \A s \in Seq(Seq(S)) : s \in T
  <2> HIDE DEF T
  <2> QED
    BY <1>1, <1>2, SeqClosed
<1> QED
  BY <1>3

\* Two sequences of sequences, one after the other.
LEMMA FlattenConcat ==
    ASSUME NEW S, NEW ss \in Seq(Seq(S)), NEW tt \in Seq(Seq(S))
    PROVE  FlattenSeq(ss \o tt) = FlattenSeq(ss) \o FlattenSeq(tt)
<1> DEFINE T == {s \in Seq(Seq(S)) : FlattenSeq(ss \o s) = FlattenSeq(ss) \o FlattenSeq(s)}
<1>1. <<>> \in T
  <2>1. FlattenSeq(ss) \in Seq(S)
    BY FlattenType
  <2> QED
    BY <2>1, FlattenEmpty
<1>2. ASSUME NEW s \in Seq(Seq(S)), NEW x \in Seq(S), s \in T PROVE Append(s, x) \in T
  <2>1. /\ ss \o s \in Seq(Seq(S)) /\ Append(s, x) \in Seq(Seq(S))
        /\ ss \o Append(s, x) = Append(ss \o s, x)
    OBVIOUS
  <2>2. FlattenSeq(ss \o Append(s, x)) = FlattenSeq(ss \o s) \o x
    BY <2>1, FlattenAppend
  <2>3. FlattenSeq(Append(s, x)) = FlattenSeq(s) \o x
    BY FlattenAppend
  <2>4. FlattenSeq(ss) \in Seq(S) /\ FlattenSeq(s) \in Seq(S)
    BY FlattenType
  <2>5. (FlattenSeq(ss) \o FlattenSeq(s)) \o x = FlattenSeq(ss) \o (FlattenSeq(s) \o x)
    BY <2>4, SMTT(30)
  <2> QED
    BY <1>2, <2>1, <2>2, <2>3, <2>5
<1>3. \A s \in Seq(Seq(S)) : s \in T
  <2> HIDE DEF T
  <2> QED
    BY <1>1, <1>2, SeqClosed
<1> QED
  BY <1>3

\* The length depends on the lengths of the parts alone.
LEMMA FlattenLength ==
    ASSUME NEW S, NEW R, NEW ss \in Seq(Seq(S)), NEW tt \in Seq(Seq(R)),
           Len(ss) = Len(tt), \A i \in 1..Len(ss) : Len(ss[i]) = Len(tt[i])
    PROVE  Len(FlattenSeq(ss)) = Len(FlattenSeq(tt))
<1> DEFINE Like(s, t) == Len(s) = Len(t) /\ \A i \in 1..Len(s) : Len(s[i]) = Len(t[i])
           T == {s \in Seq(Seq(S)) : \A t \in Seq(Seq(R)) :
                    Like(s, t) => Len(FlattenSeq(s)) = Len(FlattenSeq(t))}
<1>1. <<>> \in T
  <2> SUFFICES ASSUME NEW t \in Seq(Seq(R)), Like(<<>>, t)
               PROVE  Len(FlattenSeq(<<>>)) = Len(FlattenSeq(t))
    OBVIOUS
  <2>1. t = <<>>
    OBVIOUS
  <2> QED
    BY <2>1, FlattenEmpty
<1>2. ASSUME NEW s \in Seq(Seq(S)), NEW x \in Seq(S), s \in T PROVE Append(s, x) \in T
  <2> SUFFICES ASSUME NEW t \in Seq(Seq(R)), Like(Append(s, x), t)
               PROVE  Len(FlattenSeq(Append(s, x))) = Len(FlattenSeq(t))
    <3>1. Append(s, x) \in Seq(Seq(S))
      BY Appended
    <3> QED
      BY <3>1
  <2> DEFINE n == Len(s)
             f == [i \in 1..n |-> t[i]]
  <2>1. n \in Nat /\ Len(Append(s, x)) = n + 1 /\ Len(t) = n + 1
    BY Appended
  <2>2. f \in Seq(Seq(R)) /\ Len(f) = n /\ t[n + 1] \in Seq(R)
    BY <2>1
  <2>3. t = Append(f, t[n + 1])
    <3>1. Append(f, t[n + 1]) \in Seq(Seq(R)) /\ Len(Append(f, t[n + 1])) = n + 1
      BY <2>2
    <3>2. \A i \in 1..(n + 1) : Append(f, t[n + 1])[i] = t[i]
      BY <2>2
    <3> QED
      BY <2>1, <3>1, <3>2
  <2>4. Like(s, f) /\ Len(x) = Len(t[n + 1])
    <3>1. \A i \in 1..n : Append(s, x)[i] = s[i] /\ f[i] = t[i]
      BY Appended
    <3>2. Append(s, x)[n + 1] = x
      BY Appended
    <3>3. \A i \in 1..(n + 1) : Len(Append(s, x)[i]) = Len(t[i])
      BY <2>1
    <3>4. \A i \in 1..n : i \in 1..(n + 1)
      BY <2>1
    <3>5. n + 1 \in 1..(n + 1)
      BY <2>1
    <3>6. Len(x) = Len(t[n + 1])
      BY <3>2, <3>3, <3>5
    <3>7. \A i \in 1..n : Len(s[i]) = Len(f[i])
      BY <3>1, <3>3, <3>4
    <3> QED
      BY <2>2, <3>6, <3>7
  <2>5. Len(FlattenSeq(s)) = Len(FlattenSeq(f))
    BY <1>2, <2>2, <2>4
  <2>6. FlattenSeq(s) \in Seq(S) /\ FlattenSeq(f) \in Seq(R)
    BY <2>2, FlattenType
  <2>7. /\ FlattenSeq(Append(s, x)) = FlattenSeq(s) \o x
        /\ FlattenSeq(t) = FlattenSeq(f) \o t[n + 1]
    BY <2>2, <2>3, FlattenAppend
  <2>8. /\ Len(FlattenSeq(s) \o x) = Len(FlattenSeq(s)) + Len(x)
        /\ Len(FlattenSeq(f) \o t[n + 1]) = Len(FlattenSeq(f)) + Len(t[n + 1])
    BY <2>2, <2>6
  <2> QED
    BY <2>4, <2>5, <2>7, <2>8
<1>3. \A s \in Seq(Seq(S)) : s \in T
  <2> HIDE DEF T
  <2> QED
    BY <1>1, <1>2, SeqClosed
<1> QED
  BY <1>3

\* The elements of the parts are the elements of the whole.
LEMMA FlattenElements ==
    ASSUME NEW S, NEW ss \in Seq(Seq(S)), NEW x
    PROVE  x \in ToSet(FlattenSeq(ss)) <=> \E i \in 1..Len(ss) : x \in ToSet(ss[i])
<1> DEFINE In(s) == \E i \in 1..Len(s) : x \in ToSet(s[i])
           T == {s \in Seq(Seq(S)) : x \in ToSet(FlattenSeq(s)) <=> In(s)}
<1>1. <<>> \in T
  <2>1. <<>> \in Seq(Seq(S)) /\ ~In(<<>>) /\ ToSet(<<>>) = {}
    BY DEF ToSet
  <2> QED
    BY <2>1, FlattenEmpty
<1>2. ASSUME NEW s \in Seq(Seq(S)), NEW y \in Seq(S), s \in T PROVE Append(s, y) \in T
  <2>1. /\ Append(s, y) \in Seq(Seq(S)) /\ Len(s) \in Nat /\ Len(Append(s, y)) = Len(s) + 1
        /\ Append(s, y)[Len(s) + 1] = y /\ \A i \in 1..Len(s) : Append(s, y)[i] = s[i]
    BY Appended
  <2>2. FlattenSeq(s) \in Seq(S) /\ FlattenSeq(Append(s, y)) = FlattenSeq(s) \o y
    BY FlattenType, FlattenAppend
  <2>3. x \in ToSet(FlattenSeq(s) \o y) <=> x \in ToSet(FlattenSeq(s)) \/ x \in ToSet(y)
    <3>1. PICK f \in Seq(S) : f = FlattenSeq(s)
      BY <2>2
    <3>2. /\ f \o y \in Seq(S) /\ Len(f \o y) = Len(f) + Len(y) /\ Len(f) \in Nat /\ Len(y) \in Nat
          /\ \A k \in 1..Len(f) : (f \o y)[k] = f[k]
          /\ \A k \in 1..Len(y) : (f \o y)[Len(f) + k] = y[k]
      OBVIOUS
    <3>3. ASSUME NEW k \in 1..Len(f \o y), x = (f \o y)[k]
          PROVE  (\E l \in 1..Len(f) : x = f[l]) \/ (\E l \in 1..Len(y) : x = y[l])
      <4>1. k \in 1..Len(f) \/ (k - Len(f) \in 1..Len(y) /\ k = Len(f) + (k - Len(f)))
        BY <3>2
      <4> QED
        BY <3>2, <3>3, <4>1
    <3>4. \A k \in 1..Len(f) : k \in 1..Len(f \o y)
      BY <3>2
    <3>5. \A k \in 1..Len(y) : Len(f) + k \in 1..Len(f \o y)
      BY <3>2
    <3>6. \A z \in Seq(S) : x \in ToSet(z) <=> \E k \in 1..Len(z) : x = z[k]
      BY DEF ToSet
    <3>7. x \in ToSet(f \o y) <=> \E k \in 1..Len(f \o y) : x = (f \o y)[k]
      BY <3>2, <3>6
    <3>8. /\ x \in ToSet(f) <=> \E k \in 1..Len(f) : x = f[k]
          /\ x \in ToSet(y) <=> \E k \in 1..Len(y) : x = y[k]
      BY <3>6
    <3>9. x \in ToSet(f) \/ x \in ToSet(y) => x \in ToSet(f \o y)
      BY <3>2, <3>4, <3>5, <3>7, <3>8
    <3>10. x \in ToSet(f \o y) => x \in ToSet(f) \/ x \in ToSet(y)
      BY <3>3, <3>7, <3>8
    <3> QED
      BY <3>1, <3>9, <3>10
  <2>4. In(Append(s, y)) <=> In(s) \/ x \in ToSet(y)
    <3>1. 1..(Len(s) + 1) = (1..Len(s)) \cup {Len(s) + 1}
      BY <2>1
    <3> QED
      BY <2>1, <3>1
  <2> QED
    BY <1>2, <2>1, <2>2, <2>3, <2>4
<1>3. \A s \in Seq(Seq(S)) : s \in T
  <2> HIDE DEF T
  <2> QED
    BY <1>1, <1>2, SeqClosed
<1> QED
  BY <1>3

(***************************************************************************)
(* SumFunctionOnSet, over finite sets.                                     *)
(***************************************************************************)

(* A set without one of its elements. *)
LEMMA OneLess ==
    ASSUME NEW s, IsFiniteSet(s), NEW x \in s, NEW n \in Nat, Cardinality(s) = n + 1
    PROVE  Cardinality(s \ {x}) = n
<1>1. Cardinality(s \ {x}) = Cardinality(s) - 1
  BY FS_RemoveElement
<1> QED
  BY <1>1

(* A set of sets that holds the empty set, and with a part of S the part   *)
(* with one element more, holds S.                                         *)
LEMMA FiniteClosed ==
    ASSUME NEW S, IsFiniteSet(S), NEW T, {} \in T,
           \A s \in SUBSET S : \A x \in S : s \in T /\ x \notin s => s \cup {x} \in T
    PROVE  S \in T
<1> DEFINE U == {n \in Nat : \A s \in SUBSET S : Cardinality(s) = n => s \in T}
<1>1. \A s \in SUBSET S : IsFiniteSet(s) /\ Cardinality(s) \in Nat
  BY FS_Subset, FS_CardinalityType
<1>2. 0 \in U
  BY <1>1, FS_EmptySet
<1>3. ASSUME NEW n \in Nat, n \in U PROVE n + 1 \in U
  <2> SUFFICES ASSUME NEW s \in SUBSET S, Cardinality(s) = n + 1 PROVE s \in T
    OBVIOUS
  <2>1. s # {}
    BY FS_EmptySet
  <2>2. PICK x \in s : TRUE
    BY <2>1
  <2>3. Cardinality(s \ {x}) = n /\ s \ {x} \in SUBSET S
    BY <1>1, <2>2, OneLess
  <2>4. s \ {x} \in T /\ (s \ {x}) \cup {x} = s
    BY <1>3, <2>2, <2>3
  <2> QED
    BY <2>2, <2>3, <2>4
<1>4. \A n \in Nat : n \in U
  <2> HIDE DEF U
  <2> QED
    BY <1>2, <1>3, NatClosed
<1> QED
  BY <1>1, <1>4

(* The recursion behind SumFunctionOnSet. *)
SumsUp(f, S, g) ==
  g = [s \in SUBSET S |-> IF s = {} THEN 0
                          ELSE f[CHOOSE x \in s : TRUE] + g[s \ {CHOOSE x \in s : TRUE}]]

(* Solutions agree where the functions do, whatever set they are made for. *)
LEMMA SumsUpAgrees ==
    ASSUME NEW S, IsFiniteSet(S), NEW f, NEW g, SumsUp(f, S, g),
           NEW R, S \subseteq R, NEW h, NEW k, SumsUp(h, R, k), \A x \in S : f[x] = h[x]
    PROVE  \A s \in SUBSET S : g[s] = k[s]
<1> DEFINE U == {n \in Nat : \A s \in SUBSET S : Cardinality(s) = n => g[s] = k[s]}
           Rest(s) == s \ {CHOOSE x \in s : TRUE}
<1>1. \A s \in SUBSET S :
        /\ g[s] = IF s = {} THEN 0 ELSE f[CHOOSE x \in s : TRUE] + g[Rest(s)]
        /\ k[s] = IF s = {} THEN 0 ELSE h[CHOOSE x \in s : TRUE] + k[Rest(s)]
  <2>1. \A s \in SUBSET S : s \in SUBSET R
    OBVIOUS
  <2> QED
    BY <2>1, Zenon DEF SumsUp
<1>2. \A s \in SUBSET S : IsFiniteSet(s) /\ Cardinality(s) \in Nat
  BY FS_Subset, FS_CardinalityType
<1>3. 0 \in U
  BY <1>1, <1>2, FS_EmptySet
<1>4. ASSUME NEW n \in Nat, n \in U PROVE n + 1 \in U
  <2> SUFFICES ASSUME NEW s \in SUBSET S, Cardinality(s) = n + 1 PROVE g[s] = k[s]
    OBVIOUS
  <2>1. s # {}
    BY FS_EmptySet
  <2>2. PICK c : c = (CHOOSE x \in s : TRUE) /\ c \in s
    BY <2>1
  <2>3. Cardinality(s \ {c}) = n /\ s \ {c} \in SUBSET S
    BY <1>2, <2>2, OneLess
  <2>4. g[s \ {c}] = k[s \ {c}] /\ f[c] = h[c]
    BY <1>4, <2>2, <2>3
  <2>5. g[s] = f[c] + g[s \ {c}] /\ k[s] = h[c] + k[s \ {c}]
    BY <1>1, <2>1, <2>2, Zenon
  <2> QED
    BY <2>4, <2>5
<1>5. \A n \in Nat : n \in U
  <2> HIDE DEF U
  <2> QED
    BY <1>3, <1>4, NatClosed
<1> QED
  BY <1>2, <1>5

(* It has a solution, whose value at S is the sum. *)
LEMMA SumIs ==
    ASSUME NEW S, IsFiniteSet(S), NEW f, \A x \in S : f[x] \in Nat
    PROVE  \E g \in [SUBSET S -> Nat] : SumsUp(f, S, g) /\ SumFunctionOnSet(f, S) = g[S]
<1> DEFINE D == SUBSET S
           rank == [s \in D |-> Cardinality(s)]
           Rest(s) == s \ {CHOOSE x \in s : TRUE}
           B == [g \in [D -> Nat] |->
                   [s \in D |-> IF s = {} THEN 0 ELSE f[CHOOSE x \in s : TRUE] + g[Rest(s)]]]
<1>1. \A s \in D : IsFiniteSet(s) /\ Cardinality(s) \in Nat /\ Cardinality(s) < Cardinality(S) + 1
                   /\ Cardinality(S) \in Nat
  BY FS_Subset, FS_CardinalityType
<1>2. \A s \in D : s # {} => Rest(s) \in D /\ rank[Rest(s)] < rank[s] /\ f[CHOOSE x \in s : TRUE] \in Nat
  <2> SUFFICES ASSUME NEW s \in D, s # {}
               PROVE  Rest(s) \in D /\ rank[Rest(s)] < rank[s] /\ f[CHOOSE x \in s : TRUE] \in Nat
    OBVIOUS
  <2>1. PICK c : c = (CHOOSE x \in s : TRUE) /\ c \in s
    OBVIOUS
  <2>2. Cardinality(s \ {c}) = Cardinality(s) - 1 /\ s \ {c} \in D
    BY <1>1, <2>1, FS_RemoveElement
  <2> QED
    BY <1>1, <2>1, <2>2
<1>3. Descends(D, Nat, Cardinality(S) + 1, rank, B)
  <2>1. Cardinality(S) + 1 \in Nat /\ rank \in [D -> Nat] /\ \A x \in D : rank[x] < Cardinality(S) + 1
    BY <1>1, FS_CardinalityType
  <2>2. B \in [[D -> Nat] -> [D -> Nat]]
    <3> HIDE DEF D, rank, Rest
    <3> QED
      BY <1>2
  <2>3. ASSUME NEW g \in [D -> Nat], NEW h \in [D -> Nat], NEW s \in D,
               \A y \in D : rank[y] < rank[s] => g[y] = h[y]
        PROVE  B[g][s] = B[h][s]
    <3>1. s # {} => g[Rest(s)] = h[Rest(s)]
      BY <1>2, <2>3
    <3> HIDE DEF D, rank, Rest
    <3> QED
      BY <3>1
  <2> HIDE DEF D, rank, B
  <2> QED
    BY <2>1, <2>2, <2>3 DEF Descends
<1>4. PICK g \in [D -> Nat] : g = B[g]
  <2> HIDE DEF D, rank, B
  <2> QED
    BY <1>3, Recursion
<1>5. SumsUp(f, S, g)
  BY <1>4 DEF SumsUp
<1>6. PICK k : k = (CHOOSE h : SumsUp(f, S, h)) /\ SumsUp(f, S, k)
  BY <1>5
<1>7. SumFunctionOnSet(f, S) = k[S]
  BY <1>6, Zenon DEF SumFunctionOnSet, FoldFunctionOnSet, MapThenFoldSet, SumsUp
<1>8. k = g
  <2>1. \A s \in D : k[s] = g[s]
    BY <1>5, <1>6, SumsUpAgrees
  <2>2. k = [s \in D |-> k[s]] /\ g = [s \in D |-> g[s]]
    BY <1>5, <1>6, Zenon DEF SumsUp
  <2> QED
    BY <2>1, <2>2
<1> QED
  BY <1>4, <1>5, <1>7, <1>8

\* Any element may be added last.
AnyLast(f, S, g) == \A s \in SUBSET S : \A x \in s : g[s] = f[x] + g[s \ {x}]

(* Which element is added last does not matter. *)
LEMMA SumsUpAny ==
    ASSUME NEW S, IsFiniteSet(S), NEW f, \A x \in S : f[x] \in Nat,
           NEW g \in [SUBSET S -> Nat], SumsUp(f, S, g)
    PROVE  AnyLast(f, S, g)
<1> DEFINE U == {n \in Nat : \A s \in SUBSET S : Cardinality(s) = n =>
                               \A x \in s : g[s] = f[x] + g[s \ {x}]}
<1>1. \A s \in SUBSET S :
        s # {} => g[s] = f[CHOOSE x \in s : TRUE] + g[s \ {CHOOSE x \in s : TRUE}]
  BY Zenon DEF SumsUp
<1>2. \A s \in SUBSET S : IsFiniteSet(s) /\ Cardinality(s) \in Nat
  BY FS_Subset, FS_CardinalityType
<1>3. 0 \in U
  BY <1>2, FS_EmptySet
<1>4. ASSUME NEW n \in Nat, n \in U PROVE n + 1 \in U
  <2> SUFFICES ASSUME NEW s \in SUBSET S, Cardinality(s) = n + 1, NEW x \in s
               PROVE  g[s] = f[x] + g[s \ {x}]
    OBVIOUS
  <2>1. PICK c : c = (CHOOSE y \in s : TRUE) /\ c \in s
    OBVIOUS
  <2>2. g[s] = f[c] + g[s \ {c}]
    BY <1>1, <2>1
  <2>3. CASE x = c
    BY <2>2, <2>3
  <2>4. CASE x # c
    <3>1. Cardinality(s \ {c}) = n /\ s \ {c} \in SUBSET S
      BY <1>2, <2>1, OneLess
    <3>2. Cardinality(s \ {x}) = n /\ s \ {x} \in SUBSET S
      BY <1>2, OneLess
    <3>3. g[s \ {c}] = f[x] + g[(s \ {c}) \ {x}]
      BY <1>4, <2>4, <3>1
    <3>4. g[s \ {x}] = f[c] + g[(s \ {x}) \ {c}]
      BY <1>4, <2>1, <2>4, <3>2
    <3>5. PICK u : u = (s \ {c}) \ {x} /\ u = (s \ {x}) \ {c} /\ u \in SUBSET S
      <4>1. (s \ {c}) \ {x} = (s \ {x}) \ {c} /\ (s \ {c}) \ {x} \in SUBSET S
        OBVIOUS
      <4> QED
        BY <4>1
    <3>6. g[u] \in Nat /\ f[c] \in Nat /\ f[x] \in Nat
      BY <2>1, <3>5
    <3>7. g[s \ {c}] = f[x] + g[u] /\ g[s \ {x}] = f[c] + g[u]
      BY <3>3, <3>4, <3>5
    <3> QED
      BY <2>2, <3>6, <3>7
  <2> QED
    BY <2>3, <2>4
<1>5. \A n \in Nat : n \in U
  <2> HIDE DEF U
  <2> QED
    BY <1>3, <1>4, NatClosed
<1> QED
  BY <1>2, <1>5 DEF AnyLast

(* The sum over a set, by the sum over the set without one element. *)
LEMMA SumRemove ==
    ASSUME NEW S, IsFiniteSet(S), NEW f, \A y \in S : f[y] \in Nat, NEW x \in S
    PROVE  /\ SumFunctionOnSet(f, S \ {x}) \in Nat
           /\ SumFunctionOnSet(f, S) = f[x] + SumFunctionOnSet(f, S \ {x})
<1>1. PICK g \in [SUBSET S -> Nat] : SumsUp(f, S, g) /\ SumFunctionOnSet(f, S) = g[S]
  BY SumIs
<1>2. PICK R : R = S \ {x} /\ IsFiniteSet(R) /\ R \in SUBSET S
  <2>1. S \ {x} \in SUBSET S
    OBVIOUS
  <2>2. IsFiniteSet(S \ {x})
    BY <2>1, FS_Subset
  <2> QED
    BY <2>1, <2>2
<1>3. PICK k \in [SUBSET R -> Nat] : SumsUp(f, R, k) /\ SumFunctionOnSet(f, R) = k[R]
  <2>1. \A y \in R : f[y] \in Nat
    BY <1>2
  <2> QED
    BY <1>2, <2>1, SumIs
<1>4. k[R] = g[R]
  <2>1. \A s \in SUBSET R : k[s] = g[s]
    BY <1>1, <1>2, <1>3, SumsUpAgrees
  <2> QED
    BY <2>1
<1>5. g[S] = f[x] + g[S \ {x}]
  <2>1. S \in SUBSET S
    OBVIOUS
  <2>2. AnyLast(f, S, g)
    BY <1>1, SumsUpAny
  <2> QED
    BY <2>1, <2>2, Zenon DEF AnyLast
<1> QED
  BY <1>1, <1>2, <1>3, <1>4, <1>5

(* The sum over nothing. *)
LEMMA SumEmpty == ASSUME NEW f PROVE SumFunctionOnSet(f, {}) = 0
<1>1. IsFiniteSet({}) /\ \A x \in {} : f[x] \in Nat
  BY FS_EmptySet
<1>2. PICK g \in [SUBSET {} -> Nat] : SumsUp(f, {}, g) /\ SumFunctionOnSet(f, {}) = g[{}]
  BY <1>1, SumIs
<1>3. {} \in SUBSET {}
  OBVIOUS
<1> QED
  BY <1>2, <1>3, Zenon DEF SumsUp

(* The sum of numbers is a number, and only the values in the set matter. *)
LEMMA SumAgrees ==
    ASSUME NEW S, IsFiniteSet(S), NEW f, \A x \in S : f[x] \in Nat,
           NEW h, \A x \in S : h[x] = f[x]
    PROVE  /\ SumFunctionOnSet(f, S) \in Nat
           /\ SumFunctionOnSet(f, S) = SumFunctionOnSet(h, S)
<1>1. PICK g \in [SUBSET S -> Nat] : SumsUp(f, S, g) /\ SumFunctionOnSet(f, S) = g[S]
  BY SumIs
<1>2. PICK k \in [SUBSET S -> Nat] : SumsUp(h, S, k) /\ SumFunctionOnSet(h, S) = k[S]
  <2>1. \A x \in S : h[x] \in Nat
    OBVIOUS
  <2> QED
    BY <2>1, SumIs
<1>3. S \in SUBSET S /\ \A s \in SUBSET S : g[s] = k[s]
  BY <1>1, <1>2, SumsUpAgrees
<1> QED
  BY <1>1, <1>2, <1>3

(* One element more. *)
LEMMA SumAdd ==
    ASSUME NEW S, IsFiniteSet(S), NEW f, \A y \in S : f[y] \in Nat, NEW x, x \notin S, f[x] \in Nat
    PROVE  SumFunctionOnSet(f, S \cup {x}) = f[x] + SumFunctionOnSet(f, S)
<1>1. PICK R : R = S \cup {x} /\ x \in R /\ R \ {x} = S /\ IsFiniteSet(R)
  <2>1. IsFiniteSet(S \cup {x})
    BY FS_AddElement
  <2>2. x \in S \cup {x} /\ (S \cup {x}) \ {x} = S
    OBVIOUS
  <2> QED
    BY <2>1, <2>2
<1>2. \A y \in R : f[y] \in Nat
  BY <1>1
<1>3. SumFunctionOnSet(f, R) = f[x] + SumFunctionOnSet(f, R \ {x})
  BY <1>1, <1>2, SumRemove
<1> QED
  BY <1>1, <1>3

(* One value that changes. *)
LEMMA SumChange ==
    ASSUME NEW S, IsFiniteSet(S), NEW f, NEW h, \A y \in S : f[y] \in Nat /\ h[y] \in Nat,
           NEW x \in S, \A y \in S : y # x => h[y] = f[y]
    PROVE  SumFunctionOnSet(h, S) + f[x] = SumFunctionOnSet(f, S) + h[x]
<1>1. PICK R : R = S \ {x} /\ IsFiniteSet(R)
  BY FS_Subset
<1>2. SumFunctionOnSet(f, R) \in Nat /\ SumFunctionOnSet(f, R) = SumFunctionOnSet(h, R)
  <2>1. (\A y \in R : f[y] \in Nat) /\ \A y \in R : h[y] = f[y]
    BY <1>1
  <2> QED
    BY <1>1, <2>1, SumAgrees
<1>3. SumFunctionOnSet(f, S) = f[x] + SumFunctionOnSet(f, R)
  BY <1>1, SumRemove
<1>4. SumFunctionOnSet(h, S) = h[x] + SumFunctionOnSet(h, R)
  BY <1>1, SumRemove
<1>5. f[x] \in Nat /\ h[x] \in Nat
  OBVIOUS
<1> QED
  BY <1>2, <1>3, <1>4, <1>5

(* The sum of zeros. *)
LEMMA SumZero ==
    ASSUME NEW S, IsFiniteSet(S), NEW f, \A x \in S : f[x] = 0
    PROVE  SumFunctionOnSet(f, S) = 0
<1> DEFINE T == {s \in SUBSET S : SumFunctionOnSet(f, s) = 0}
<1>1. {} \in T
  BY SumEmpty
<1>2. ASSUME NEW s \in SUBSET S, NEW x \in S, s \in T, x \notin s PROVE s \cup {x} \in T
  <2>1. IsFiniteSet(s) /\ (\A y \in s : f[y] \in Nat) /\ f[x] \in Nat
    BY FS_Subset
  <2>2. SumFunctionOnSet(f, s \cup {x}) = f[x] + SumFunctionOnSet(f, s)
    BY <1>2, <2>1, SumAdd
  <2>3. SumFunctionOnSet(f, s \cup {x}) = 0
    BY <1>2, <2>2
  <2> QED
    BY <2>3
<1>3. S \in T
  <2> HIDE DEF T
  <2> QED
    BY <1>1, <1>2, FiniteClosed
<1> QED
  BY <1>3

(* The values of m in S. *)
ImageOf(m, S) == {m[x] : x \in S}

(* The values of h are those of f, each under one other name. *)
Renames(m, S, f, h) ==
    /\ \A x, y \in S : x # y => m[x] # m[y]
    /\ \A x \in S : f[m[x]] \in Nat /\ h[x] = f[m[x]]

(* The same values under other names. *)
LEMMA SumMoved ==
    ASSUME NEW S, IsFiniteSet(S), NEW m, NEW f, NEW h, Renames(m, S, f, h)
    PROVE  SumFunctionOnSet(f, ImageOf(m, S)) = SumFunctionOnSet(h, S)
<1> USE DEF Renames
<1> DEFINE T == {s \in SUBSET S : /\ IsFiniteSet(ImageOf(m, s))
                                  /\ SumFunctionOnSet(f, ImageOf(m, s)) = SumFunctionOnSet(h, s)}
<1>1. {} \in T
  <2>1. ImageOf(m, {}) = {} /\ IsFiniteSet({})
    BY FS_EmptySet DEF ImageOf
  <2> QED
    BY <2>1, SumEmpty
<1>2. ASSUME NEW s \in SUBSET S, NEW x \in S, s \in T, x \notin s PROVE s \cup {x} \in T
  <2>1. PICK R : R = ImageOf(m, s) /\ IsFiniteSet(R) /\ SumFunctionOnSet(f, R) = SumFunctionOnSet(h, s)
    BY <1>2
  <2>2. ImageOf(m, s \cup {x}) = R \cup {m[x]} /\ m[x] \notin R
    BY <1>2, <2>1 DEF ImageOf
  <2>3. \A y \in R : f[y] \in Nat
    BY <2>1 DEF ImageOf
  <2>4. IsFiniteSet(R \cup {m[x]})
    BY <2>1, FS_AddElement
  <2>5. SumFunctionOnSet(f, R \cup {m[x]}) = f[m[x]] + SumFunctionOnSet(f, R)
    BY <2>1, <2>2, <2>3, SumAdd
  <2>6. IsFiniteSet(s) /\ (\A y \in s : h[y] \in Nat) /\ h[x] \in Nat
    BY FS_Subset
  <2>7. SumFunctionOnSet(h, s \cup {x}) = h[x] + SumFunctionOnSet(h, s)
    BY <1>2, <2>6, SumAdd
  <2> QED
    BY <2>1, <2>2, <2>4, <2>5, <2>7
<1>3. S \in T
  <2> HIDE DEF T
  <2> QED
    BY <1>1, <1>2, FiniteClosed
<1> QED
  BY <1>3
=============================================================================
