----------------------------- MODULE TextProofs -----------------------------
(***************************************************************************)
(* Proofs about what is read from text.                                    *)
(***************************************************************************)
EXTENDS ConfigText, Values, DataInduction

(***************************************************************************)
(* Arithmetic.                                                             *)
(***************************************************************************)
\* A remainder is less than the divisor.
LEMMA Remainder ==
    ASSUME NEW x \in Int, NEW c \in Nat, c > 0
    PROVE  x % c \in 0..(c - 1)
  BY Z3

\* Multiplying by a positive number keeps the order.
LEMMA Scales ==
    ASSUME NEW x \in Int, NEW y \in Int, NEW c \in Nat, x < y, c > 0
    PROVE  x * c + c <= y * c
  BY Z3

\* Comparing with a quotient is comparing the product.
LEMMA Quotient ==
    ASSUME NEW x \in Int, NEW m \in Nat, NEW c \in Nat, c > 0
    PROVE  x > m \div c <=> x * c > m
  BY Z3

\* A number in the range of the width is left alone.
LEMMA InWidth ==
    ASSUME NEW max \in Nat, NEW x \in Nat, x <= max
    PROVE  Wrapped(x, max) = x
  BY Z3 DEF Wrapped

\* Wrapping stays in the width.
LEMMA WrapsInto ==
    ASSUME NEW max \in Nat, NEW x \in Int
    PROVE  Wrapped(x, max) \in -(max + 1)..max
<1>1. PICK h \in Nat, c \in Nat, y \in Int : h = max + 1 /\ c = 2 * h /\ c > 0 /\ y = x + h
  OBVIOUS
<1>2. PICK r \in 0..(c - 1) : r = y % c
  BY <1>1, Remainder
<1>3. Wrapped(x, max) = r - h
  <2>1. x + max + 1 = y /\ 2 * (max + 1) = c /\ max + 1 = h
    BY <1>1
  <2> QED
    BY <2>1, <1>2, Zenon DEF Wrapped
<1> QED
  BY <1>1, <1>3

(***************************************************************************)
(* Recursive functions.                                                    *)
(***************************************************************************)
\* The value of g at each argument is a step from the one before.
Stepwise(n, v, st, g) == g = [k \in 0..n |-> IF k = 0 THEN v ELSE st[k][g[k - 1]]]

\* There is such a function.
LEMMA Iterates ==
    ASSUME NEW n \in Nat, NEW V, NEW v \in V, NEW st \in [1..n -> [V -> V]]
    PROVE  \E g \in [0..n -> V] : Stepwise(n, v, st, g)
<1> DEFINE D == 0..n
           rank == [k \in D |-> k]
           Body(g) == [k \in D |-> IF k = 0 THEN v ELSE st[k][g[k - 1]]]
           B == [g \in [D -> V] |-> Body(g)]
<1>1. rank \in [D -> Nat] /\ \A k \in D : rank[k] = k
  OBVIOUS
<1>2. ASSUME NEW g \in [D -> V] PROVE B[g] = Body(g) /\ Body(g) \in [D -> V]
  <2>1. ASSUME NEW k \in D, k # 0 PROVE k - 1 \in D /\ k \in 1..n
    BY <2>1
  <2> QED
    BY <2>1
<1>3. B \in [[D -> V] -> [D -> V]]
  BY <1>2
<1>4. ASSUME NEW g \in [D -> V], NEW h \in [D -> V], NEW k \in D,
             \A j \in D : rank[j] < rank[k] => g[j] = h[j]
      PROVE  B[g][k] = B[h][k]
  <2>1. CASE k = 0
    BY <1>2, <2>1
  <2>2. CASE k # 0
    <3>1. k - 1 \in D /\ rank[k - 1] < rank[k]
      BY <2>2, <1>1
    <3>2. g[k - 1] = h[k - 1]
      BY <3>1, <1>4
    <3> QED
      BY <3>2, <2>2, <1>2
  <2> QED
    BY <2>1, <2>2
<1> HIDE DEF D, rank, B
<1>5. DescendsFreely(D, V, rank, B)
  BY <1>1, <1>3, <1>4, Zenon DEF DescendsFreely
<1>6. PICK g \in [D -> V] : g = B[g]
  BY <1>5, RecursionFree
<1>7. g = Body(g)
  BY <1>2, <1>6
<1> QED
  BY <1>6, <1>7 DEF D, Stepwise

(***************************************************************************)
(* Strings and numbers.                                                    *)
(***************************************************************************)
\* The bytes of a string are its characters and one NUL behind them.
LEMMA BytesAre ==
    ASSUME NEW s \in Seq(Chars)
    PROVE  /\ DOMAIN Bytes(s) = 0..Len(s)
           /\ \A k \in 0..Len(s) : Bytes(s)[k] = NUL <=> k = Len(s)
           /\ \A k \in 1..Len(s) : Bytes(s)[k - 1] = s[k] /\ s[k] \in Chars
<1>1. NUL \notin Chars
  BY DEF NUL, Chars, Digits
<1>2. PICK n \in Nat : n = Len(s)
  OBVIOUS
<1>3. \A k \in 1..n : s[k] \in Chars
  BY <1>2
<1>4. Bytes(s) = [k \in 0..n |-> IF k = n THEN NUL ELSE s[k + 1]]
  BY <1>2 DEF Bytes
<1>5. ASSUME NEW k \in 0..n PROVE Bytes(s)[k] = NUL <=> k = n
  <2>1. CASE k = n
    BY <1>4, <2>1
  <2>2. CASE k # n
    <3>1. k + 1 \in 1..n
      BY <2>2
    <3> QED
      BY <3>1, <2>2, <1>1, <1>3, <1>4
  <2> QED
    BY <2>1, <2>2
<1>6. ASSUME NEW k \in 1..n PROVE Bytes(s)[k - 1] = s[k]
  <2>1. k - 1 \in 0..n /\ k - 1 # n /\ (k - 1) + 1 = k
    OBVIOUS
  <2> QED
    BY <2>1, <1>4
<1>7. DOMAIN Bytes(s) = 0..n
  BY <1>4
<1> QED
  BY <1>2, <1>3, <1>5, <1>6, <1>7

\* fpx_strlen finds the NUL.
LEMMA StrlenIs ==
    ASSUME NEW s \in Seq(Chars)
    PROVE  fpx_strlen(Bytes(s)) = Len(s)
<1> DEFINE b == Bytes(s)
           f == CHOOSE g : g = [k \in DOMAIN b |-> IF b[k] = NUL THEN k ELSE g[k + 1]]
<1>1. PICK n \in Nat : n = Len(s)
  OBVIOUS
<1>2. DOMAIN b = 0..n /\ \A k \in 0..n : b[k] = NUL <=> k = n
  BY <1>1, BytesAre
<1> HIDE DEF b
<1>3. \E g : g = [k \in DOMAIN b |-> IF b[k] = NUL THEN k ELSE g[k + 1]]
  <2> DEFINE g == [k \in 0..n |-> n]
  <2>1. ASSUME NEW k \in 0..n PROVE g[k] = IF b[k] = NUL THEN k ELSE g[k + 1]
    <3>1. CASE k = n
      BY <3>1, <1>2
    <3>2. CASE k # n
      <4>1. k + 1 \in 0..n
        BY <3>2
      <4> QED
        BY <4>1, <3>2, <1>2
    <3> QED
      BY <3>1, <3>2
  <2>2. g = [k \in DOMAIN b |-> IF b[k] = NUL THEN k ELSE g[k + 1]]
    BY <2>1, <1>2
  <2> QED
    BY <2>2, Zenon
<1>4. f = [k \in DOMAIN b |-> IF b[k] = NUL THEN k ELSE f[k + 1]]
  BY <1>3, Zenon
<1>5. fpx_strlen(b) = f[0]
  BY Zenon DEF fpx_strlen
<1> HIDE DEF f
<1> DEFINE T == {m \in Nat : m <= n => f[n - m] = n}
<1>6. 0 \in T
  BY <1>2, <1>4
<1>7. ASSUME NEW m \in Nat, m \in T PROVE m + 1 \in T
  <2> SUFFICES ASSUME m + 1 <= n PROVE f[n - (m + 1)] = n
    OBVIOUS
  <2>1. PICK k \in 0..n : k = n - (m + 1) /\ k # n /\ k + 1 = n - m
    OBVIOUS
  <2>2. f[k + 1] = n
    BY <2>1, <1>7
  <2> QED
    BY <2>1, <2>2, <1>2, <1>4
<1>8. n \in T
  <2> HIDE DEF T
  <2> QED
    BY <1>6, <1>7, NatClosed
<1> QED
  BY <1>1, <1>5, <1>8 DEF b

\* A digit stands for a number from 0 to 9.
LEMMA DigitIs ==
    ASSUME NEW c \in Digits
    PROVE  DigitOf[c] \in 0..9
<1>1. DigitOf[c] = CASE c = "0" -> 0 [] c = "1" -> 1 [] c = "2" -> 2
                     [] c = "4" -> 4 [] c = "7" -> 7 [] c = "8" -> 8
  BY Zenon DEF DigitOf
<1>2. /\ c = "0" => DigitOf[c] = 0
      /\ c = "1" => DigitOf[c] = 1
      /\ c = "2" => DigitOf[c] = 2
      /\ c = "4" => DigitOf[c] = 4
      /\ c = "7" => DigitOf[c] = 7
      /\ c = "8" => DigitOf[c] = 8
  BY <1>1, SMT
<1>3. c \in {"0", "1", "2", "4", "7", "8"}
  BY DEF Digits
<1> QED
  BY <1>2, <1>3, SMT

\* The values of the prefixes of a numeral.
PrefixValues(s, v) ==
    v = [k \in 0..Len(s) |-> IF k = 0 THEN 0 ELSE v[k - 1] * 10 + DigitOf[s[k]]]

\* The value of digits is that of the longest prefix, a natural number.
LEMMA ValueIs ==
    ASSUME NEW s \in Seq(Digits)
    PROVE  \E v \in [0..Len(s) -> Nat] : PrefixValues(s, v) /\ Value(s) = v[Len(s)]
<1> DEFINE f == CHOOSE v : v = [k \in 0..Len(s) |-> IF k = 0 THEN 0 ELSE v[k - 1] * 10 + DigitOf[s[k]]]
           st == [k \in 1..Len(s) |-> [x \in Nat |-> x * 10 + DigitOf[s[k]]]]
<1>1. PICK n \in Nat : n = Len(s)
  OBVIOUS
<1>2. ASSUME NEW k \in 1..n PROVE DigitOf[s[k]] \in Nat
  <2>1. s[k] \in Digits
    BY <1>1
  <2>2. DigitOf[s[k]] \in 0..9
    BY <2>1, DigitIs
  <2> QED
    BY <2>2
<1>3. st \in [1..n -> [Nat -> Nat]]
  BY <1>1, <1>2
<1>4. ASSUME NEW k \in 1..n, NEW x \in Nat PROVE st[k][x] = x * 10 + DigitOf[s[k]]
  BY <1>1
<1> HIDE DEF st
<1>5. PICK g \in [0..n -> Nat] : g = [k \in 0..n |-> IF k = 0 THEN 0 ELSE st[k][g[k - 1]]]
  <2> DEFINE V == Nat
  <2>1. 0 \in V /\ st \in [1..n -> [V -> V]]
    BY <1>3
  <2> HIDE DEF V
  <2>2. PICK v \in V : v = 0
    BY <2>1
  <2>3. \E g \in [0..n -> V] : Stepwise(n, v, st, g)
    BY <2>1, Iterates
  <2> QED
    BY <2>2, <2>3, Zenon DEF V, Stepwise
<1>6. ASSUME NEW k \in 0..n PROVE g[k] = IF k = 0 THEN 0 ELSE g[k - 1] * 10 + DigitOf[s[k]]
  <2>1. CASE k = 0
    BY <2>1, <1>5
  <2>2. CASE k # 0
    <3>1. k \in 1..n /\ k - 1 \in 0..n
      BY <2>2
    <3>2. g[k - 1] \in Nat
      BY <3>1
    <3>3. g[k] = st[k][g[k - 1]]
      BY <2>2, <1>5
    <3> QED
      BY <2>2, <3>1, <3>2, <3>3, <1>4
  <2> QED
    BY <2>1, <2>2
<1>7. g = [k \in 0..Len(s) |-> IF k = 0 THEN 0 ELSE g[k - 1] * 10 + DigitOf[s[k]]]
  BY <1>1, <1>6
<1>8. f = [k \in 0..Len(s) |-> IF k = 0 THEN 0 ELSE f[k - 1] * 10 + DigitOf[s[k]]]
  BY <1>7, Zenon
<1>9. Value(s) = f[Len(s)]
  BY Zenon DEF Value
<1> HIDE DEF f
<1> DEFINE T == {m \in Nat : m <= n => f[m] \in Nat}
<1>10. 0 \in T
  BY <1>1, <1>8
<1>11. ASSUME NEW m \in Nat, m \in T PROVE m + 1 \in T
  <2> SUFFICES ASSUME m + 1 <= n PROVE f[m + 1] \in Nat
    OBVIOUS
  <2>1. PICK k \in 1..n : k = m + 1 /\ k - 1 = m /\ k # 0 /\ k \in 0..n
    OBVIOUS
  <2>2. f[k - 1] \in Nat /\ DigitOf[s[k]] \in Nat
    BY <2>1, <1>2, <1>11
  <2>3. f[k] = f[k - 1] * 10 + DigitOf[s[k]]
    BY <2>1, <1>1, <1>8
  <2>4. PICK x \in Nat, y \in Nat : x = f[k - 1] /\ y = DigitOf[s[k]]
    BY <2>2
  <2>5. f[k] = x * 10 + y
    BY <2>3, <2>4, Zenon
  <2>6. f[k] \in Nat
    BY <2>5
  <2> QED
    BY <2>1, <2>6, Zenon
<1>12. \A m \in Nat : m \in T
  <2> HIDE DEF T
  <2> QED
    BY <1>10, <1>11, NatClosed
<1>13. f \in [0..n -> Nat]
  <2>1. \A k \in 0..n : f[k] \in Nat
    BY <1>12
  <2>2. DOMAIN f = 0..n
    BY <1>1, <1>8
  <2>3. f = [k \in DOMAIN f |-> f[k]]
    BY <1>8
  <2> QED
    BY <2>1, <2>2, <2>3
<1> QED
  BY <1>1, <1>8, <1>9, <1>13 DEF PrefixValues

\* The test of a digit before it is taken is exact.
LEMMA OverflowsIs ==
    ASSUME NEW max \in Nat, NEW x \in Nat, NEW d \in 0..9
    PROVE  Overflows(x, d, max) <=> x * 10 + d > max
  BY SMT DEF Overflows

\* A digit is taken if the number that results fits.
LEMMA DigitTaken ==
    ASSUME NEW max \in Nat, NEW x \in Nat, NEW c \in Digits
    PROVE  WithDigit(x, c, max) =
               IF x * 10 + DigitOf[c] <= max THEN x * 10 + DigitOf[c] ELSE -1
<1>1. PICK d \in 0..9 : d = DigitOf[c]
  BY DigitIs
<1>2. x # -1
  OBVIOUS
<1>3. WithDigit(x, c, max) = IF Overflows(x, d, max) THEN -1 ELSE Wrapped(x * 10 + d, max)
  BY <1>1, <1>2, Zenon DEF WithDigit
<1>4. PICK y \in Nat : y = x * 10 + d
  OBVIOUS
<1>5. CASE y <= max
  <2>1. ~Overflows(x, d, max)
    BY <1>4, <1>5, OverflowsIs
  <2>2. Wrapped(y, max) = y
    BY <1>5, InWidth
  <2> QED
    BY <1>1, <1>3, <1>4, <1>5, <2>1, <2>2, Zenon
<1>6. CASE ~(y <= max)
  <2>1. Overflows(x, d, max)
    BY <1>4, <1>6, OverflowsIs
  <2> QED
    BY <1>1, <1>3, <1>4, <1>6, <2>1, Zenon
<1> QED
  BY <1>5, <1>6

\* The numbers that the loop over n digits from at reads.
Reads(b, at, n, max, u) ==
    u = [k \in 0..n |-> IF k = 0 THEN 0 ELSE WithDigit(u[k - 1], b[at + k - 1], max)]

\* A digit more leaves an integer.
LEMMA WithDigitType ==
    ASSUME NEW max \in Nat, NEW x \in Int, NEW c
    PROVE  WithDigit(x, c, max) \in Int
<1>1. CASE x = -1 \/ c \notin Digits
  <2>1. WithDigit(x, c, max) = -1
    BY <1>1, Zenon DEF WithDigit
  <2> QED
    BY <2>1
<1>2. CASE x # -1 /\ c \in Digits
  <2>1. PICK d \in 0..9 : d = DigitOf[c]
    BY <1>2, DigitIs
  <2>2. WithDigit(x, c, max) = IF Overflows(x, d, max) THEN -1 ELSE Wrapped(x * 10 + d, max)
    BY <1>2, <2>1, Zenon DEF WithDigit
  <2>3. Wrapped(x * 10 + d, max) \in Int
    <3>1. PICK y \in Int : y = x * 10 + d
      OBVIOUS
    <3>2. Wrapped(y, max) \in -(max + 1)..max
      BY WrapsInto
    <3> QED
      BY <3>1, <3>2
  <2> QED
    BY <2>2, <2>3
<1> QED
  BY <1>1, <1>2

\* A number is the last that the loop reads.
LEMMA NumberIs ==
    ASSUME NEW b, NEW at \in Int, NEW n \in Nat, n > 0, NEW max \in Nat
    PROVE  \E u : Reads(b, at, n, max, u) /\ Number(b, at, n, max) = u[n]
<1> DEFINE f == CHOOSE u : u = [k \in 0..n |-> IF k = 0 THEN 0 ELSE WithDigit(u[k - 1], b[at + k - 1], max)]
           st == [k \in 1..n |-> [x \in Int |-> WithDigit(x, b[at + k - 1], max)]]
           V == Int
<1>1. st \in [1..n -> [V -> V]] /\ 0 \in V
  BY WithDigitType
<1>2. ASSUME NEW k \in 1..n, NEW x \in V PROVE st[k][x] = WithDigit(x, b[at + k - 1], max)
  OBVIOUS
<1> HIDE DEF st, V
<1>3. PICK v \in V : v = 0
  BY <1>1
<1>4. PICK g \in [0..n -> V] : Stepwise(n, v, st, g)
  BY <1>1, Iterates
<1>5. ASSUME NEW k \in 0..n
      PROVE  g[k] = IF k = 0 THEN 0 ELSE WithDigit(g[k - 1], b[at + k - 1], max)
  <2>1. CASE k = 0
    BY <2>1, <1>3, <1>4 DEF Stepwise
  <2>2. CASE k # 0
    <3>1. k \in 1..n /\ k - 1 \in 0..n
      BY <2>2
    <3>2. g[k - 1] \in V
      BY <3>1
    <3>3. g[k] = st[k][g[k - 1]]
      BY <2>2, <1>4 DEF Stepwise
    <3>4. g[k] = WithDigit(g[k - 1], b[at + k - 1], max)
      BY <3>1, <3>2, <3>3, <1>2
    <3> QED
      BY <2>2, <3>4
  <2> QED
    BY <2>1, <2>2
<1>6. g = [k \in 0..n |-> IF k = 0 THEN 0 ELSE WithDigit(g[k - 1], b[at + k - 1], max)]
  BY <1>5
<1>7. f = [k \in 0..n |-> IF k = 0 THEN 0 ELSE WithDigit(f[k - 1], b[at + k - 1], max)]
  BY <1>6, Zenon
<1>8. n # 0
  OBVIOUS
<1>9. Number(b, at, n, max) = f[n]
  BY <1>8, Zenon DEF Number
<1> QED
  BY <1>7, <1>9, Zenon DEF Reads

\* The bytes b[at] .. are the characters of s.
Holds(b, at, s) == \A k \in 1..Len(s) : b[at + k - 1] = s[k]

\* Digits are read as the number they stand for if it fits.
LEMMA DigitsRead ==
    ASSUME NEW b, NEW at \in Int, NEW max \in Nat, NEW s \in Seq(Digits), s # <<>>, Holds(b, at, s)
    PROVE  /\ Value(s) \in Nat
           /\ Number(b, at, Len(s), max) = IF Value(s) <= max THEN Value(s) ELSE -1
<1>1. PICK n \in Nat : n = Len(s) /\ n > 0
  OBVIOUS
<1>2. PICK v \in [0..n -> Nat] : PrefixValues(s, v) /\ Value(s) = v[n]
  BY <1>1, ValueIs
<1>3. PICK u : Reads(b, at, n, max, u) /\ Number(b, at, n, max) = u[n]
  BY <1>1, NumberIs
<1> DEFINE T == {m \in Nat : m <= n => u[m] = IF v[m] <= max THEN v[m] ELSE -1}
<1>4. 0 \in T
  <2>1. u[0] = 0
    BY <1>3 DEF Reads
  <2>2. v[0] = 0
    BY <1>1, <1>2 DEF PrefixValues
  <2> QED
    BY <2>1, <2>2
<1>5. ASSUME NEW m \in Nat, m \in T PROVE m + 1 \in T
  <2> SUFFICES ASSUME m + 1 <= n PROVE u[m + 1] = IF v[m + 1] <= max THEN v[m + 1] ELSE -1
    OBVIOUS
  <2>1. PICK k \in 1..n : k = m + 1 /\ k - 1 = m /\ k # 0 /\ k \in 0..n
    OBVIOUS
  <2>2. PICK c \in Digits : c = s[k] /\ c = b[at + k - 1]
    BY <2>1, <1>1 DEF Holds
  <2>3. u[k] = WithDigit(u[m], c, max)
    BY <2>1, <2>2, <1>3 DEF Reads
  <2>4. v[k] = v[m] * 10 + DigitOf[c]
    BY <2>1, <2>2, <1>1, <1>2 DEF PrefixValues
  <2>5. PICK x \in Nat, d \in 0..9 : x = v[m] /\ d = DigitOf[c]
    BY <2>1, DigitIs
  <2>6. PICK y \in Nat : y = v[k] /\ y = x * 10 + d
    BY <2>4, <2>5
  <2>7. CASE x <= max
    <3>1. u[m] = x
      BY <2>1, <2>5, <2>7, <1>5
    <3>2. WithDigit(x, c, max) = IF y <= max THEN y ELSE -1
      BY <2>5, <2>6, DigitTaken
    <3>3. u[k] = IF y <= max THEN y ELSE -1
      BY <3>1, <3>2, <2>3, Zenon
    <3> QED
      BY <3>3, <2>1, <2>6, Zenon
  <2>8. CASE ~(x <= max)
    <3>1. u[m] = -1
      BY <2>1, <2>5, <2>8, <1>5
    <3>2. u[k] = -1
      BY <3>1, <2>3, Zenon DEF WithDigit
    <3>3. ~(y <= max)
      BY <2>6, <2>8
    <3> QED
      BY <3>2, <3>3, <2>1, <2>6, Zenon
  <2> QED
    BY <2>7, <2>8
<1>6. n \in T
  <2> HIDE DEF T
  <2> QED
    BY <1>4, <1>5, NatClosed
<1> QED
  BY <1>1, <1>2, <1>3, <1>6

\* A character that is no digit makes it no number.
LEMMA OthersRefused ==
    ASSUME NEW b, NEW at \in Int, NEW max \in Nat, NEW s \in Seq(Chars), Holds(b, at, s),
           NEW k \in 1..Len(s), s[k] \notin Digits
    PROVE  Number(b, at, Len(s), max) = -1
<1>1. PICK n \in Nat : n = Len(s) /\ n > 0 /\ k \in 1..n /\ k \in 0..n /\ k # 0
  OBVIOUS
<1>2. PICK u : Reads(b, at, n, max, u) /\ Number(b, at, n, max) = u[n]
  BY <1>1, NumberIs
<1> DEFINE T == {m \in Nat : k + m <= n => u[k + m] = -1}
<1>3. 0 \in T
  <2>1. u[k] = WithDigit(u[k - 1], b[at + k - 1], max)
    BY <1>1, <1>2 DEF Reads
  <2>2. b[at + k - 1] \notin Digits
    BY <1>1 DEF Holds
  <2>3. u[k] = -1
    BY <2>1, <2>2, Zenon DEF WithDigit
  <2> QED
    BY <2>3
<1>4. ASSUME NEW m \in Nat, m \in T PROVE m + 1 \in T
  <2> SUFFICES ASSUME k + (m + 1) <= n PROVE u[k + (m + 1)] = -1
    OBVIOUS
  <2>1. PICK j \in 0..n : j = k + (m + 1) /\ j # 0 /\ j - 1 = k + m
    OBVIOUS
  <2>2. u[j - 1] = -1
    BY <2>1, <1>4
  <2>3. u[j] = WithDigit(u[j - 1], b[at + j - 1], max)
    BY <2>1, <1>2 DEF Reads
  <2>4. u[j] = -1
    BY <2>2, <2>3, Zenon DEF WithDigit
  <2> QED
    BY <2>1, <2>4, Zenon
<1>5. n - k \in T
  <2>1. n - k \in Nat
    BY <1>1
  <2> HIDE DEF T
  <2> QED
    BY <2>1, <1>3, <1>4, NatClosed
<1>6. u[n] = -1
  BY <1>5
<1> QED
  BY <1>1, <1>2, <1>6

\* Number: what n bytes are read as.
LEMMA NumberExact ==
    ASSUME NEW b, NEW at \in Int, NEW max \in Nat, NEW s \in Seq(Chars), Holds(b, at, s)
    PROVE  /\ IsNumeral(s) => Value(s) \in Nat
           /\ Number(b, at, Len(s), max) = IF IsNumeral(s) /\ Value(s) <= max THEN Value(s) ELSE -1
<1>1. CASE s = <<>>
  <2>1. Len(s) = 0 /\ ~IsNumeral(s)
    BY <1>1 DEF IsNumeral
  <2>2. Number(b, at, Len(s), max) = -1
    BY <2>1, Zenon DEF Number
  <2> QED
    BY <2>1, <2>2
<1>2. CASE s # <<>> /\ IsNumeral(s)
  <2>1. s \in Seq(Digits)
    <3>1. PICK n \in Nat : n = Len(s) /\ DOMAIN s = 1..n /\ s = [k \in 1..n |-> s[k]]
      OBVIOUS
    <3>2. \A k \in 1..n : s[k] \in Digits
      BY <3>1, <1>2 DEF IsNumeral
    <3> QED
      BY <3>1, <3>2
  <2>2. /\ Value(s) \in Nat
        /\ Number(b, at, Len(s), max) = IF Value(s) <= max THEN Value(s) ELSE -1
    BY <2>1, <1>2, DigitsRead
  <2> QED
    BY <2>2, <1>2
<1>3. CASE s # <<>> /\ ~IsNumeral(s)
  <2>0. DOMAIN s = 1..Len(s)
    OBVIOUS
  <2>1. PICK k \in 1..Len(s) : s[k] \notin Digits
    BY <2>0, <1>3, Zenon DEF IsNumeral
  <2>2. Number(b, at, Len(s), max) = -1
    BY <2>1, OthersRefused
  <2> QED
    BY <2>2, <1>3
<1> QED
  BY <1>1, <1>2, <1>3

(***************************************************************************)
(* Sizes.                                                                  *)
(***************************************************************************)
\* The factor of a suffix is positive, and 1 only without one.
LEMMA ScaleIs ==
    ASSUME NEW c
    PROVE  Scale(c) \in Nat /\ Scale(c) > 0
<1>1. PICK k \in Nat : k = KILO /\ k > 1
  BY ValuesAssumption
<1>2. k * k \in Nat /\ k * k > 0
  BY <1>1, Z3
<1>3. k * k * k \in Nat /\ k * k * k > 0
  <2>1. PICK q \in Nat : q = k * k /\ q > 0
    BY <1>2
  <2>2. q * k \in Nat /\ q * k > 0
    BY <1>1, <2>1, Z3
  <2> QED
    BY <2>1, <2>2, Zenon
<1>4. \/ Scale(c) = k \/ Scale(c) = k * k \/ Scale(c) = k * k * k \/ Scale(c) = 1
  BY <1>1 DEF Scale
<1> QED
  BY <1>1, <1>2, <1>3, <1>4

\* The characters of a size without its suffix.
LEMMA MantissaIs ==
    ASSUME NEW s \in Seq(Chars), s # <<>>
    PROVE  /\ Mantissa(s) \in Seq(Chars)
           /\ Len(Mantissa(s)) = IF Scale(s[Len(s)]) = 1 THEN Len(s) ELSE Len(s) - 1
           /\ Holds(Bytes(s), 0, Mantissa(s))
           /\ Unit(s) = Scale(s[Len(s)])
<1>1. PICK n \in Nat : n = Len(s) /\ n > 0 /\ n - 1 \in Nat
  OBVIOUS
<1>2. \A k \in 1..n : Bytes(s)[k - 1] = s[k] /\ s[k] \in Chars
  BY <1>1, BytesAre
<1>3. \A k \in 1..n : 0 + k - 1 = k - 1
  OBVIOUS
<1>4. CASE Scale(s[Len(s)]) = 1
  <2>1. Mantissa(s) = s /\ Unit(s) = 1
    BY <1>4, Zenon DEF Mantissa, Unit, HasSuffix
  <2> QED
    BY <2>1, <1>1, <1>2, <1>3, <1>4 DEF Holds
<1>5. CASE Scale(s[Len(s)]) # 1
  <2>1. Mantissa(s) = Front(s) /\ Unit(s) = Scale(s[Len(s)])
    BY <1>5, Zenon DEF Mantissa, Unit, HasSuffix
  <2>2. Front(s) = [k \in 1..(n - 1) |-> s[k]]
    BY <1>1 DEF Front
  <2>3. Front(s) \in Seq(Chars) /\ Len(Front(s)) = n - 1
    BY <2>2, <1>1, <1>2
  <2>4. ASSUME NEW k \in 1..(n - 1) PROVE Bytes(s)[0 + k - 1] = Front(s)[k]
    BY <2>2, <1>1, <1>2, <1>3
  <2>5. Holds(Bytes(s), 0, Front(s))
    BY <2>3, <2>4 DEF Holds
  <2> QED
    BY <2>1, <2>3, <2>5, <1>1, <1>5
<1> QED
  BY <1>4, <1>5

\* fpx_config_parse_size: the number times its unit if that fits.
LEMMA SizeIs ==
    ASSUME NEW s \in Seq(Chars)
    PROVE  /\ IsNumeral(Mantissa(s)) => Value(Mantissa(s)) * Unit(s) \in Nat
           /\ fpx_config_parse_size(s) =
                  IF IsNumeral(Mantissa(s)) /\ Value(Mantissa(s)) * Unit(s) <= SSIZE_MAX
                  THEN Value(Mantissa(s)) * Unit(s) ELSE -1
<1> DEFINE b == Bytes(s)
           m == Mantissa(s)
<1>0. SSIZE_MAX \in Nat
  BY ValuesAssumption
<1>1. PICK n \in Nat : n = Len(s)
  OBVIOUS
<1>2. fpx_strlen(b) = n
  BY <1>1, StrlenIs
<1>3. CASE s = <<>>
  <2>1. n = 0
    BY <1>1, <1>3
  <2>2. fpx_config_parse_size(s) = -1
    BY <2>1, <1>2, Zenon DEF fpx_config_parse_size
  <2>3. ~IsNumeral(m)
    BY <1>3, Zenon DEF Mantissa, HasSuffix, IsNumeral
  <2> QED
    BY <2>2, <2>3, Zenon
<1>4. CASE s # <<>>
  <2>1. n # 0 /\ n - 1 \in Nat /\ n \in 1..n
    BY <1>1, <1>4
  <2>2. b[n - 1] = s[n]
    BY <2>1, <1>1, BytesAre
  <2>3. PICK f \in Nat : f = Scale(s[n]) /\ f > 0
    BY ScaleIs
  <2>4. /\ m \in Seq(Chars) /\ Len(m) = IF f = 1 THEN n ELSE n - 1
        /\ Holds(b, 0, m) /\ Unit(s) = f
    BY <2>3, <1>1, <1>4, MantissaIs
  <2> DEFINE size == Number(b, 0, Len(m), SSIZE_MAX)
  <2>5. fpx_config_parse_size(s) =
          IF size = -1 \/ size > SSIZE_MAX \div f THEN -1 ELSE Wrapped(size * f, SSIZE_MAX)
    <3>1. fpx_strlen(Bytes(s)) = n
      BY <1>2
    <3>2. Scale(Bytes(s)[n - 1]) = f
      BY <2>2, <2>3
    <3>3. size = fpx_atosz(Bytes(s), IF f = 1 THEN n ELSE n - 1)
      BY <2>4, Zenon DEF fpx_atosz
    <3> HIDE DEF size, b, m
    <3> QED
      BY <3>1, <3>2, <3>3, <2>1, Zenon DEF fpx_config_parse_size, SizeLimit
  <2>6. /\ IsNumeral(m) => Value(m) \in Nat
        /\ size = IF IsNumeral(m) /\ Value(m) <= SSIZE_MAX THEN Value(m) ELSE -1
    BY <2>4, <1>0, NumberExact, 0 \in Int
  <2> HIDE DEF size, b, m
  <2>7. CASE ~IsNumeral(m)
    <3>1. size = -1
      BY <2>6, <2>7, Zenon
    <3> QED
      BY <3>1, <2>5, <2>7, Zenon DEF m
  <2>8. CASE IsNumeral(m)
    <3>1. PICK x \in Nat : x = Value(m)
      BY <2>6, <2>8
    <3>2. PICK y \in Nat : y = x * f /\ x <= y
      <4>1. x * f \in Nat /\ x <= x * f
        BY <2>3, Z3
      <4> QED
        BY <4>1
    <3>3. x > SSIZE_MAX \div f <=> y > SSIZE_MAX
      <4>1. PICK w \in Nat : w = SSIZE_MAX
        BY <1>0
      <4>2. x > w \div f <=> x * f > w
        BY <2>3, Quotient
      <4> QED
        BY <4>1, <4>2, <3>2, Zenon
    <3>4. CASE y <= SSIZE_MAX
      <4>1. size = x
        BY <3>1, <3>2, <3>4, <2>6, <2>8, <1>0
      <4>2. size # -1 /\ ~(size > SSIZE_MAX \div f)
        BY <4>1, <3>2, <3>3, <3>4, <1>0
      <4>3. Wrapped(y, SSIZE_MAX) = y
        BY <3>4, <1>0, InWidth
      <4>4. fpx_config_parse_size(s) = y
        BY <4>1, <4>2, <4>3, <3>2, <2>5, Zenon
      <4> QED
        BY <4>4, <3>1, <3>2, <3>4, <2>4, <2>8, Zenon DEF m
    <3>5. CASE ~(y <= SSIZE_MAX)
      <4>1. size = -1 \/ size > SSIZE_MAX \div f
        <5>1. size = IF x <= SSIZE_MAX THEN x ELSE -1
          BY <3>1, <2>6, <2>8, Zenon
        <5>2. x > SSIZE_MAX \div f
          BY <3>2, <3>3, <3>5, <1>0
        <5> QED
          BY <5>1, <5>2, Zenon
      <4>2. fpx_config_parse_size(s) = -1
        BY <4>1, <2>5, Zenon
      <4> QED
        BY <4>2, <3>1, <3>2, <3>5, <2>4, <2>8, Zenon DEF m
    <3> QED
      BY <3>4, <3>5
  <2> QED
    BY <2>7, <2>8
<1> QED
  BY <1>3, <1>4

\* str stays a string of the alphabet.
LEMMA Strings ==
    EveryString => [](str \in Seq(Chars))
<1>1. FirstString => str \in Seq(Chars)
  BY DEF FirstString
<1>2. str \in Seq(Chars) /\ [NextString]_str => (str \in Seq(Chars))'
  BY DEF NextString
<1> QED
  BY <1>1, <1>2, PTL DEF EveryString

\* For every width and every string, however long: fpx_handler_size stores the
\* number that the digits stand for times the factor of the suffix if that
\* fits a ssize_t, and refuses everything else; nothing ever wraps.
THEOREM SizesExact ==
    EveryString => []SizeExactOrRefused
<1>1. str \in Seq(Chars) => SizeExactOrRefused
  <2> SUFFICES ASSUME str \in Seq(Chars) PROVE SizeExactOrRefused
    OBVIOUS
  <2> DEFINE x == Value(Mantissa(str)) * Unit(str)
             ok == IsNumeral(Mantissa(str)) /\ x <= SSIZE_MAX
  <2>1. (IsNumeral(Mantissa(str)) => x \in Nat) /\ fpx_config_parse_size(str) = IF ok THEN x ELSE -1
    BY SizeIs
  <2>2. ok => x # -1
    BY <2>1
  <2> QED
    BY <2>1, <2>2, Zenon DEF SizeExactOrRefused, fpx_handler_size, Stored, Refused
<1> QED
  BY <1>1, Strings, PTL

(***************************************************************************)
(* Addresses.                                                              *)
(***************************************************************************)
\* The loop back over the digits stops at the last character that is none.
LEMMA BackIs ==
    ASSUME NEW b, NEW n \in Nat
    PROVE  \E p \in -1..(n - 1) :
              /\ BeforeDigits(b, n - 1) = p
              /\ \A j \in (p + 1)..(n - 1) : b[j] \in Digits
              /\ p >= 0 => b[p] \notin Digits
<1> DEFINE V == Int
           D == -1..(n - 1)
           st == [k \in 1..n |-> [x \in V |-> IF b[k - 1] \in Digits THEN x ELSE k - 1]]
           f == CHOOSE g : g = [j \in D |-> IF j >= 0 /\ b[j] \in Digits THEN g[j - 1] ELSE j]
<1>1. st \in [1..n -> [V -> V]] /\ -1 \in V
  OBVIOUS
<1>2. ASSUME NEW k \in 1..n, NEW x \in V PROVE st[k][x] = IF b[k - 1] \in Digits THEN x ELSE k - 1
  OBVIOUS
<1> HIDE DEF st, V
<1>3. PICK v \in V : v = -1
  BY <1>1
<1>4. PICK h \in [0..n -> V] : Stepwise(n, v, st, h)
  BY <1>1, Iterates
<1>5. \E g : g = [j \in D |-> IF j >= 0 /\ b[j] \in Digits THEN g[j - 1] ELSE j]
  <2> DEFINE g == [j \in D |-> h[j + 1]]
  <2>1. ASSUME NEW j \in D PROVE g[j] = IF j >= 0 /\ b[j] \in Digits THEN g[j - 1] ELSE j
    <3>1. g[j] = h[j + 1]
      OBVIOUS
    <3>2. CASE j = -1
      <4>1. j + 1 = 0 /\ ~(j >= 0)
        BY <3>2
      <4>2. h[0] = v
        BY <1>4 DEF Stepwise
      <4> QED
        BY <4>1, <4>2, <3>1, <3>2, <1>3, Zenon
    <3>3. CASE j # -1
      <4>1. PICK k \in 1..n : k = j + 1 /\ k - 1 = j /\ k # 0 /\ k \in 0..n /\ j >= 0 /\ j \in 0..n
        BY <3>3
      <4>2. h[j] \in V
        BY <4>1
      <4>3. h[k] = st[k][h[j]]
        BY <4>1, <1>4 DEF Stepwise
      <4>4. h[k] = IF b[j] \in Digits THEN h[j] ELSE j
        BY <4>1, <4>2, <4>3, <1>2, Zenon
      <4>5. g[j - 1] = h[j]
        <5>1. j - 1 \in D /\ (j - 1) + 1 = j
          BY <4>1
        <5> QED
          BY <5>1
      <4> QED
        BY <4>1, <4>4, <4>5, <3>1, Zenon
    <3> QED
      BY <3>2, <3>3
  <2> HIDE DEF g
  <2>2. g = [j \in D |-> IF j >= 0 /\ b[j] \in Digits THEN g[j - 1] ELSE j]
    <3>1. DOMAIN g = D /\ g = [j \in D |-> g[j]]
      BY DEF g
    <3> QED
      BY <2>1, <3>1
  <2> QED
    BY <2>2, Zenon
<1>6. f = [j \in D |-> IF j >= 0 /\ b[j] \in Digits THEN f[j - 1] ELSE j]
  BY <1>5, Zenon
<1>7. BeforeDigits(b, n - 1) = f[n - 1]
  BY Zenon DEF BeforeDigits
<1> HIDE DEF f
<1> DEFINE Stops(m, p) == /\ p \in -1..(m - 1)
                          /\ \A j \in (p + 1)..(m - 1) : b[j] \in Digits
                          /\ p >= 0 => b[p] \notin Digits
           T == {m \in Nat : m <= n => Stops(m, f[m - 1])}
<1>8. 0 \in T
  <2>1. -1 \in D /\ ~(-1 >= 0) /\ 0 - 1 = -1
    OBVIOUS
  <2>2. f[-1] = -1
    BY <2>1, <1>6
  <2> QED
    BY <2>1, <2>2
<1>9. ASSUME NEW m \in Nat, m \in T PROVE m + 1 \in T
  <2> SUFFICES ASSUME m + 1 <= n PROVE Stops(m + 1, f[(m + 1) - 1])
    OBVIOUS
  <2>1. m \in D /\ (m + 1) - 1 = m /\ m >= 0
    OBVIOUS
  <2>2. f[m] = IF b[m] \in Digits THEN f[m - 1] ELSE m
    BY <2>1, <1>6
  <2>3. CASE b[m] \in Digits
    <3>1. PICK p \in -1..(m - 1) : p = f[m - 1] /\ Stops(m, p)
      BY <1>9
    <3>2. f[m] = p
      BY <2>2, <2>3, <3>1
    <3>3. Stops(m + 1, p)
      <4>1. ASSUME NEW j \in (p + 1)..((m + 1) - 1) PROVE b[j] \in Digits
        <5>1. j = m \/ j \in (p + 1)..(m - 1)
          OBVIOUS
        <5> QED
          BY <5>1, <3>1, <2>3
      <4>2. p \in -1..((m + 1) - 1)
        OBVIOUS
      <4> QED
        BY <4>1, <4>2, <3>1
    <3> QED
      BY <3>2, <3>3, <2>1, Zenon
  <2>4. CASE b[m] \notin Digits
    <3>1. f[m] = m
      BY <2>2, <2>4
    <3>2. Stops(m + 1, m)
      BY <2>4
    <3> QED
      BY <3>1, <3>2, <2>1, Zenon
  <2> QED
    BY <2>3, <2>4
<1>10. n \in T
  <2> HIDE DEF T
  <2> QED
    BY <1>8, <1>9, NatClosed
<1> QED
  BY <1>7, <1>10

\* c is first found at p.
FirstAt(s, c, p) == p \in 1..Len(s) /\ s[p] = c /\ \A j \in 1..(p - 1) : s[j] # c

\* fpx_strchr finds the first c, and NULL only if there is none.
LEMMA StrchrIs ==
    ASSUME NEW s \in Seq(Chars), NEW c
    PROVE  \/ fpx_strchr(Bytes(s), c) = NULL /\ \A j \in 1..Len(s) : s[j] # c
           \/ \E p \in 1..Len(s) : FirstAt(s, c, p) /\ fpx_strchr(Bytes(s), c) = p - 1
<1> DEFINE V == Int
           b == Bytes(s)
<1>1. PICK n \in Nat : n = Len(s)
  OBVIOUS
<1> DEFINE st == [k \in 1..n |-> [x \in V |-> IF b[n - k] = c THEN n - k ELSE x]]
           f == CHOOSE g : g = [j \in 0..n |-> IF j = n THEN NULL ELSE IF b[j] = c THEN j ELSE g[j + 1]]
<1>2. st \in [1..n -> [V -> V]] /\ NULL \in V
  BY DEF NULL
<1>3. ASSUME NEW k \in 1..n, NEW x \in V PROVE st[k][x] = IF b[n - k] = c THEN n - k ELSE x
  OBVIOUS
<1>4. \A j \in 1..n : b[j - 1] = s[j]
  BY <1>1, BytesAre
<1>5. fpx_strlen(b) = n
  BY <1>1, StrlenIs
<1> HIDE DEF st, V, b
<1>6. PICK v \in V : v = NULL
  BY <1>2
<1>7. PICK h \in [0..n -> V] : Stepwise(n, v, st, h)
  BY <1>2, Iterates
<1>8. \E g : g = [j \in 0..n |-> IF j = n THEN NULL ELSE IF b[j] = c THEN j ELSE g[j + 1]]
  <2> DEFINE g == [j \in 0..n |-> h[n - j]]
  <2>1. ASSUME NEW j \in 0..n PROVE g[j] = IF j = n THEN NULL ELSE IF b[j] = c THEN j ELSE g[j + 1]
    <3>1. g[j] = h[n - j]
      OBVIOUS
    <3>2. CASE j = n
      <4>1. n - j = 0
        BY <3>2
      <4>2. h[0] = v
        BY <1>7 DEF Stepwise
      <4> QED
        BY <4>1, <4>2, <3>1, <3>2, <1>6, Zenon
    <3>3. CASE j # n
      <4>1. PICK k \in 1..n : k = n - j /\ n - k = j /\ k # 0 /\ k \in 0..n /\ k - 1 \in 0..n
        BY <3>3
      <4>2. h[k - 1] \in V
        BY <4>1
      <4>3. h[k] = st[k][h[k - 1]]
        BY <4>1, <1>7 DEF Stepwise
      <4>4. h[k] = IF b[j] = c THEN j ELSE h[k - 1]
        BY <4>1, <4>2, <4>3, <1>3, Zenon
      <4>5. g[j + 1] = h[k - 1]
        <5>1. j + 1 \in 0..n /\ n - (j + 1) = k - 1
          BY <4>1, <3>3
        <5> QED
          BY <5>1
      <4> QED
        BY <4>1, <4>4, <4>5, <3>1, <3>3, Zenon
    <3> QED
      BY <3>2, <3>3
  <2> HIDE DEF g
  <2>2. g = [j \in 0..n |-> IF j = n THEN NULL ELSE IF b[j] = c THEN j ELSE g[j + 1]]
    <3>1. DOMAIN g = 0..n /\ g = [j \in 0..n |-> g[j]]
      BY DEF g
    <3> QED
      BY <2>1, <3>1
  <2> QED
    BY <2>2, Zenon
<1>9. f = [j \in 0..n |-> IF j = n THEN NULL ELSE IF b[j] = c THEN j ELSE f[j + 1]]
  BY <1>8, Zenon
<1>10. fpx_strchr(b, c) = f[0]
  BY <1>5, Zenon DEF fpx_strchr
<1> HIDE DEF f
<1> DEFINE Finds(a, p) == \/ p = NULL /\ \A j \in (a + 1)..n : s[j] # c
                          \/ /\ p \in a..(n - 1) /\ s[p + 1] = c
                             /\ \A j \in (a + 1)..p : s[j] # c
           T == {m \in Nat : m <= n => Finds(n - m, f[n - m])}
<1>11. 0 \in T
  <2>1. n \in 0..n /\ n - 0 = n
    OBVIOUS
  <2>2. f[n] = NULL
    BY <2>1, <1>9
  <2> QED
    BY <2>1, <2>2
<1>12. ASSUME NEW m \in Nat, m \in T PROVE m + 1 \in T
  <2> SUFFICES ASSUME m + 1 <= n PROVE Finds(n - (m + 1), f[n - (m + 1)])
    OBVIOUS
  <2>1. PICK a \in 0..n : a = n - (m + 1) /\ a # n /\ a + 1 = n - m /\ a + 1 \in 1..n /\ (a + 1) - 1 = a
    OBVIOUS
  <2>2. b[a] = s[a + 1]
    BY <2>1, <1>4
  <2>3. f[a] = IF s[a + 1] = c THEN a ELSE f[a + 1]
    BY <2>1, <2>2, <1>9
  <2>4. Finds(a + 1, f[a + 1])
    BY <2>1, <1>12
  <2>5. Finds(a, f[a])
    <3>1. CASE s[a + 1] = c
      <4>1. f[a] = a
        BY <2>3, <3>1
      <4>2. a \in a..(n - 1) /\ \A j \in (a + 1)..a : s[j] # c
        BY <2>1
      <4> QED
        BY <4>1, <4>2, <3>1
    <3>2. CASE s[a + 1] # c
      <4>1. f[a] = f[a + 1]
        BY <2>3, <3>2
      <4>2. CASE f[a + 1] = NULL /\ \A j \in ((a + 1) + 1)..n : s[j] # c
        <5>1. \A j \in (a + 1)..n : j = a + 1 \/ j \in ((a + 1) + 1)..n
          OBVIOUS
        <5>2. \A j \in (a + 1)..n : s[j] # c
          BY <5>1, <4>2, <3>2
        <5> QED
          BY <5>2, <4>1, <4>2
      <4>3. CASE /\ f[a + 1] \in (a + 1)..(n - 1) /\ s[f[a + 1] + 1] = c
                 /\ \A j \in ((a + 1) + 1)..f[a + 1] : s[j] # c
        <5>1. PICK p \in (a + 1)..(n - 1) : p = f[a + 1]
          BY <4>3
        <5>2. \A j \in (a + 1)..p : j = a + 1 \/ j \in ((a + 1) + 1)..p
          OBVIOUS
        <5>3. \A j \in (a + 1)..p : s[j] # c
          BY <5>1, <5>2, <4>3, <3>2
        <5>4. p \in a..(n - 1) /\ s[p + 1] = c
          BY <5>1, <4>3
        <5> QED
          BY <5>1, <5>3, <5>4, <4>1
      <4> QED
        BY <4>2, <4>3, <2>4
    <3> QED
      BY <3>1, <3>2
  <2> QED
    BY <2>1, <2>5, Zenon
<1>13. Finds(n - n, f[n - n])
  <2>1. n \in T
    <3> HIDE DEF T
    <3> QED
      BY <1>11, <1>12, NatClosed
  <2> QED
    BY <2>1
<1>14. n - n = 0 /\ 0 + 1 = 1
  OBVIOUS
<1>15. Finds(0, f[0])
  BY <1>13, <1>14
<1>16. CASE f[0] = NULL /\ \A j \in 1..n : s[j] # c
  BY <1>16, <1>1, <1>10 DEF b
<1>17. CASE f[0] \in 0..(n - 1) /\ s[f[0] + 1] = c /\ \A j \in 1..f[0] : s[j] # c
  <2>1. PICK p \in 1..n : p = f[0] + 1 /\ p - 1 = f[0]
    BY <1>17
  <2>2. FirstAt(s, c, p)
    BY <2>1, <1>1, <1>17 DEF FirstAt
  <2> QED
    BY <2>1, <2>2, <1>1, <1>10 DEF b
<1> QED
  BY <1>14, <1>15, <1>16, <1>17

\* An address without its port is a beginning of the value.
LEMMA BeginningIs ==
    ASSUME NEW s \in Seq(Chars), NEW e \in 1..Len(s)
    PROVE  /\ SubSeq(s, 1, e) = [j \in 1..e |-> s[j]]
           /\ SubSeq(s, 1, e) \in Seq(Chars)
           /\ Len(SubSeq(s, 1, e)) = e /\ DOMAIN SubSeq(s, 1, e) = 1..e
           /\ \A j \in 1..e : SubSeq(s, 1, e)[j] = s[j]
  OBVIOUS

\* The first bracket that closes is the same one in the address.
LEMMA HostIs ==
    ASSUME NEW a \in Seq(Chars), a[1] = "[", NEW p \in 1..Len(a), FirstAt(a, "]", p)
    PROVE  Host(a) = SubSeq(a, 2, p - 1)
<1> DEFINE First(k) == a[k] = "]" /\ \A j \in 1..(k - 1) : a[j] # "]"
           q == CHOOSE k \in DOMAIN a : First(k)
<1>1. PICK n \in Nat : n = Len(a) /\ DOMAIN a = 1..n /\ p \in 1..n
  OBVIOUS
<1>2. First(p)
  BY DEF FirstAt
<1>3. q \in 1..n /\ First(q)
  BY <1>1, <1>2
<1>4. Host(a) = SubSeq(a, 2, q - 1)
  BY Zenon DEF Host
<1> HIDE DEF q
<1>5. ~(p < q)
  <2> SUFFICES ASSUME p < q PROVE FALSE
    OBVIOUS
  <2>1. p \in 1..(q - 1)
    BY <1>1, <1>3
  <2> QED
    BY <2>1, <1>2, <1>3
<1>6. ~(q < p)
  <2> SUFFICES ASSUME q < p PROVE FALSE
    OBVIOUS
  <2>1. q \in 1..(p - 1)
    BY <1>1, <1>3
  <2> QED
    BY <2>1, <1>2, <1>3
<1>7. p = q
  BY <1>1, <1>3, <1>5, <1>6
<1> QED
  BY <1>4, <1>7, Zenon

\* What AddressUpTo makes of the first e characters, if no bracket closes
\* behind them.
LEMMA AddressIs ==
    ASSUME NEW s \in Seq(Chars), NEW e \in 1..Len(s), NEW given,
           \A j \in (e + 1)..Len(s) : s[j] # "]"
    PROVE  AddressUpTo(Bytes(s), e - 1, given) =
               IF BracketsOK(SubSeq(s, 1, e))
               THEN Address(Family(SubSeq(s, 1, e)), Host(SubSeq(s, 1, e)), given)
               ELSE FPX_ADDR_INVALID
<1> DEFINE b == Bytes(s)
           a == SubSeq(s, 1, e)
           close == fpx_strchr(b, "]")
<1>1. PICK n \in Nat : n = Len(s) /\ e \in 1..n /\ 1 \in 1..n
  OBVIOUS
<1>2. \A j \in 1..n : b[j - 1] = s[j] /\ s[j] \in Chars
  BY <1>1, BytesAre
<1>3. /\ a = [j \in 1..e |-> s[j]] /\ a \in Seq(Chars) /\ Len(a) = e /\ DOMAIN a = 1..e
      /\ \A j \in 1..e : a[j] = s[j]
  BY BeginningIs
<1>4. b[0] = a[1] /\ b[e - 1] = a[e]
  <2>1. 1 \in 1..e /\ e \in 1..e /\ 1 - 1 = 0
    BY <1>1
  <2>2. a[1] = s[1] /\ a[e] = s[e]
    BY <2>1, <1>3, Zenon
  <2>3. b[0] = s[1] /\ b[e - 1] = s[e]
    BY <2>1, <1>1, <1>2
  <2> QED
    BY <2>2, <2>3
<1>5. \/ close = NULL /\ \A j \in 1..n : s[j] # "]"
      \/ \E p \in 1..n : FirstAt(s, "]", p) /\ close = p - 1
  BY <1>1, StrchrIs
<1>6. AddressUpTo(b, e - 1, given) =
        IF b[0] = "["
        THEN IF close = NULL \/ b[e - 1] # "]" THEN FPX_ADDR_INVALID
             ELSE Address("IPv6", Between(b, 1, close - 1), given)
        ELSE IF close # NULL THEN FPX_ADDR_INVALID
        ELSE Address("IPv4", Between(b, 0, e - 1), given)
  BY Zenon DEF AddressUpTo
<1> HIDE DEF b, a, close
<1>7. CASE a[1] = "["
  <2>1. BracketsOK(a) <=> a[e] = "]"
    BY <1>3, <1>7, Zenon DEF BracketsOK
  <2>2. CASE a[e] # "]"
    BY <2>1, <2>2, <1>4, <1>6, <1>7, Zenon DEF a, b
  <2>3. CASE a[e] = "]"
    <3>1. s[e] = "]"
      BY <2>3, <1>1, <1>3
    <3>2. PICK p \in 1..n : FirstAt(s, "]", p) /\ close = p - 1
      BY <3>1, <1>1, <1>5
    <3>3. p \in 1..e
      <4>1. ~(e < p)
        <5> SUFFICES ASSUME e < p PROVE FALSE
          OBVIOUS
        <5>1. e \in 1..(p - 1)
          BY <1>1
        <5> QED
          BY <5>1, <3>1, <3>2 DEF FirstAt
      <4> QED
        BY <4>1, <1>1
    <3>4. FirstAt(a, "]", p)
      <4>1. s[p] = "]" /\ \A j \in 1..(p - 1) : s[j] # "]"
        BY <3>2 DEF FirstAt
      <4>2. \A j \in 1..(p - 1) : j \in 1..e
        BY <3>3, <1>1
      <4>3. a[p] = "]" /\ \A j \in 1..(p - 1) : a[j] # "]"
        BY <4>1, <4>2, <3>3, <1>3
      <4> QED
        BY <4>3, <3>3, <1>3, Zenon DEF FirstAt
    <3>5. Host(a) = SubSeq(a, 2, p - 1)
      BY <3>3, <3>4, <1>3, <1>7, HostIs
    <3>6. Between(b, 1, close - 1) = SubSeq(a, 2, p - 1)
      <4>1. PICK q \in Nat : q = p - 1 /\ q <= e
        BY <3>3, <1>1
      <4>2. (close - 1) - 1 + 1 = q - 1
        BY <3>2, <4>1
      <4>3. Between(b, 1, close - 1) = [k \in 1..(q - 1) |-> b[1 + k - 1]]
        BY <4>2, Zenon DEF Between
      <4>4. SubSeq(a, 2, q) = [k \in 1..(q - 1) |-> a[k + 1]]
        BY <4>1, <1>3
      <4>5. ASSUME NEW k \in 1..(q - 1) PROVE b[1 + k - 1] = a[k + 1]
        <5>1. k + 1 \in 1..e /\ k + 1 \in 1..n /\ (k + 1) - 1 = 1 + k - 1
          BY <4>1, <1>1
        <5>2. b[(k + 1) - 1] = s[k + 1] /\ a[k + 1] = s[k + 1]
          BY <5>1, <1>2, <1>3
        <5> QED
          BY <5>1, <5>2, Zenon
      <4>6. Between(b, 1, close - 1) = SubSeq(a, 2, q)
        BY <4>3, <4>4, <4>5
      <4> QED
        BY <4>1, <4>6, Zenon
    <3>7. close # NULL
      BY <3>2 DEF NULL
    <3>8. Family(a) = "IPv6"
      BY <1>7, Zenon DEF Family
    <3> QED
      BY <3>5, <3>6, <3>7, <3>8, <2>1, <2>3, <1>4, <1>6, <1>7, Zenon DEF a, b
  <2> QED
    BY <2>2, <2>3
<1>8. CASE a[1] # "["
  <2>1. BracketsOK(a) <=> \A j \in 1..e : s[j] # "]"
    BY <1>3, <1>8, Zenon DEF BracketsOK
  <2>2. \A j \in 1..n : j \in 1..e \/ j \in (e + 1)..n
    BY <1>1
  <2>3. BracketsOK(a) <=> close = NULL
    <3>1. ASSUME BracketsOK(a) PROVE close = NULL
      <4>1. \A j \in 1..n : s[j] # "]"
        BY <3>1, <2>1, <2>2, <1>1
      <4> QED
        BY <4>1, <1>5 DEF FirstAt
    <3>2. ASSUME close = NULL PROVE BracketsOK(a)
      <4>1. \A j \in 1..n : s[j] # "]"
        BY <3>2, <1>5 DEF NULL
      <4>2. \A j \in 1..e : j \in 1..n
        BY <1>1
      <4> QED
        BY <4>1, <4>2, <2>1
    <3> QED
      BY <3>1, <3>2
  <2>4. Host(a) = a /\ Family(a) = "IPv4"
    BY <1>8, Zenon DEF Host, Family
  <2>5. Between(b, 0, e - 1) = a
    <3>1. (e - 1) - 0 + 1 = e
      BY <1>1
    <3>2. Between(b, 0, e - 1) = [k \in 1..e |-> b[0 + k - 1]]
      BY <3>1, Zenon DEF Between
    <3>3. ASSUME NEW k \in 1..e PROVE b[0 + k - 1] = s[k]
      <4>1. k \in 1..n /\ 0 + k - 1 = k - 1
        BY <1>1
      <4> QED
        BY <4>1, <1>2
    <3> QED
      BY <3>2, <3>3, <1>3
  <2> QED
    BY <2>3, <2>4, <2>5, <1>4, <1>6, <1>8, Zenon DEF a, b
<1> QED
  BY <1>7, <1>8 DEF a, b

\* A port in its range is read as the number it stands for.
LEMMA PortIs ==
    ASSUME NEW b, NEW at \in Int, NEW s \in Seq(Chars), Holds(b, at, s)
    PROVE  /\ InRange(fpx_atoi(b, at, Len(s))) <=> IsNumeral(s) /\ InRange(Value(s))
           /\ InRange(fpx_atoi(b, at, Len(s))) => fpx_atoi(b, at, Len(s)) = Value(s)
<1> DEFINE z == fpx_atoi(b, at, Len(s))
<1>1. PICK w \in Nat : w = INT_MAX /\ PORT_MAX \in 1..w
  BY ValuesAssumption
<1>2. /\ IsNumeral(s) => Value(s) \in Nat
      /\ Number(b, at, Len(s), w) = IF IsNumeral(s) /\ Value(s) <= w THEN Value(s) ELSE -1
  BY NumberExact
<1>3. z = IF IsNumeral(s) /\ Value(s) <= w THEN Value(s) ELSE -1
  BY <1>1, <1>2, Zenon DEF fpx_atoi
<1> HIDE DEF z
<1>4. CASE IsNumeral(s) /\ Value(s) <= w
  <2>1. z = Value(s)
    BY <1>3, <1>4, Zenon
  <2> QED
    BY <2>1, <1>4, Zenon DEF z
<1>5. CASE ~(IsNumeral(s) /\ Value(s) <= w)
  <2>1. z = -1
    BY <1>3, <1>5, Zenon
  <2>2. ~InRange(z)
    BY <2>1 DEF InRange
  <2>3. ~(IsNumeral(s) /\ InRange(Value(s)))
    BY <1>1, <1>2, <1>5 DEF InRange
  <2> QED
    BY <2>2, <2>3, Zenon DEF z
<1> QED
  BY <1>4, <1>5

\* The characters behind k, and the bytes that hold them.
LEMMA BehindIs ==
    ASSUME NEW s \in Seq(Chars), NEW k \in 0..Len(s)
    PROVE  /\ SubSeq(s, k + 1, Len(s)) \in Seq(Chars)
           /\ Len(SubSeq(s, k + 1, Len(s))) = Len(s) - k
           /\ Holds(Bytes(s), k, SubSeq(s, k + 1, Len(s)))
           /\ IsNumeral(SubSeq(s, k + 1, Len(s))) <=>
                 k < Len(s) /\ \A j \in (k + 1)..Len(s) : s[j] \in Digits
<1> DEFINE t == SubSeq(s, k + 1, Len(s))
<1>1. PICK n \in Nat : n = Len(s) /\ k \in 0..n /\ n - k \in Nat
  OBVIOUS
<1>2. t = [j \in 1..(n - k) |-> s[k + j]]
  BY <1>1
<1>3. \A j \in 1..n : s[j] \in Chars /\ Bytes(s)[j - 1] = s[j]
  BY <1>1, BytesAre
<1>4. \A j \in 1..(n - k) : k + j \in 1..n
  BY <1>1
<1>5. t \in Seq(Chars) /\ Len(t) = n - k /\ DOMAIN t = 1..(n - k)
  BY <1>1, <1>2, <1>3, <1>4
<1> HIDE DEF t
<1>6. Holds(Bytes(s), k, t)
  <2>1. ASSUME NEW j \in 1..(n - k) PROVE Bytes(s)[k + j - 1] = t[j]
    <3>1. k + j \in 1..n /\ (k + j) - 1 = k + j - 1
      BY <1>1
    <3> QED
      BY <3>1, <1>2, <1>3
  <2> QED
    BY <2>1, <1>5 DEF Holds
<1>7. IsNumeral(t) <=> k < n /\ \A j \in (k + 1)..n : s[j] \in Digits
  <2>1. t # <<>> <=> k < n
    BY <1>1, <1>5
  <2>2. ASSUME NEW j \in 1..(n - k) PROVE t[j] = s[k + j] /\ k + j \in (k + 1)..n
    BY <1>1, <1>2
  <2>3. ASSUME NEW j \in (k + 1)..n PROVE j - k \in 1..(n - k) /\ k + (j - k) = j
    BY <1>1
  <2>4. (\A j \in 1..(n - k) : t[j] \in Digits) <=> \A j \in (k + 1)..n : s[j] \in Digits
    <3>1. ASSUME \A j \in 1..(n - k) : t[j] \in Digits, NEW j \in (k + 1)..n PROVE s[j] \in Digits
      BY <3>1, <2>2, <2>3
    <3>2. ASSUME \A j \in (k + 1)..n : s[j] \in Digits, NEW j \in 1..(n - k) PROVE t[j] \in Digits
      BY <3>2, <2>2
    <3> QED
      BY <3>1, <3>2
  <2> QED
    BY <2>1, <2>4, <1>5, Zenon DEF IsNumeral
<1> QED
  BY <1>1, <1>5, <1>6, <1>7 DEF t

\* Digits alone are a port.
LEMMA PortAlone ==
    ASSUME NEW s \in Seq(Chars), BeforeDigits(Bytes(s), Len(s) - 1) = -1,
           \A j \in 0..(Len(s) - 1) : Bytes(s)[j] \in Digits
    PROVE  fpx_config_parse_addr_port(s) = AddrPortOf(s)
<1> DEFINE b == Bytes(s)
           z == fpx_atoi(b, 0, Len(s))
<1>1. PICK n \in Nat : n = Len(s)
  OBVIOUS
<1>2. SubSeq(s, 0 + 1, Len(s)) = s /\ 0 \in 0..Len(s)
  BY <1>1
<1>3. Holds(b, 0, s)
  BY <1>2, BehindIs
<1>4. IsNumeral(s) <=> n # 0
  <2>1. ASSUME NEW j \in 1..n PROVE s[j] \in Digits
    <3>1. j - 1 \in 0..(n - 1)
      OBVIOUS
    <3> QED
      BY <3>1, <1>1, BytesAre
  <2> QED
    BY <2>1, <1>1 DEF IsNumeral
<1>5. (InRange(z) <=> IsNumeral(s) /\ InRange(Value(s))) /\ (InRange(z) => z = Value(s))
  BY <1>3, PortIs, 0 \in Int
<1>6. fpx_config_parse_addr_port(s) =
        IF InRange(z) THEN Address("IPv4", <<"0.0.0.0">>, <<z>>) ELSE FPX_ADDR_INVALID
  <2>1. fpx_strlen(Bytes(s)) - 1 = n - 1
    BY <1>1, StrlenIs
  <2>2. BeforeDigits(Bytes(s), n - 1) = -1 /\ -1 < 0 /\ -1 + 1 = 0 /\ (n - 1) - (-1) = Len(s)
    BY <1>1
  <2> QED
    BY <2>1, <2>2, Zenon DEF fpx_config_parse_addr_port
<1>7. CASE n = 0
  <2>0. Len(s) = 0
    BY <1>1, <1>7
  <2>1. s = <<>>
    BY <2>0
  <2> QED
    BY <2>1, <1>4, <1>5, <1>6, <1>7, Zenon DEF AddrPortOf
<1>8. CASE n # 0
  BY <1>4, <1>5, <1>6, <1>8, Zenon DEF AddrPortOf
<1> QED
  BY <1>7, <1>8

\* A value whose last character that is no digit is the k-th.
LastOther(s, k) == /\ k \in 1..Len(s) /\ s[k] \notin Digits
              /\ \A j \in (k + 1)..Len(s) : s[j] \in Digits

\* Only there can it be cut.
LEMMA CutAt ==
    ASSUME NEW s \in Seq(Chars), NEW k \in 1..Len(s), LastOther(s, k)
    PROVE  /\ ~IsNumeral(s)
           /\ s[1] = ":" /\ IsNumeral(Tail(s)) <=> k = 1 /\ s[k] = ":" /\ k < Len(s)
           /\ Cuts(s) = IF 1 < k /\ s[k] = ":" /\ k < Len(s) THEN {k} ELSE {}
<1>1. PICK n \in Nat : n = Len(s) /\ k \in 1..n /\ DOMAIN s = 1..n /\ n > 0
  OBVIOUS
<1>2. s[k] \notin Digits /\ \A j \in (k + 1)..n : s[j] \in Digits
  BY <1>1 DEF LastOther
<1>3. ~IsNumeral(s)
  BY <1>1, <1>2 DEF IsNumeral
<1>4. ":" \notin Digits
  BY DEF Digits
<1>5. ASSUME NEW j \in 1..n
      PROVE  s[j] = ":" /\ IsNumeral(SubSeq(s, j + 1, n)) <=> j = k /\ s[k] = ":" /\ k < n
  <2>1. j \in 0..n
    OBVIOUS
  <2>2. IsNumeral(SubSeq(s, j + 1, n)) <=> j < n /\ \A m \in (j + 1)..n : s[m] \in Digits
    BY <2>1, <1>1, BehindIs
  <2>3. ASSUME s[j] = ":", j < n, \A m \in (j + 1)..n : s[m] \in Digits PROVE j = k
    <3>1. ~(k < j)
      <4>1. k < j => j \in (k + 1)..n
        BY <1>1
      <4> QED
        BY <4>1, <2>3, <1>2, <1>4
    <3>2. ~(j < k)
      <4>1. j < k => k \in (j + 1)..n
        BY <1>1
      <4> QED
        BY <4>1, <2>3, <1>2
    <3> QED
      BY <3>1, <3>2, <1>1
  <2>4. ASSUME s[j] = ":", IsNumeral(SubSeq(s, j + 1, n)) PROVE j = k /\ s[k] = ":" /\ k < n
    BY <2>2, <2>3, <2>4
  <2>5. ASSUME j = k, s[k] = ":", k < n PROVE s[j] = ":" /\ IsNumeral(SubSeq(s, j + 1, n))
    BY <2>2, <2>5, <1>2
  <2> QED
    BY <2>4, <2>5
<1>6. s[1] = ":" /\ IsNumeral(Tail(s)) <=> k = 1 /\ s[k] = ":" /\ k < n
  <2>1. Tail(s) = SubSeq(s, 1 + 1, n) /\ 1 \in 1..n
    BY <1>1
  <2>2. s[1] = ":" /\ IsNumeral(SubSeq(s, 1 + 1, n)) <=> 1 = k /\ s[k] = ":" /\ k < n
    BY <2>1, <1>5
  <2> QED
    BY <2>1, <2>2, Zenon
<1>7. Cuts(s) = IF 1 < k /\ s[k] = ":" /\ k < n THEN {k} ELSE {}
  <2>1. Cuts(s) = {j \in 2..(n - 1) : s[j] = ":" /\ IsNumeral(SubSeq(s, j + 1, n))}
    BY <1>1, Zenon DEF Cuts
  <2>2. \A j \in 2..(n - 1) : j \in 1..n
    BY <1>1
  <2>3. \A j : j \in Cuts(s) <=> j \in 2..(n - 1) /\ j = k /\ s[k] = ":" /\ k < n
    BY <2>1, <2>2, <1>5, Zenon
  <2>4. k \in 2..(n - 1) <=> 1 < k /\ k < n
    BY <1>1
  <2>5. CASE 1 < k /\ s[k] = ":" /\ k < n
    BY <2>3, <2>4, <2>5
  <2>6. CASE ~(1 < k /\ s[k] = ":" /\ k < n)
    BY <2>3, <2>4, <2>6
  <2> QED
    BY <2>5, <2>6
<1> QED
  BY <1>1, <1>3, <1>6, <1>7

\* Other values are an address with or without a port.
LEMMA AddressAndPort ==
    ASSUME NEW s \in Seq(Chars), NEW k \in 1..Len(s), LastOther(s, k),
           BeforeDigits(Bytes(s), Len(s) - 1) = k - 1
    PROVE  fpx_config_parse_addr_port(s) = AddrPortOf(s)
<1> DEFINE b == Bytes(s)
<1>1. PICK n \in Nat : n = Len(s) /\ k \in 1..n /\ n > 0 /\ k \in 0..n /\ s # <<>>
  OBVIOUS
<1> DEFINE hasPort == s[k] = ":" /\ k < n
           port == fpx_atoi(b, k, n - k)
           tail == SubSeq(s, k + 1, n)
           end == IF hasPort THEN k - 2 ELSE n - 1
<1>2. b[k - 1] = s[k]
  BY <1>1, BytesAre
<1>3. fpx_config_parse_addr_port(s) =
        IF hasPort /\ (k = 1 \/ ~InRange(port)) THEN FPX_ADDR_INVALID
        ELSE AddressUpTo(b, end, IF hasPort THEN <<port>> ELSE Unset)
  <2>1. fpx_strlen(Bytes(s)) - 1 = n - 1
    BY <1>1, StrlenIs
  <2>2. /\ BeforeDigits(Bytes(s), n - 1) = k - 1 /\ ~(k - 1 < 0) /\ (k - 1) + 1 = k
        /\ (n - 1) - (k - 1) = n - k /\ (k - 1 < n - 1 <=> k < n) /\ (k - 1 = 0 <=> k = 1)
        /\ (k - 1) - 1 = k - 2
    BY <1>1
  <2> QED
    BY <2>1, <2>2, <1>2, Zenon DEF fpx_config_parse_addr_port, LastOfAddr
<1>4. /\ ~IsNumeral(s)
      /\ s[1] = ":" /\ IsNumeral(Tail(s)) <=> k = 1 /\ hasPort
      /\ Cuts(s) = IF 1 < k /\ hasPort THEN {k} ELSE {}
  BY <1>1, CutAt
<1>5. /\ tail \in Seq(Chars) /\ Len(tail) = n - k /\ Holds(b, k, tail)
      /\ IsNumeral(tail) <=> k < n /\ \A j \in (k + 1)..n : s[j] \in Digits
  BY <1>1, BehindIs
<1>6. /\ InRange(port) <=> IsNumeral(tail) /\ InRange(Value(tail))
      /\ InRange(port) => port = Value(tail)
  <2>1. k \in Int
    OBVIOUS
  <2> QED
    BY <2>1, <1>5, PortIs
<1>7. hasPort => IsNumeral(tail)
  BY <1>1, <1>5 DEF LastOther
<1>8. "]" \notin Digits /\ "]" # ":"
  BY DEF Digits
<1>9. ASSUME NEW j \in (k + 1)..n PROVE s[j] # "]"
  BY <1>1, <1>8 DEF LastOther
<1> HIDE DEF b, port, tail
<1>10. CASE k = 1 /\ hasPort
  BY <1>3, <1>4, <1>10, Zenon DEF AddrPortOf
<1>11. CASE 1 < k /\ hasPort
  <2>1. PICK e \in 1..n : e = k - 1 /\ e - 1 = k - 2 /\ e + 1 = k
    BY <1>1, <1>11
  <2>2. ASSUME NEW j \in (e + 1)..n PROVE s[j] # "]"
    <3>1. j = k \/ j \in (k + 1)..n
      BY <2>1, <1>1
    <3> QED
      BY <3>1, <1>8, <1>9, <1>11
  <2>3. AddressUpTo(b, k - 2, <<port>>) =
          IF BracketsOK(SubSeq(s, 1, e))
          THEN Address(Family(SubSeq(s, 1, e)), Host(SubSeq(s, 1, e)), <<port>>)
          ELSE FPX_ADDR_INVALID
    <3>1. e \in 1..Len(s) /\ \A j \in (e + 1)..Len(s) : s[j] # "]"
      BY <2>2, <1>1
    <3>2. AddressUpTo(Bytes(s), e - 1, <<port>>) =
            IF BracketsOK(SubSeq(s, 1, e))
            THEN Address(Family(SubSeq(s, 1, e)), Host(SubSeq(s, 1, e)), <<port>>)
            ELSE FPX_ADDR_INVALID
      BY <3>1, AddressIs
    <3> QED
      BY <3>2, <2>1, Zenon DEF b
  <2>4. Cuts(s) = {k} /\ Cuts(s) # {} /\ k # 1
    BY <1>4, <1>11
  <2>5. (CHOOSE j \in Cuts(s) : TRUE) = k
    BY <2>4
  <2>6. AddrPortOf(s) =
          IF ~BracketsOK(SubSeq(s, 1, e)) \/ ~InRange(Value(tail)) THEN FPX_ADDR_INVALID
          ELSE Address(Family(SubSeq(s, 1, e)), Host(SubSeq(s, 1, e)), <<Value(tail)>>)
    BY <2>1, <2>4, <2>5, <1>1, <1>4, Zenon DEF AddrPortOf, tail
  <2>7. fpx_config_parse_addr_port(s) =
          IF ~InRange(port) THEN FPX_ADDR_INVALID ELSE AddressUpTo(b, k - 2, <<port>>)
    BY <2>4, <1>3, <1>11, Zenon
  <2>8. CASE InRange(port)
    <3>1. port = Value(tail) /\ InRange(Value(tail))
      BY <2>8, <1>6, Zenon
    <3>2. fpx_config_parse_addr_port(s) = AddressUpTo(b, k - 2, <<port>>)
      BY <2>7, <2>8, Zenon
    <3>3. CASE BracketsOK(SubSeq(s, 1, e))
      BY <3>1, <3>2, <3>3, <2>3, <2>6, Zenon
    <3>4. CASE ~BracketsOK(SubSeq(s, 1, e))
      BY <3>2, <3>4, <2>3, <2>6, Zenon
    <3> QED
      BY <3>3, <3>4
  <2>9. CASE ~InRange(port)
    BY <2>6, <2>7, <2>9, <1>6, <1>7, <1>11, Zenon
  <2> QED
    BY <2>8, <2>9
<1>12. CASE ~hasPort
  <2>1. SubSeq(s, 1, n) = s
    BY <1>1
  <2>2. AddressUpTo(b, n - 1, Unset) =
          IF BracketsOK(s) THEN Address(Family(s), Host(s), Unset) ELSE FPX_ADDR_INVALID
    <3>1. n \in 1..Len(s) /\ \A j \in (n + 1)..Len(s) : s[j] # "]"
      BY <1>1
    <3>2. AddressUpTo(Bytes(s), n - 1, Unset) =
            IF BracketsOK(SubSeq(s, 1, n))
            THEN Address(Family(SubSeq(s, 1, n)), Host(SubSeq(s, 1, n)), Unset)
            ELSE FPX_ADDR_INVALID
      BY <3>1, AddressIs
    <3> QED
      BY <3>2, <2>1, Zenon DEF b
  <2>3. Cuts(s) = {}
    BY <1>4, <1>12
  <2>4. AddrPortOf(s) =
          IF ~BracketsOK(s) THEN FPX_ADDR_INVALID ELSE Address(Family(s), Host(s), Unset)
    BY <2>3, <1>1, <1>4, <1>12, Zenon DEF AddrPortOf
  <2>5. fpx_config_parse_addr_port(s) = AddressUpTo(b, n - 1, Unset)
    BY <1>3, <1>12, Zenon
  <2> QED
    BY <2>2, <2>4, <2>5, Zenon
<1>13. k = 1 \/ 1 < k
  BY <1>1
<1> QED
  BY <1>10, <1>11, <1>12, <1>13

\* For every width, every range of ports and every string: the value of a
\* listen is read as the port, the address or both that it is made of, with the
\* address between its brackets up to the first that closes; a port out of
\* range, brackets that do not match and a colon without an address are refused.
THEOREM AddrPortsExact ==
    EveryString => []AddrPortExact
<1>1. str \in Seq(Chars) => AddrPortExact
  <2> SUFFICES ASSUME str \in Seq(Chars) PROVE AddrPortExact
    OBVIOUS
  <2>1. PICK s \in Seq(Chars), n \in Nat : s = str /\ n = Len(s)
    OBVIOUS
  <2>2. PICK p \in -1..(n - 1) :
          /\ BeforeDigits(Bytes(s), n - 1) = p
          /\ \A j \in (p + 1)..(n - 1) : Bytes(s)[j] \in Digits
          /\ p >= 0 => Bytes(s)[p] \notin Digits
    BY BackIs
  <2>3. CASE p = -1
    <3>1. \A j \in 0..(n - 1) : Bytes(s)[j] \in Digits
      BY <2>2, <2>3
    <3> QED
      BY <3>1, <2>1, <2>2, <2>3, PortAlone DEF AddrPortExact
  <2>4. CASE p # -1
    <3>1. PICK k \in 1..n : k = p + 1 /\ k - 1 = p /\ p >= 0
      BY <2>4
    <3>2. \A j \in 1..n : Bytes(s)[j - 1] = s[j]
      BY <2>1, BytesAre
    <3>3. ASSUME NEW j \in (k + 1)..n PROVE s[j] \in Digits
      <4>1. j - 1 \in (p + 1)..(n - 1) /\ j \in 1..n
        BY <3>1
      <4> QED
        BY <4>1, <3>2, <2>2
    <3>4. s[k] \notin Digits
      BY <3>1, <3>2, <2>2
    <3>5. LastOther(s, k)
      BY <3>3, <3>4, <2>1 DEF LastOther
    <3>6. BeforeDigits(Bytes(s), Len(s) - 1) = k - 1 /\ k \in 1..Len(s)
      BY <3>1, <2>1, <2>2
    <3>7. fpx_config_parse_addr_port(s) = AddrPortOf(s)
      BY <3>5, <3>6, AddressAndPort
    <3> QED
      BY <3>7, <2>1, Zenon DEF AddrPortExact
  <2> QED
    BY <2>3, <2>4
<1> QED
  BY <1>1, Strings, PTL

(***************************************************************************)
(* ConfigText.                                                             *)
(***************************************************************************)
\* Before the file is fetched the reader is as it was set up.
Untouched ==
    result = "read" => /\ text = <<>> /\ i = 1 /\ begin = 0 /\ line = 1
                       /\ comment = FALSE /\ in_directive = FALSE
                       /\ words = <<>> /\ conf_list = <<>> /\ dropped = {}

\* The words of the line being read that have ended.
Ended == {w \in WordsOf(line) : w[2] < i - 1}

\* Where the reader is in the text before i.
Place ==
    /\ \A p \in 1..(i - 1) : text[p] # "nul"
    /\ line = LineOf(i)
    /\ comment <=> \E q \in 1..(i - 1) : text[q] = "hash" /\ LineOf(q) = line

\* The word being read.
OpenWord ==
    /\ begin = 0 => ~InWord(i - 1)
    /\ begin # 0 => /\ LineOf(begin) = line /\ ~InWord(begin - 1)
                    /\ \A p \in begin..(i - 1) : InWord(p)

\* The words found so far.
WordsFound ==
    /\ InOrder(words, Ended) /\ Cardinality(Ended) = Len(words)
    /\ in_directive <=> words # <<>>

TextInv ==
    /\ TypeOK /\ Untouched /\ Place /\ OpenWord /\ WordsFound
    /\ dropped \subseteq 1..(line - 1) /\ DirectivesExact /\ VerdictRight

\* The positions before p at which lines end.
Eols(p) == {q \in 1..(p - 1) : text[q] = "eol"}

\* They are finitely many.
LEMMA EolsFinite ==
    ASSUME NEW p \in Nat, p > 0
    PROVE  IsFiniteSet(Eols(p)) /\ Cardinality(Eols(p)) \in Nat /\ LineOf(p) = 1 + Cardinality(Eols(p))
<1>1. PICK n \in Nat : n = p - 1
  OBVIOUS
<1>2. IsFiniteSet(1..n)
  BY FS_Interval, 1 \in Int, n \in Int
<1>3. Eols(p) \subseteq 1..n
  BY <1>1 DEF Eols
<1>4. IsFiniteSet(Eols(p))
  BY <1>2, <1>3, FS_Subset
<1> QED
  BY <1>4, FS_CardinalityType DEF LineOf, Eols

\* Lines count from 1, and a line ends at its eol.
LEMMA LineSteps ==
    ASSUME NEW p \in Nat, p > 0
    PROVE  /\ LineOf(p) \in Nat /\ LineOf(p) > 0 /\ LineOf(1) = 1
           /\ LineOf(p + 1) = IF text[p] = "eol" THEN LineOf(p) + 1 ELSE LineOf(p)
<1>1. IsFiniteSet(Eols(p)) /\ Cardinality(Eols(p)) \in Nat /\ LineOf(p) = 1 + Cardinality(Eols(p))
  BY EolsFinite
<1>2. LineOf(p + 1) = 1 + Cardinality(Eols(p + 1))
  <2>1. p + 1 \in Nat /\ p + 1 > 0
    OBVIOUS
  <2> QED
    BY <2>1, EolsFinite
<1>3. LineOf(1) = 1
  <2>1. LineOf(1) = 1 + Cardinality(Eols(1)) /\ Eols(1) = {}
    BY EolsFinite, 1 \in Nat, 1 > 0 DEF Eols
  <2> QED
    BY <2>1, FS_EmptySet
<1>4. CASE text[p] = "eol"
  <2>1. Eols(p + 1) = Eols(p) \cup {p} /\ p \notin Eols(p)
    <3>1. \A q \in 1..((p + 1) - 1) : q = p \/ q \in 1..(p - 1)
      OBVIOUS
    <3>2. p \in 1..((p + 1) - 1) /\ p \notin 1..(p - 1) /\ \A q \in 1..(p - 1) : q \in 1..((p + 1) - 1)
      OBVIOUS
    <3> QED
      BY <3>1, <3>2, <1>4, Zenon DEF Eols
  <2>2. Cardinality(Eols(p) \cup {p}) = Cardinality(Eols(p)) + 1
    BY <2>1, <1>1, FS_AddElement
  <2> QED
    BY <2>1, <2>2, <1>1, <1>2, <1>3, <1>4
<1>5. CASE text[p] # "eol"
  <2>1. Eols(p + 1) = Eols(p)
    <3>1. \A q \in 1..((p + 1) - 1) : q = p \/ q \in 1..(p - 1)
      OBVIOUS
    <3>2. \A q \in 1..(p - 1) : q \in 1..((p + 1) - 1)
      OBVIOUS
    <3> QED
      BY <3>1, <3>2, <1>5, Zenon DEF Eols
  <2> QED
    BY <2>1, <1>1, <1>2, <1>3, <1>5
<1> QED
  BY <1>4, <1>5

\* Later positions are on later lines or on the same one.
LEMMA LinesAscend ==
    ASSUME NEW p \in Nat, NEW q \in Nat, 0 < p, p <= q
    PROVE  LineOf(p) <= LineOf(q)
<1>1. IsFiniteSet(Eols(p)) /\ Cardinality(Eols(p)) \in Nat /\ LineOf(p) = 1 + Cardinality(Eols(p))
  BY EolsFinite
<1>2. IsFiniteSet(Eols(q)) /\ Cardinality(Eols(q)) \in Nat /\ LineOf(q) = 1 + Cardinality(Eols(q))
  BY EolsFinite
<1>3. Eols(p) \subseteq Eols(q)
  BY DEF Eols
<1>4. Cardinality(Eols(p)) <= Cardinality(Eols(q))
  BY <1>2, <1>3, FS_Subset
<1> QED
  BY <1>1, <1>2, <1>4

\* What is said of the text as a whole stays while the text does.
LEMMA TextFixed ==
    ASSUME text' = text
    PROVE  /\ \A p : LineOf(p)' = LineOf(p)
           /\ \A p : InWord(p)' = InWord(p)
           /\ \A l : WordsOf(l)' = WordsOf(l)
           /\ Visible' = Visible /\ Offending' = Offending
<1>1. Visible' = Visible
  BY DEF Visible
<1>2. ASSUME NEW p PROVE LineOf(p)' = LineOf(p)
  BY DEF LineOf
<1>3. ASSUME NEW p PROVE InWord(p)' = InWord(p)
  BY <1>1, <1>2, Zenon DEF InWord, InComment
<1>4. ASSUME NEW l PROVE WordsOf(l)' = WordsOf(l)
  BY <1>1, <1>2, <1>3, Zenon DEF WordsOf
<1>5. ASSUME NEW p PROVE WordsUpTo(p)' = WordsUpTo(p)
  BY <1>2, <1>4, Zenon DEF WordsUpTo
<1>6. Offending' = Offending
  BY <1>1, <1>3, <1>5, Zenon DEF Offending
<1> QED
  BY <1>1, <1>2, <1>3, <1>4, <1>6

\* No step leaves the types.
LEMMA TypeStep ==
    ASSUME TypeOK, Untouched, [Next]_vars
    PROVE  TypeOK' /\ Untouched'
<1> DEFINE Pairs == Positions \X Positions
<1>0. MaxText \in Nat /\ FPX_MAX_TAKES \in Nat
  BY TextAssumption, TakesAssumption
<1>1. CASE UNCHANGED vars
  BY <1>1 DEF vars, TypeOK, Untouched
<1>2. CASE fpx_config_read
  <2>1. PICK n \in 0..Len(file) : text' = SubSeq(file, 1, n)
    BY <1>2 DEF fpx_config_read, fpx_file_read
  <2>2. file \in Seq(Classes) /\ Len(file) \in Nat /\ result = "read" /\ result' = "parse"
    BY <1>2 DEF fpx_config_read, TypeOK
  <2>3. text' \in Seq(Classes) /\ Len(text') = n
    BY <2>1, <2>2
  <2>4. /\ i = 1 /\ begin = 0 /\ line = 1 /\ words = <<>> /\ conf_list = <<>> /\ dropped = {}
        /\ comment = FALSE /\ in_directive = FALSE
    BY <2>2 DEF Untouched
  <2>5. UNCHANGED <<file, i, begin, comment, in_directive, words, line, conf_list, dropped>>
    BY <1>2 DEF fpx_config_read
  <2> QED
    BY <2>1, <2>2, <2>3, <2>4, <2>5, <1>0 DEF TypeOK, Untouched
<1>3. ASSUME NEW outcome \in Outcomes, Return(outcome) PROVE TypeOK' /\ Untouched'
  BY <1>3 DEF Return, TypeOK, Untouched, Outcomes
<1>4. CASE ReadFails
  BY <1>3, <1>4 DEF ReadFails, Outcomes
<1>5. CASE fpx_config_parse /\ (EndOfFile \/ SyntaxError \/ NoMemory)
  BY <1>3, <1>5 DEF EndOfFile, SyntaxError, NoMemory, Outcomes
<1>6. ASSUME Char # "nul" PROVE i \in 1..Len(text) /\ i \in 1..MaxText /\ i + 1 \in 1..(Len(text) + 1)
  BY <1>0, <1>6 DEF Char, TypeOK
<1>7. ASSUME ~TooMany, Char # "nul" PROVE WordsRead \in Seq(Pairs) /\ Len(WordsRead) <= FPX_MAX_TAKES
  <2>1. words \in Seq(Pairs) /\ Len(words) <= FPX_MAX_TAKES /\ Len(words) \in Nat
    BY DEF TypeOK
  <2>2. CASE ~Found
    BY <2>1, <2>2 DEF WordsRead
  <2>3. CASE Found
    <3>1. begin \in 1..(i - 1)
      BY <2>3 DEF Found, TypeOK
    <3>2. <<begin, i - 1>> \in Pairs
      BY <3>1, <1>6, <1>7, <1>0 DEF Positions
    <3>3. Len(words) < FPX_MAX_TAKES
      BY <2>1, <2>3, <1>7, <1>0 DEF TooMany
    <3>4. WordsRead = Append(words, <<begin, i - 1>>)
      BY <2>3, Zenon DEF WordsRead
    <3> HIDE DEF Pairs
    <3>5. /\ Append(words, <<begin, i - 1>>) \in Seq(Pairs)
          /\ Len(Append(words, <<begin, i - 1>>)) = Len(words) + 1
      BY <2>1, <3>2, Appended
    <3> QED
      BY <2>1, <3>3, <3>4, <3>5, <1>0
  <2> QED
    BY <2>2, <2>3
<1>8. CASE fpx_config_parse /\ Blank
  <2>1. /\ Char = "blank" /\ ~TooMany /\ result = "parse"
        /\ words' = WordsRead /\ in_directive' = (in_directive \/ Found) /\ begin' = 0 /\ i' = i + 1
        /\ UNCHANGED <<file, text, comment, line, conf_list, dropped, result>>
    BY <1>8 DEF fpx_config_parse, Blank
  <2>2. i' \in 1..(Len(text') + 1) /\ line' \in 1..i'
    BY <2>1, <1>6 DEF TypeOK
  <2>3. words' \in Seq(Pairs) /\ Len(words') <= FPX_MAX_TAKES
    BY <2>1, <1>7
  <2>4. in_directive' \in BOOLEAN
    BY <2>1, Zenon DEF TypeOK, Found
  <2> QED
    BY <2>1, <2>2, <2>3, <2>4 DEF TypeOK, Untouched
<1>9. CASE fpx_config_parse /\ EndOfLine
  <2>1. /\ Char = "eol" /\ ~TooMany /\ result = "parse"
        /\ words' = <<>> /\ in_directive' = FALSE /\ comment' = FALSE /\ begin' = 0
        /\ i' = i + 1 /\ line' = line + 1
        /\ UNCHANGED <<file, text, result>>
    BY <1>9 DEF fpx_config_parse, EndOfLine, AfterEol
  <2>2. \/ conf_list' = conf_list /\ dropped' = dropped
        \/ conf_list' = Append(conf_list, [words |-> WordsRead, line |-> line]) /\ dropped' = dropped
        \/ dropped' = dropped \cup {line} /\ conf_list' = conf_list
    BY <1>9 DEF fpx_config_parse, EndOfLine, fpx_config_save_directive
  <2>3. i' \in 1..(Len(text') + 1) /\ line' \in 1..i'
    BY <2>1, <1>6 DEF TypeOK
  <2>4. line \in 1..MaxText
    BY <2>1, <1>6, <1>0 DEF TypeOK
  <2> DEFINE Ds == [words : Seq(Pairs), line : 1..MaxText]
             d == [words |-> WordsRead, line |-> line]
  <2>5. d \in Ds
    BY <2>1, <2>4, <1>7
  <2>6. conf_list \in Seq(Ds)
    BY DEF TypeOK
  <2> HIDE DEF Ds, d
  <2>7. Append(conf_list, d) \in Seq(Ds)
    BY <2>5, <2>6
  <2>8. conf_list' \in Seq(Ds)
    BY <2>2, <2>6, <2>7, Zenon DEF d
  <2>9. dropped' \subseteq 1..MaxText
    BY <2>2, <2>4 DEF TypeOK
  <2>10. words' \in Seq(Pairs) /\ Len(words') <= FPX_MAX_TAKES
    BY <2>1, <1>0
  <2>11. conf_list' \in Seq([words : Seq(Positions \X Positions), line : 1..MaxText])
    BY <2>8 DEF Ds
  <2>12. begin' \in {0} \cup 1..(i' - 1) /\ comment' \in BOOLEAN /\ in_directive' \in BOOLEAN
    BY <2>1
  <2>13. result' = "parse" /\ result' # "read"
    BY <2>1
  <2>14. /\ file' \in Seq(Classes) /\ text' \in Seq(Classes)
         /\ Len(text') <= Len(file') /\ Len(file') <= MaxText
    BY <2>1 DEF TypeOK
  <2> QED
    BY <2>3, <2>9, <2>10, <2>11, <2>12, <2>13, <2>14, Zenon DEF TypeOK, Untouched
<1>10. CASE fpx_config_parse /\ Hash
  <2>1. /\ Char = "hash" /\ result = "parse" /\ comment' = TRUE /\ i' = i + 1
        /\ UNCHANGED <<file, text, begin, in_directive, words, line, conf_list, dropped, result>>
    BY <1>10 DEF fpx_config_parse, Hash
  <2>2. i' \in 1..(Len(text') + 1) /\ line' \in 1..i' /\ begin' \in {0} \cup 1..(i' - 1)
    BY <2>1, <1>6 DEF TypeOK
  <2> QED
    BY <2>1, <2>2 DEF TypeOK, Untouched
<1>11. CASE fpx_config_parse /\ Ascii
  <2>1. /\ Char = "word" /\ result = "parse" /\ begin' \in {begin, i} /\ i' = i + 1
        /\ UNCHANGED <<file, text, comment, in_directive, words, line, conf_list, dropped, result>>
    BY <1>11 DEF fpx_config_parse, Ascii
  <2>2. i' \in 1..(Len(text') + 1) /\ line' \in 1..i' /\ begin' \in {0} \cup 1..(i' - 1)
    BY <2>1, <1>6 DEF TypeOK
  <2> QED
    BY <2>1, <2>2 DEF TypeOK, Untouched
<1> QED
  BY <1>1, <1>2, <1>4, <1>5, <1>8, <1>9, <1>10, <1>11 DEF Next, fpx_config_parse

\* It starts in them.
LEMMA TypeInit ==
    Init => TypeOK /\ Untouched
<1> SUFFICES ASSUME Init PROVE TypeOK /\ Untouched
  OBVIOUS
<1>1. MaxText \in Nat /\ FPX_MAX_TAKES \in Nat
  BY TextAssumption, TakesAssumption
<1>2. file \in Seq(Classes) /\ Len(file) = MaxText
  BY <1>1 DEF Init
<1>3. /\ text \in Seq(Classes) /\ Len(text) <= Len(file) /\ Len(file) <= MaxText
      /\ i \in 1..(Len(text) + 1) /\ begin \in {0} \cup 1..(i - 1) /\ line \in 1..i
  BY <1>1, <1>2 DEF Init
<1>4. words \in Seq(Positions \X Positions) /\ Len(words) <= FPX_MAX_TAKES
  BY <1>1 DEF Init
<1>5. conf_list \in Seq([words : Seq(Positions \X Positions), line : 1..MaxText])
  BY DEF Init
<1>6. dropped \subseteq 1..MaxText /\ comment \in BOOLEAN /\ in_directive \in BOOLEAN
  BY DEF Init
<1>7. result \in {"read", "parse"} \cup Outcomes
  BY DEF Init
<1>8. TypeOK
  BY <1>2, <1>3, <1>4, <1>5, <1>6, <1>7, Zenon DEF TypeOK
<1>9. Untouched
  BY DEF Init, Untouched
<1> QED
  BY <1>8, <1>9

\* For every longest file and every number of arguments: fpx_config_parse never
\* reads past the zero byte behind the text, and argv never overflows.
THEOREM TextTypes ==
    Spec => []TypeOK
<1>1. TypeOK /\ Untouched /\ [Next]_vars => (TypeOK /\ Untouched)'
  BY TypeStep
<1> QED
  BY <1>1, TypeInit, PTL DEF Spec

\* The reader stands at a character of the text.
Standing == TypeOK /\ Place /\ OpenWord /\ i <= Len(text) /\ text[i] # "nul"

\* Positions are numbers, and what the reader has passed is visible.
LEMMA Here ==
    ASSUME Standing
    PROVE  /\ i \in Nat /\ i > 0 /\ i \in 1..Len(text) /\ i \in Visible /\ Char = text[i]
           /\ begin \in Nat /\ begin <= i - 1
           /\ line = LineOf(i) /\ line \in Nat /\ line > 0
           /\ LineOf(i + 1) = IF text[i] = "eol" THEN line + 1 ELSE line
<1>1. PICK n \in Nat : n = Len(text) /\ DOMAIN text = 1..n /\ i \in 1..n /\ i \in Nat /\ i > 0
  BY DEF Standing, TypeOK
<1>2. i \in Visible
  <2>1. ASSUME NEW q \in 1..n, text[q] = "nul" PROVE i < q
    <3>1. ~(q \in 1..(i - 1)) /\ q # i
      BY <2>1 DEF Standing, Place
    <3> QED
      BY <3>1, <1>1
  <2> QED
    BY <2>1, <1>1 DEF Visible
<1>3. Char = text[i]
  <2>1. ~(i > Len(text))
    BY <1>1
  <2> QED
    BY <2>1, Zenon DEF Char
<1>4. line = LineOf(i)
  BY DEF Standing, Place
<1>5. /\ LineOf(i) \in Nat /\ LineOf(i) > 0
      /\ LineOf(i + 1) = IF text[i] = "eol" THEN LineOf(i) + 1 ELSE LineOf(i)
  BY <1>1, LineSteps
<1>6. begin \in Nat /\ begin <= i - 1
  BY <1>1 DEF Standing, TypeOK
<1> QED
  BY <1>1, <1>2, <1>3, <1>4, <1>5, <1>6

\* What InWord says.
LEMMA WordIs ==
    ASSUME NEW p, InWord(p)
    PROVE  p \in Visible /\ p \in DOMAIN text /\ text[p] = "word"
  BY DEF InWord, Visible

\* A word is open exactly if the character before is in one; then there is no
\* comment.
LEMMA OpenIs ==
    ASSUME Standing
    PROVE  /\ begin # 0 <=> InWord(i - 1)
           /\ begin # 0 => comment = FALSE
<1>1. i \in Nat /\ i > 0 /\ begin \in Nat /\ begin <= i - 1 /\ line = LineOf(i)
  BY Here
<1>2. ASSUME begin # 0 PROVE InWord(i - 1)
  <2>1. i - 1 \in begin..(i - 1)
    BY <1>1, <1>2
  <2> QED
    BY <2>1, <1>2 DEF Standing, OpenWord
<1>3. ASSUME begin = 0 PROVE ~InWord(i - 1)
  BY <1>3 DEF Standing, OpenWord
<1>4. ASSUME begin # 0 PROVE comment = FALSE
  <2>1. PICK p \in Nat : p = i - 1 /\ p > 0 /\ p + 1 = i
    BY <1>1, <1>4
  <2>2. InWord(p) /\ text[p] = "word"
    BY <2>1, <1>2, <1>4, WordIs
  <2>3. LineOf(p) = line
    <3>1. LineOf(p + 1) = IF text[p] = "eol" THEN LineOf(p) + 1 ELSE LineOf(p)
      BY <2>1, LineSteps
    <3> QED
      BY <3>1, <2>1, <2>2, <1>1
  <2>4. ~InComment(p)
    BY <2>2 DEF InWord
  <2>5. ~ \E q \in 1..p : text[q] = "hash" /\ LineOf(q) = line
    BY <2>2, <2>3, <2>4 DEF InComment
  <2>6. ~comment
    BY <2>1, <2>5, Zenon DEF Standing, Place
  <2> QED
    BY <2>6, Zenon DEF Standing, TypeOK
<1> QED
  BY <1>2, <1>3, <1>4

\* The character the reader stands at is in a word if it is of that class and
\* there is no comment.
LEMMA WordHere ==
    ASSUME Standing
    PROVE  InWord(i) <=> text[i] = "word" /\ comment = FALSE
<1>1. i \in Nat /\ i > 0 /\ i \in Visible /\ line = LineOf(i)
  BY Here
<1>2. ASSUME text[i] = "word" PROVE InComment(i) <=> comment
  <2>1. ASSUME NEW q \in 1..i, text[q] = "hash" PROVE q \in 1..(i - 1)
    <3>1. q # i
      BY <2>1, <1>2
    <3> QED
      BY <3>1, <1>1
  <2>2. \A q \in 1..(i - 1) : q \in 1..i
    BY <1>1
  <2>3. InComment(i) <=> \E q \in 1..i : text[q] = "hash" /\ LineOf(q) = line
    BY <1>1, <1>2 DEF InComment
  <2>4. comment <=> \E q \in 1..(i - 1) : text[q] = "hash" /\ LineOf(q) = line
    BY DEF Standing, Place
  <2> QED
    BY <2>1, <2>2, <2>3, <2>4, Zenon
<1>3. comment \in BOOLEAN
  BY DEF Standing, TypeOK
<1> QED
  BY <1>1, <1>2, <1>3, Zenon DEF InWord

\* The words of a line have two positions in the text.
LEMMA WordsType ==
    ASSUME TypeOK, NEW l, NEW w \in WordsOf(l)
    PROVE  /\ w[1] \in Nat /\ w[2] \in Nat /\ 0 < w[1] /\ w[1] <= w[2] /\ w[2] <= Len(text)
           /\ w = <<w[1], w[2]>>
           /\ LineOf(w[1]) = l /\ (\A p \in w[1]..w[2] : InWord(p))
           /\ ~InWord(w[1] - 1) /\ ~InWord(w[2] + 1)
           /\ InWord(w[1]) /\ InWord(w[2])
<1>1. PICK n \in Nat : n = Len(text) /\ DOMAIN text = 1..n
  BY DEF TypeOK
<1>2. Visible \subseteq 1..n
  BY <1>1 DEF Visible
<1>3. /\ w \in Visible \X Visible /\ w[1] <= w[2] /\ LineOf(w[1]) = l
      /\ \A p \in w[1]..w[2] : InWord(p)
      /\ ~InWord(w[1] - 1) /\ ~InWord(w[2] + 1)
  BY Zenon DEF WordsOf
<1>4. PICK a \in 1..n, b \in 1..n : w = <<a, b>> /\ w[1] = a /\ w[2] = b
  <2>1. w = <<w[1], w[2]>> /\ w[1] \in Visible /\ w[2] \in Visible
    <3>1. w \in Visible \X Visible
      BY <1>3
    <3> QED
      BY <3>1
  <2> QED
    BY <2>1, <1>2, Zenon
<1>5. a \in a..b /\ b \in a..b
  BY <1>3, <1>4
<1> QED
  BY <1>1, <1>3, <1>4, <1>5

\* Without a word that ends here there are no more of them.
LEMMA NoWordEnds ==
    ASSUME Standing, begin = 0 \/ InWord(i)
    PROVE  WordsUpTo(i) = Ended
<1>1. i \in Nat /\ i > 0 /\ line = LineOf(i)
  BY Here
<1>2. ASSUME NEW w \in WordsOf(line), w[2] < i PROVE w[2] < i - 1
  <2>1. w[2] \in Nat /\ InWord(w[2]) /\ ~InWord(w[2] + 1)
    BY WordsType DEF Standing
  <2>2. w[2] # i - 1
    <3> SUFFICES ASSUME w[2] = i - 1 PROVE FALSE
      OBVIOUS
    <3>1. w[2] + 1 = i
      BY <1>1
    <3>2. begin # 0 <=> InWord(i - 1)
      BY OpenIs
    <3> QED
      BY <3>1, <3>2, <2>1, Zenon
  <2> QED
    BY <2>1, <2>2, <1>1, <1>2
<1>3. ASSUME NEW w \in WordsOf(line), w[2] < i - 1 PROVE w[2] < i
  <2>1. w[2] \in Nat
    BY WordsType DEF Standing
  <2> QED
    BY <2>1, <1>1, <1>3
<1> QED
  BY <1>1, <1>2, <1>3, Zenon DEF WordsUpTo, Ended

\* A word that ends here is one more, behind all the others.
LEMMA WordEnds ==
    ASSUME Standing, begin # 0, ~InWord(i)
    PROVE  /\ WordsUpTo(i) = Ended \cup {<<begin, i - 1>>}
           /\ <<begin, i - 1>> \notin Ended
           /\ \A w \in Ended : w[2] < begin
<1> DEFINE v == <<begin, i - 1>>
<1>1. /\ i \in Nat /\ i > 0 /\ i \in Visible /\ line = LineOf(i)
      /\ begin \in Nat /\ begin > 0 /\ begin <= i - 1 /\ i - 1 \in Nat
  <2>1. i \in Nat /\ i > 0 /\ i \in Visible /\ line = LineOf(i) /\ begin \in Nat /\ begin <= i - 1
    BY Here
  <2> QED
    BY <2>1
<1>2. LineOf(begin) = line /\ ~InWord(begin - 1) /\ \A p \in begin..(i - 1) : InWord(p)
  BY DEF Standing, OpenWord
<1>3. v \in WordsOf(line)
  <2>1. begin \in begin..(i - 1) /\ i - 1 \in begin..(i - 1) /\ (i - 1) + 1 = i
    BY <1>1
  <2>2. begin \in Visible /\ i - 1 \in Visible
    BY <2>1, <1>2, WordIs
  <2>3. v \in Visible \X Visible /\ v[1] = begin /\ v[2] = i - 1
    BY <2>2
  <2> HIDE DEF v
  <2>4. v[1] <= v[2] /\ LineOf(v[1]) = line /\ \A p \in v[1]..v[2] : InWord(p)
    BY <2>3, <1>1, <1>2
  <2>5. ~InWord(v[1] - 1) /\ ~InWord(v[2] + 1)
    BY <2>1, <2>3, <1>2, Zenon
  <2> QED
    BY <2>3, <2>4, <2>5, Zenon DEF WordsOf
<1>4. ASSUME NEW w \in WordsOf(line), w[2] < i PROVE w = v \/ (w[2] < i - 1 /\ w[2] < begin)
  <2>1. PICK a \in Nat, b \in Nat : a = w[1] /\ b = w[2]
    BY WordsType DEF Standing
  <2>2. /\ 0 < a /\ a <= b /\ w = <<a, b>> /\ (\A p \in a..b : InWord(p))
        /\ ~InWord(a - 1) /\ ~InWord(b + 1)
    BY <2>1, WordsType DEF Standing
  <2>3. CASE b < begin
    BY <2>1, <2>3, <1>1
  <2>4. CASE ~(b < begin)
    <3>1. b = i - 1
      <4> SUFFICES ASSUME b # i - 1 PROVE FALSE
        OBVIOUS
      <4>1. b + 1 \in begin..(i - 1)
        BY <2>1, <2>4, <1>1, <1>4
      <4> QED
        BY <4>1, <2>2, <1>2
    <3>2. ~(begin < a)
      <4> SUFFICES ASSUME begin < a PROVE FALSE
        OBVIOUS
      <4>1. a - 1 \in begin..(i - 1)
        BY <3>1, <2>2, <1>1
      <4> QED
        BY <4>1, <2>2, <1>2
    <3>3. ~(a < begin)
      <4> SUFFICES ASSUME a < begin PROVE FALSE
        OBVIOUS
      <4>1. begin - 1 \in a..b
        BY <3>1, <1>1
      <4> QED
        BY <4>1, <2>2, <1>2
    <3>4. a = begin
      BY <3>2, <3>3, <1>1
    <3> QED
      BY <3>1, <3>4, <2>2
  <2> QED
    BY <2>3, <2>4
<1>5. ASSUME NEW w \in Ended PROVE w \in WordsOf(line) /\ w[2] < i - 1 /\ w[2] < i /\ w # v
  <2>1. w \in WordsOf(line) /\ w[2] < i - 1
    BY DEF Ended
  <2>2. w[2] \in Nat
    BY <2>1, WordsType DEF Standing
  <2>3. v[2] = i - 1
    OBVIOUS
  <2> HIDE DEF v
  <2>4. w # v
    BY <2>1, <2>2, <2>3, <1>1
  <2> QED
    BY <2>1, <2>2, <2>4, <1>1
<1>6. v[2] = i - 1 /\ i - 1 < i
  BY <1>1
<1> HIDE DEF v
<1>7. WordsUpTo(i) = Ended \cup {v}
  <2>1. WordsUpTo(i) = {w \in WordsOf(line) : w[2] < i}
    BY <1>1, Zenon DEF WordsUpTo
  <2>2. v[2] < i
    BY <1>6
  <2>3. ASSUME NEW w \in WordsOf(line), w[2] < i PROVE w \in Ended \cup {v}
    BY <2>3, <1>4, Zenon DEF Ended
  <2>4. ASSUME NEW w \in Ended \cup {v} PROVE w \in WordsOf(line) /\ w[2] < i
    BY <2>2, <1>3, <1>5, Zenon
  <2> QED
    BY <2>1, <2>3, <2>4, Zenon
<1>8. v \notin Ended
  BY <1>5, Zenon
<1>9. \A w \in Ended : w[2] < begin
  BY <1>4, <1>5, Zenon
<1> QED
  BY <1>7, <1>8, <1>9 DEF v

\* A word behind all the others keeps the order.
LEMMA AddWord ==
    ASSUME NEW P, NEW ws \in Seq(P), NEW S, InOrder(ws, S), Cardinality(S) = Len(ws),
           NEW v \in P, v \notin S, \A w \in S : w[2] < v[1]
    PROVE  /\ InOrder(Append(ws, v), S \cup {v})
           /\ Cardinality(S \cup {v}) = Len(Append(ws, v))
<1> DEFINE vs == Append(ws, v)
<1>1. PICK n \in Nat : n = Len(ws) /\ DOMAIN ws = 1..n
  OBVIOUS
<1>2. /\ vs \in Seq(P) /\ Len(vs) = n + 1 /\ DOMAIN vs = 1..(n + 1)
      /\ vs[n + 1] = v /\ \A k \in 1..n : vs[k] = ws[k]
  BY <1>1, Appended
<1> HIDE DEF vs
<1>3. S = {ws[k] : k \in 1..n} /\ \A k \in 1..n : \A j \in 1..(k - 1) : ws[j][2] < ws[k][1]
  BY <1>1, Zenon DEF InOrder
<1>4. \A k \in 1..(n + 1) : k \in 1..n \/ k = n + 1
  OBVIOUS
<1>5. \A k \in 1..n : k \in 1..(n + 1) /\ \A j \in 1..(k - 1) : j \in 1..n
  OBVIOUS
<1>6. n + 1 \in 1..(n + 1) /\ (n + 1) - 1 = n
  OBVIOUS
<1>7. {vs[k] : k \in 1..(n + 1)} = S \cup {v}
  BY <1>2, <1>3, <1>4, <1>5, <1>6, Zenon
<1>8. ASSUME NEW k \in 1..(n + 1), NEW j \in 1..(k - 1) PROVE vs[j][2] < vs[k][1]
  <2>1. CASE k \in 1..n
    <3>1. vs[j] = ws[j] /\ vs[k] = ws[k]
      BY <2>1, <1>2, <1>5
    <3> QED
      BY <3>1, <2>1, <1>3, Zenon
  <2>2. CASE k = n + 1
    <3>1. j \in 1..n
      BY <2>2, <1>6
    <3>2. vs[j] \in S /\ vs[k] = v
      BY <3>1, <2>2, <1>2, <1>3
    <3> QED
      BY <3>2
  <2> QED
    BY <2>1, <2>2, <1>4
<1>9. InOrder(vs, S \cup {v})
  BY <1>2, <1>7, <1>8, Zenon DEF InOrder
<1>10. IsFiniteSet(S)
  <2>1. IsFiniteSet(1..n)
    BY FS_Interval, 1 \in Int, n \in Int
  <2> DEFINE m == [k \in 1..n |-> ws[k]]
  <2>2. m \in Surjection(1..n, S)
    BY <1>3 DEF Surjection
  <2> HIDE DEF m
  <2> QED
    BY <2>1, <2>2, FS_Surjection
<1>11. Cardinality(S \cup {v}) = n + 1
  BY <1>1, <1>10, FS_AddElement
<1> QED
  BY <1>2, <1>9, <1>11 DEF vs

\* What the reader knows when it has looked at a character: the words that end
\* before it, in order.
LEMMA WordsReadRight ==
    ASSUME Standing, WordsFound, text[i] \in {"blank", "eol"}
    PROVE  /\ InOrder(WordsRead, WordsUpTo(i)) /\ Cardinality(WordsUpTo(i)) = Len(WordsRead)
           /\ Len(WordsRead) = IF Found THEN Len(words) + 1 ELSE Len(words)
           /\ in_directive \/ Found <=> WordsRead # <<>>
<1> DEFINE P == Nat \X Nat
           v == <<begin, i - 1>>
<1>1. words \in Seq(P)
  <2>1. words \in Seq(Positions \X Positions)
    BY DEF Standing, TypeOK
  <2>2. Positions \X Positions \subseteq P
    BY DEF Positions
  <2> HIDE DEF P
  <2>3. ASSUME NEW A, NEW B, A \subseteq B, NEW s \in Seq(A) PROVE s \in Seq(B)
    BY <2>3
  <2> QED
    BY <2>1, <2>2, <2>3
<1>2. Char = text[i] /\ i \in Nat /\ i > 0 /\ begin \in Nat /\ begin <= i - 1
  BY Here
<1>3. InOrder(words, Ended) /\ Cardinality(Ended) = Len(words) /\ (in_directive <=> words # <<>>)
  BY DEF WordsFound
<1>4. ~InWord(i)
  BY WordHere
<1>5. CASE begin = 0
  <2>1. ~Found
    BY <1>5, Zenon DEF Found
  <2>2. WordsRead = words
    BY <2>1, Zenon DEF WordsRead
  <2>3. WordsUpTo(i) = Ended
    BY <1>5, NoWordEnds
  <2> QED
    BY <2>1, <2>2, <2>3, <1>3, Zenon
<1>6. CASE begin # 0
  <2>1. Found
    BY <1>2, <1>6, Zenon DEF Found
  <2>2. WordsRead = Append(words, v)
    BY <2>1, Zenon DEF WordsRead
  <2>3. WordsUpTo(i) = Ended \cup {v} /\ v \notin Ended /\ \A w \in Ended : w[2] < begin
    BY <1>4, <1>6, WordEnds
  <2>4. v \in P /\ v[1] = begin
    BY <1>2
  <2> HIDE DEF v, P
  <2>5. /\ InOrder(Append(words, v), Ended \cup {v})
        /\ Cardinality(Ended \cup {v}) = Len(Append(words, v))
    BY <2>3, <2>4, <1>1, <1>3, AddWord
  <2>6. Len(Append(words, v)) = Len(words) + 1 /\ Append(words, v) # <<>>
    BY <2>4, <1>1, Appended
  <2> QED
    BY <2>1, <2>2, <2>3, <2>5, <2>6, Zenon
<1> QED
  BY <1>5, <1>6

\* The reader has to stop at a character exactly if it does.
LEMMA OffendingHere ==
    ASSUME Standing, WordsFound
    PROVE  i \in Offending <=> (Char = "hash" /\ begin # 0) \/ Char = "binary" \/ TooMany
<1>1. Char = text[i] /\ i \in Visible
  BY Here
<1>2. begin # 0 <=> InWord(i - 1)
  BY OpenIs
<1>3. ASSUME text[i] \in {"blank", "eol"}, begin # 0
      PROVE  Cardinality(WordsUpTo(i)) > FPX_MAX_TAKES <=> TooMany
  <2>1. Found
    BY <1>1, <1>3, Zenon DEF Found
  <2>2. Cardinality(WordsUpTo(i)) = Len(words) + 1
    BY <2>1, <1>3, WordsReadRight
  <2>3. Len(words) \in Nat /\ FPX_MAX_TAKES \in Nat
    BY TakesAssumption DEF Standing, TypeOK
  <2> QED
    BY <2>1, <2>2, <2>3 DEF TooMany
<1>4. TooMany => text[i] \in {"blank", "eol"} /\ begin # 0
  BY <1>1, Zenon DEF TooMany, Found
<1>5. i \in Offending <=> \/ text[i] = "binary"
                          \/ text[i] = "hash" /\ InWord(i - 1)
                          \/ /\ text[i] \in {"blank", "eol"} /\ InWord(i - 1)
                             /\ Cardinality(WordsUpTo(i)) > FPX_MAX_TAKES
  BY <1>1, Zenon DEF Offending
<1> QED
  BY <1>1, <1>2, <1>3, <1>4, <1>5, Zenon

\* At the end of a line all of its words have ended, and none of the next.
LEMMA LineEnds ==
    ASSUME Standing, text[i] = "eol"
    PROVE  /\ WordsUpTo(i) = WordsOf(line)
           /\ {w \in WordsOf(line + 1) : w[2] < i} = {}
<1>1. /\ i \in Nat /\ i > 0 /\ line = LineOf(i) /\ line \in Nat
      /\ LineOf(i + 1) = line + 1
  BY Here
<1>2. ASSUME NEW w \in WordsOf(line) PROVE w[2] < i
  <2>1. PICK a \in Nat, b \in Nat : a = w[1] /\ b = w[2]
    BY WordsType DEF Standing
  <2>2. /\ 0 < a /\ a <= b /\ LineOf(a) = line /\ \A p \in a..b : InWord(p)
    BY <2>1, WordsType DEF Standing
  <2>3. ~(i < a)
    <3> SUFFICES ASSUME i < a PROVE FALSE
      OBVIOUS
    <3>1. i + 1 \in Nat /\ 0 < i + 1 /\ i + 1 <= a
      BY <1>1
    <3>2. LineOf(i + 1) <= LineOf(a)
      BY <3>1, LinesAscend
    <3> QED
      BY <3>2, <2>2, <1>1
  <2>4. ~(i \in a..b)
    <3>1. ~InWord(i)
      BY WordHere
    <3> QED
      BY <3>1, <2>2
  <2> QED
    BY <2>1, <2>2, <2>3, <2>4, <1>1
<1>3. ASSUME NEW w \in WordsOf(line + 1) PROVE ~(w[2] < i)
  <2> SUFFICES ASSUME w[2] < i PROVE FALSE
    OBVIOUS
  <2>1. PICK a \in Nat, b \in Nat : a = w[1] /\ b = w[2]
    BY WordsType DEF Standing
  <2>2. 0 < a /\ a <= b /\ LineOf(a) = line + 1
    BY <2>1, WordsType DEF Standing
  <2>3. a <= i
    BY <2>1, <2>2, <1>1
  <2>4. LineOf(a) <= LineOf(i)
    BY <2>2, <2>3, <1>1, LinesAscend
  <2> QED
    BY <2>2, <2>4, <1>1
<1> QED
  BY <1>1, <1>2, <1>3, Zenon DEF WordsUpTo

\* The same where they are said of the reader's place.
LEMMA PlacesFixed ==
    ASSUME text' = text
    PROVE  /\ LineOf(i)' = LineOf(i') /\ LineOf(begin)' = LineOf(begin')
           /\ InWord(i - 1)' = InWord(i' - 1) /\ InWord(begin - 1)' = InWord(begin' - 1)
           /\ Ended' = {w \in WordsOf(line') : w[2] < i' - 1}
<1>1. LineOf(i)' = LineOf(i')
  BY TextFixed
<1>2. LineOf(begin)' = LineOf(begin')
  BY TextFixed
<1>3. InWord(i - 1)' = InWord(i' - 1)
  BY TextFixed
<1>4. InWord(begin - 1)' = InWord(begin' - 1)
  BY TextFixed
<1>5. Ended' = {w \in WordsOf(line') : w[2] < i' - 1}
  BY TextFixed DEF Ended
<1> QED
  BY <1>1, <1>2, <1>3, <1>4, <1>5

\* One character further, the place is right.
LEMMA PlaceStep ==
    ASSUME Standing, text' = text, i' = i + 1,
           line' = IF text[i] = "eol" THEN line + 1 ELSE line,
           comment' = IF text[i] = "eol" THEN FALSE ELSE IF text[i] = "hash" THEN TRUE ELSE comment
    PROVE  Place'
<1>1. /\ i \in Nat /\ i > 0 /\ line = LineOf(i) /\ line \in Nat
      /\ LineOf(i + 1) = IF text[i] = "eol" THEN line + 1 ELSE line
  BY Here
<1>2. i' - 1 = i /\ \A p \in 1..i : p = i \/ p \in 1..(i - 1)
  BY <1>1
<1>3. \A p \in 1..(i' - 1) : text'[p] # "nul"
  BY <1>2, Zenon DEF Standing, Place
<1>4. line' = LineOf(i)'
  BY <1>1, PlacesFixed, Zenon
<1>5. comment' <=> \E q \in 1..i : text[q] = "hash" /\ LineOf(q) = line'
  <2>0. comment <=> \E q \in 1..(i - 1) : text[q] = "hash" /\ LineOf(q) = line
    BY DEF Standing, Place
  <2>1. CASE text[i] = "eol"
    <3>1. ASSUME NEW q \in 1..i PROVE LineOf(q) # line'
      <4>1. q \in Nat /\ 0 < q /\ q <= i
        BY <1>1
      <4>2. LineOf(q) <= LineOf(i) /\ LineOf(q) \in Nat
        BY <4>1, <1>1, LinesAscend, LineSteps
      <4>3. line' = line + 1
        BY <2>1
      <4> QED
        BY <4>2, <4>3, <1>1
    <3>2. comment' = FALSE
      BY <2>1
    <3> QED
      BY <3>1, <3>2
  <2>2. CASE text[i] = "hash"
    <3>1. line' = line /\ comment' = TRUE
      BY <2>2
    <3>2. i \in 1..i
      BY <1>1
    <3> QED
      BY <3>1, <3>2, <2>2, <1>1
  <2>3. CASE text[i] # "eol" /\ text[i] # "hash"
    <3>1. line' = line /\ comment' = comment
      BY <2>3
    <3>2. \A q \in 1..(i - 1) : q \in 1..i
      BY <1>1
    <3>3. (\E q \in 1..i : text[q] = "hash" /\ LineOf(q) = line')
          <=> \E q \in 1..(i - 1) : text[q] = "hash" /\ LineOf(q) = line
      BY <3>1, <3>2, <2>3, <1>2, Zenon
    <3>4. comment \in BOOLEAN
      BY DEF Standing, TypeOK
    <3>5. comment' <=> comment
      <4>1. CASE comment = TRUE
        BY <4>1, <3>1
      <4>2. CASE comment = FALSE
        BY <4>2, <3>1
      <4> QED
        BY <4>1, <4>2, <3>4
    <3> QED
      BY <3>3, <3>5, <2>0, Zenon
  <2> QED
    BY <2>1, <2>2, <2>3
<1>6. \A q : LineOf(q)' = LineOf(q)
  BY TextFixed
<1>7. comment' <=> \E q \in 1..(i' - 1) : text'[q] = "hash" /\ LineOf(q)' = line'
  BY <1>2, <1>5, <1>6, Zenon
<1> QED
  BY <1>3, <1>4, <1>7, Zenon DEF Place

\* One character further, begin is right.
LEMMA OpenStep ==
    ASSUME Standing, text' = text, i' = i + 1,
           line' = IF text[i] = "eol" THEN line + 1 ELSE line,
           begin' = IF InWord(i) THEN (IF begin = 0 THEN i ELSE begin) ELSE 0
    PROVE  OpenWord'
<1>1. i \in Nat /\ i > 0 /\ line = LineOf(i) /\ begin \in Nat /\ begin <= i - 1 /\ i' - 1 = i
  <2>1. i \in Nat /\ i > 0 /\ line = LineOf(i) /\ begin \in Nat /\ begin <= i - 1
    BY Here
  <2> QED
    BY <2>1
<1>2. /\ LineOf(begin)' = LineOf(begin')
      /\ InWord(i - 1)' = InWord(i' - 1) /\ InWord(begin - 1)' = InWord(begin' - 1)
  BY PlacesFixed
<1>3. \A p : InWord(p)' = InWord(p)
  BY TextFixed
<1>4. CASE ~InWord(i)
  <2>1. begin' = 0 /\ ~InWord(i - 1)'
    BY <1>1, <1>2, <1>4, Zenon
  <2> QED
    BY <2>1, Zenon DEF OpenWord
<1>5. CASE InWord(i)
  <2>1. line' = line
    BY <1>5, WordIs
  <2>2. CASE begin = 0
    <3>0. begin' = i
      BY <2>2, <1>5, Zenon
    <3>1. begin' = i /\ begin' # 0
      BY <3>0, <1>1
    <3>2. ~InWord(i - 1)
      BY <2>2, OpenIs
    <3>3. \A p \in i..i : p = i
      BY <1>1
    <3>4. \A p \in begin'..(i' - 1) : InWord(p)'
      BY <3>1, <3>3, <1>1, <1>3, <1>5, Zenon
    <3>5. LineOf(begin)' = line' /\ ~InWord(begin - 1)'
      BY <3>1, <3>2, <2>1, <1>1, <1>2, Zenon
    <3> QED
      BY <3>1, <3>4, <3>5, Zenon DEF OpenWord
  <2>3. CASE begin # 0
    <3>1. begin' = begin
      BY <2>3, <1>5
    <3>2. LineOf(begin) = line /\ ~InWord(begin - 1) /\ \A p \in begin..(i - 1) : InWord(p)
      BY <2>3 DEF Standing, OpenWord
    <3>3. \A p \in begin..i : p = i \/ p \in begin..(i - 1)
      BY <1>1
    <3>4. \A p \in begin'..(i' - 1) : InWord(p)'
      BY <3>1, <3>2, <3>3, <1>1, <1>3, <1>5, Zenon
    <3>5. LineOf(begin)' = line' /\ ~InWord(begin - 1)'
      BY <3>1, <3>2, <2>1, <1>2, Zenon
    <3> QED
      BY <3>1, <3>4, <3>5, <2>3, Zenon DEF OpenWord
  <2> QED
    BY <2>2, <2>3
<1> QED
  BY <1>4, <1>5

\* Inside a line, the words are right.
LEMMA WordsStep ==
    ASSUME Standing, text' = text, i' = i + 1, line' = line, InOrder(words', WordsUpTo(i)),
           Cardinality(WordsUpTo(i)) = Len(words'), in_directive' <=> words' # <<>>
    PROVE  WordsFound'
<1>1. i \in Nat /\ line = LineOf(i) /\ i' - 1 = i
  <2>1. i \in Nat /\ line = LineOf(i)
    BY Here
  <2> QED
    BY <2>1
<1>2. Ended' = {w \in WordsOf(line') : w[2] < i' - 1}
  BY PlacesFixed
<1>3. Ended' = WordsUpTo(i)
  BY <1>1, <1>2, Zenon DEF WordsUpTo
<1>4. InOrder(words, Ended)'
  BY <1>3, Zenon DEF InOrder
<1> QED
  BY <1>3, <1>4, Zenon DEF WordsFound

\* The directives cl saved before line ln are those of the text, but for those
\* of the lines in dr.
Exact(cl, dr, ln) ==
    /\ \A k \in DOMAIN cl :
          /\ cl[k].line \in 1..(ln - 1) /\ cl[k].line \notin dr
          /\ cl[k].words # <<>> /\ InOrder(cl[k].words, WordsOf(cl[k].line))
          /\ \A j \in 1..(k - 1) : cl[j].line < cl[k].line
    /\ \A l \in 1..(ln - 1) :
          WordsOf(l) # {} => l \in dr \/ \E k \in DOMAIN cl : cl[k].line = l

\* That is what DirectivesExact says.
LEMMA ExactIs ==
    ASSUME text' = text
    PROVE  /\ DirectivesExact <=> Exact(conf_list, dropped, line)
           /\ DirectivesExact' <=> Exact(conf_list', dropped', line')
<1>1. DirectivesExact <=> Exact(conf_list, dropped, line)
  BY Zenon DEF DirectivesExact, Exact
<1>2. \A l : WordsOf(l)' = WordsOf(l)
  BY TextFixed
<1>3. DirectivesExact' <=> Exact(conf_list', dropped', line')
  BY <1>2, Zenon DEF DirectivesExact, Exact, InOrder
<1> QED
  BY <1>1, <1>3

\* A finished line without a directive, or whose directive is dropped.
LEMMA LineSkipped ==
    ASSUME NEW cl, NEW dr, NEW ln \in Nat, ln > 0, Exact(cl, dr, ln),
           NEW more, more \subseteq {ln}, WordsOf(ln) # {} => ln \in more
    PROVE  Exact(cl, dr \cup more, ln + 1)
<1>1. (ln + 1) - 1 = ln /\ (\A l \in 1..(ln - 1) : l \in 1..ln /\ l # ln)
      /\ \A l \in 1..ln : l = ln \/ l \in 1..(ln - 1)
  OBVIOUS
<1>2. ASSUME NEW k \in DOMAIN cl
      PROVE  cl[k].line \in 1..ln /\ cl[k].line \notin dr \cup more
  <2>1. cl[k].line \in 1..(ln - 1) /\ cl[k].line \notin dr
    BY Zenon DEF Exact
  <2> QED
    BY <2>1, <1>1
<1>3. ASSUME NEW l \in 1..ln, WordsOf(l) # {}
      PROVE  l \in dr \cup more \/ \E k \in DOMAIN cl : cl[k].line = l
  <2>1. CASE l = ln
    BY <2>1, <1>3
  <2>2. CASE l \in 1..(ln - 1)
    BY <2>2, <1>3, Zenon DEF Exact
  <2> QED
    BY <2>1, <2>2, <1>1
<1> QED
  BY <1>1, <1>2, <1>3, Zenon DEF Exact

\* A finished line whose directive is saved.
LEMMA LineSaved ==
    ASSUME NEW D, NEW cl \in Seq(D), NEW dr, NEW ln \in Nat, ln > 0, Exact(cl, dr, ln),
           dr \subseteq 1..(ln - 1), NEW d \in D, d.line = ln, d.words # <<>>,
           InOrder(d.words, WordsOf(ln))
    PROVE  Exact(Append(cl, d), dr, ln + 1)
<1> DEFINE cs == Append(cl, d)
<1>1. /\ (ln + 1) - 1 = ln /\ ln \in 1..ln /\ (\A l \in 1..(ln - 1) : l \in 1..ln /\ l # ln /\ l < ln)
      /\ \A l \in 1..ln : l = ln \/ l \in 1..(ln - 1)
  OBVIOUS
<1>2. PICK n \in Nat : n = Len(cl) /\ DOMAIN cl = 1..n
  OBVIOUS
<1>3. cs \in Seq(D) /\ Len(cs) = n + 1 /\ cs[n + 1] = d /\ \A k \in 1..n : cs[k] = cl[k]
  BY <1>2, Appended
<1>4. DOMAIN cs = 1..(n + 1)
  BY <1>3
<1> HIDE DEF cs
<1>5. /\ n + 1 \in 1..(n + 1) /\ (n + 1) - 1 = n
      /\ (\A k \in 1..(n + 1) : k \in 1..n \/ k = n + 1)
      /\ \A k \in 1..n : k \in 1..(n + 1) /\ \A j \in 1..(k - 1) : j \in 1..n
  OBVIOUS
<1>6. ASSUME NEW k \in 1..n
      PROVE  /\ cl[k].line \in 1..(ln - 1) /\ cl[k].line \notin dr
             /\ cl[k].words # <<>> /\ InOrder(cl[k].words, WordsOf(cl[k].line))
             /\ \A j \in 1..(k - 1) : cl[j].line < cl[k].line
  BY <1>2, Zenon DEF Exact
<1>7. ASSUME NEW k \in 1..(n + 1)
      PROVE  /\ cs[k].line \in 1..ln /\ cs[k].line \notin dr
             /\ cs[k].words # <<>> /\ InOrder(cs[k].words, WordsOf(cs[k].line))
             /\ \A j \in 1..(k - 1) : cs[j].line < cs[k].line
  <2>1. CASE k \in 1..n
    <3>1. cs[k] = cl[k] /\ \A j \in 1..(k - 1) : cs[j] = cl[j]
      BY <2>1, <1>3, <1>5, Zenon
    <3> QED
      BY <3>1, <2>1, <1>1, <1>6, Zenon
  <2>2. CASE k = n + 1
    <3>1. cs[k] = d
      BY <2>2, <1>3, Zenon
    <3>2. ln \notin dr
      BY <1>1
    <3>3. ASSUME NEW j \in 1..n PROVE cs[j].line < ln
      BY <1>1, <1>3, <1>6, Zenon
    <3> QED
      BY <3>1, <3>2, <3>3, <2>2, <1>1, <1>5, Zenon
  <2> QED
    BY <2>1, <2>2, <1>5
<1>8. ASSUME NEW l \in 1..ln, WordsOf(l) # {}
      PROVE  l \in dr \/ \E k \in 1..(n + 1) : cs[k].line = l
  <2>1. CASE l = ln
    BY <2>1, <1>3, <1>5, Zenon
  <2>2. CASE l \in 1..(ln - 1)
    <3>1. l \in dr \/ \E k \in 1..n : cl[k].line = l
      BY <2>2, <1>2, <1>8, Zenon DEF Exact
    <3> QED
      BY <3>1, <1>3, <1>5, Zenon
  <2> QED
    BY <2>1, <2>2, <1>1
<1>9. Exact(cs, dr, ln + 1)
  BY <1>1, <1>4, <1>7, <1>8, Zenon DEF Exact
<1> QED
  BY <1>9 DEF cs

\* A character passed without a reason to stop.
LEMMA VerdictStep ==
    ASSUME Standing, VerdictRight, i \notin Offending,
           text' = text, i' = i + 1, result' = "parse"
    PROVE  VerdictRight'
<1>1. i \in Nat /\ i > 0
  BY Here
<1>2. Offending' = Offending
  BY TextFixed
<1>3. ASSUME NEW p \in Offending PROVE p >= i'
  <2>1. p >= i /\ p # i
    BY Zenon DEF VerdictRight
  <2>2. p \in Nat
    <3>1. p \in DOMAIN text
      BY Zenon DEF Offending, Visible
    <3> QED
      BY <3>1 DEF Standing, TypeOK
  <2> QED
    BY <2>1, <2>2, <1>1
<1> QED
  BY <1>2, <1>3 DEF VerdictRight

\* A step that looks at a character stands at it.
LEMMA Stands ==
    ASSUME TypeOK, Place, OpenWord, Char # "nul"
    PROVE  Standing
<1>1. i \in Nat /\ Len(text) \in Nat
  BY DEF TypeOK
<1>2. ~(i > Len(text)) /\ text[i] # "nul"
  BY DEF Char
<1>3. i <= Len(text)
  BY <1>1, <1>2
<1> QED
  BY <1>2, <1>3, Zenon DEF Standing

\* Inside a line nothing is saved.
LEMMA SavedStays ==
    ASSUME DirectivesExact, dropped \subseteq 1..(line - 1),
           text' = text, conf_list' = conf_list, dropped' = dropped, line' = line
    PROVE  DirectivesExact' /\ (dropped \subseteq 1..(line - 1))'
<1>1. Exact(conf_list, dropped, line)
  BY ExactIs
<1>2. Exact(conf_list', dropped', line')
  BY <1>1, Zenon
<1> QED
  BY <1>2, ExactIs

\* What TextInv says besides the types.
Right == /\ Place /\ OpenWord /\ WordsFound
         /\ dropped \subseteq 1..(line - 1) /\ DirectivesExact /\ VerdictRight

\* A blank.
LEMMA BlankRight ==
    ASSUME TextInv, result = "parse", Blank
    PROVE  Right'
<1>1. /\ Char = "blank" /\ ~TooMany /\ words' = WordsRead
      /\ in_directive' = (in_directive \/ Found) /\ begin' = 0 /\ i' = i + 1
      /\ text' = text /\ comment' = comment /\ line' = line /\ conf_list' = conf_list
      /\ dropped' = dropped /\ result' = "parse"
  BY DEF Blank
<1>2. Standing
  BY <1>1, Stands DEF TextInv
<1>3. text[i] = "blank"
  BY <1>1, <1>2, Here
<1>4. Place'
  BY <1>1, <1>2, <1>3, PlaceStep
<1>5. OpenWord'
  BY <1>1, <1>2, <1>3, OpenStep, WordHere
<1>6. WordsFound'
  <2>1. /\ InOrder(WordsRead, WordsUpTo(i)) /\ Cardinality(WordsUpTo(i)) = Len(WordsRead)
        /\ in_directive \/ Found <=> WordsRead # <<>>
    BY <1>2, <1>3, WordsReadRight DEF TextInv
  <2>2. in_directive' <=> words' # <<>>
    BY <2>1, <1>1, Zenon
  <2> QED
    BY <2>1, <2>2, <1>1, <1>2, WordsStep
<1>7. VerdictRight'
  <2>1. i \notin Offending
    BY <1>1, <1>2, OffendingHere DEF TextInv
  <2> QED
    BY <2>1, <1>1, <1>2, VerdictStep DEF TextInv
<1>8. DirectivesExact' /\ (dropped \subseteq 1..(line - 1))'
  BY <1>1, SavedStays DEF TextInv
<1> QED
  BY <1>4, <1>5, <1>6, <1>7, <1>8 DEF Right

\* The start of a comment.
LEMMA HashRight ==
    ASSUME TextInv, result = "parse", Hash
    PROVE  Right'
<1>1. /\ Char = "hash" /\ begin = 0 /\ comment' = TRUE /\ i' = i + 1
      /\ text' = text /\ begin' = begin /\ in_directive' = in_directive /\ words' = words
      /\ line' = line /\ conf_list' = conf_list /\ dropped' = dropped /\ result' = "parse"
  BY DEF Hash
<1>2. Standing
  BY <1>1, Stands DEF TextInv
<1>3. text[i] = "hash"
  BY <1>1, <1>2, Here
<1>4. Place'
  BY <1>1, <1>2, <1>3, PlaceStep
<1>5. OpenWord'
  BY <1>1, <1>2, <1>3, OpenStep, WordHere
<1>6. WordsFound'
  <2>1. WordsUpTo(i) = Ended
    BY <1>1, <1>2, NoWordEnds
  <2>2. InOrder(words, Ended) /\ Cardinality(Ended) = Len(words) /\ (in_directive <=> words # <<>>)
    BY DEF TextInv, WordsFound
  <2>3. in_directive' <=> words' # <<>>
    BY <2>2, <1>1, Zenon
  <2>4. InOrder(words', WordsUpTo(i)) /\ Cardinality(WordsUpTo(i)) = Len(words')
    BY <2>1, <2>2, <1>1, Zenon
  <2> QED
    BY <2>3, <2>4, <1>1, <1>2, WordsStep
<1>7. VerdictRight'
  <2>1. ~TooMany
    BY <1>1 DEF TooMany, Found
  <2>2. i \notin Offending
    BY <2>1, <1>1, <1>2, OffendingHere DEF TextInv
  <2> QED
    BY <2>2, <1>1, <1>2, VerdictStep DEF TextInv
<1>8. DirectivesExact' /\ (dropped \subseteq 1..(line - 1))'
  BY <1>1, SavedStays DEF TextInv
<1> QED
  BY <1>4, <1>5, <1>6, <1>7, <1>8 DEF Right

\* A character of a word or of a comment.
LEMMA AsciiRight ==
    ASSUME TextInv, result = "parse", Ascii
    PROVE  Right'
<1>1. /\ Char = "word" /\ begin' = (IF begin = 0 /\ ~comment THEN i ELSE begin) /\ i' = i + 1
      /\ text' = text /\ comment' = comment /\ in_directive' = in_directive /\ words' = words
      /\ line' = line /\ conf_list' = conf_list /\ dropped' = dropped /\ result' = "parse"
  BY DEF Ascii
<1>2. Standing
  BY <1>1, Stands DEF TextInv
<1>3. text[i] = "word"
  BY <1>1, <1>2, Here
<1>4. comment \in BOOLEAN
  BY DEF TextInv, TypeOK
<1>5. (begin # 0 => comment = FALSE) /\ (InWord(i) <=> comment = FALSE)
  BY <1>2, <1>3, OpenIs, WordHere
<1>6. begin = 0 \/ InWord(i)
  BY <1>5, Zenon
<1>7. begin' = IF InWord(i) THEN (IF begin = 0 THEN i ELSE begin) ELSE 0
  <2>1. CASE comment = TRUE
    BY <2>1, <1>1, <1>5
  <2>2. CASE comment = FALSE
    BY <2>2, <1>1, <1>5
  <2> QED
    BY <2>1, <2>2, <1>4
<1>8. Place'
  BY <1>1, <1>2, <1>3, PlaceStep
<1>9. OpenWord'
  BY <1>1, <1>2, <1>3, <1>7, OpenStep
<1>10. WordsFound'
  <2>1. WordsUpTo(i) = Ended
    BY <1>2, <1>6, NoWordEnds
  <2>2. InOrder(words, Ended) /\ Cardinality(Ended) = Len(words) /\ (in_directive <=> words # <<>>)
    BY DEF TextInv, WordsFound
  <2>3. in_directive' <=> words' # <<>>
    BY <2>2, <1>1, Zenon
  <2>4. InOrder(words', WordsUpTo(i)) /\ Cardinality(WordsUpTo(i)) = Len(words')
    BY <2>1, <2>2, <1>1, Zenon
  <2> QED
    BY <2>3, <2>4, <1>1, <1>2, WordsStep
<1>11. VerdictRight'
  <2>1. ~TooMany
    BY <1>1 DEF TooMany, Found
  <2>2. i \notin Offending
    BY <2>1, <1>1, <1>2, OffendingHere DEF TextInv
  <2> QED
    BY <2>2, <1>1, <1>2, VerdictStep DEF TextInv
<1>12. DirectivesExact' /\ (dropped \subseteq 1..(line - 1))'
  BY <1>1, SavedStays DEF TextInv
<1> QED
  BY <1>8, <1>9, <1>10, <1>11, <1>12 DEF Right

\* The end of a line, with its directive saved or lost.
LEMMA EndOfLineRight ==
    ASSUME TextInv, result = "parse", EndOfLine
    PROVE  Right'
<1>1. /\ Char = "eol" /\ ~TooMany /\ words' = <<>> /\ in_directive' = FALSE /\ comment' = FALSE
      /\ begin' = 0 /\ i' = i + 1 /\ line' = line + 1 /\ text' = text /\ result' = "parse"
  BY DEF EndOfLine, AfterEol
<1>2. Standing
  BY <1>1, Stands DEF TextInv
<1>3. text[i] = "eol" /\ line \in Nat /\ line > 0 /\ i \in Nat
  BY <1>1, <1>2, Here
<1>4. Place'
  BY <1>1, <1>2, <1>3, PlaceStep
<1>5. OpenWord'
  BY <1>1, <1>2, <1>3, OpenStep, WordHere
<1>6. WordsUpTo(i) = WordsOf(line) /\ {w \in WordsOf(line + 1) : w[2] < i} = {}
  BY <1>2, <1>3, LineEnds
<1>7. WordsFound'
  <2>1. Ended' = {w \in WordsOf(line') : w[2] < i' - 1}
    BY <1>1, PlacesFixed
  <2>2. i' - 1 = i
    BY <1>1, <1>3
  <2>3. Ended' = {}
    BY <2>1, <2>2, <1>1, <1>6, Zenon
  <2>4. InOrder(<<>>, {})
    BY DEF InOrder
  <2>5. InOrder(words, Ended)'
    <3>1. InOrder(words', Ended')
      BY <2>3, <2>4, <1>1, Zenon
    <3> QED
      BY <3>1, Zenon DEF InOrder
  <2>6. Cardinality(Ended') = Len(words')
    BY <2>3, <1>1, FS_EmptySet
  <2>7. in_directive' <=> words' # <<>>
    BY <1>1
  <2> QED
    BY <2>5, <2>6, <2>7 DEF WordsFound
<1>8. VerdictRight'
  <2>1. i \notin Offending
    BY <1>1, <1>2, OffendingHere DEF TextInv
  <2> QED
    BY <2>1, <1>1, <1>2, VerdictStep DEF TextInv
<1>9. InOrder(WordsRead, WordsOf(line)) /\ (in_directive \/ Found <=> WordsRead # <<>>)
  BY <1>2, <1>3, <1>6, WordsReadRight DEF TextInv
<1>10. Exact(conf_list, dropped, line) /\ dropped \subseteq 1..(line - 1)
  BY <1>1, ExactIs DEF TextInv
<1>11. WordsOf(line) # {} => WordsRead # <<>>
  <2>1. WordsRead = <<>> => {WordsRead[k] : k \in DOMAIN WordsRead} = {}
    OBVIOUS
  <2> QED
    BY <2>1, <1>9, Zenon DEF InOrder
<1>12. Exact(conf_list', dropped', line') /\ (dropped' = dropped \/ dropped' = dropped \cup {line})
  <2>1. CASE ~(in_directive \/ Found)
    <3>1. conf_list' = conf_list /\ dropped' = dropped
      BY <2>1 DEF EndOfLine
    <3>2. WordsOf(line) = {}
      BY <2>1, <1>9, <1>11, Zenon
    <3>3. Exact(conf_list, dropped \cup {}, line + 1)
      BY <3>2, <1>3, <1>10, LineSkipped
    <3>4. dropped \cup {} = dropped
      OBVIOUS
    <3> QED
      BY <3>1, <3>3, <3>4, <1>1, Zenon
  <2>2. CASE in_directive \/ Found
    <3>1. fpx_config_save_directive
      BY <2>2 DEF EndOfLine
    <3>2. CASE dropped' = dropped \cup {line} /\ conf_list' = conf_list
      <4>1. Exact(conf_list, dropped \cup {line}, line + 1)
        BY <1>3, <1>10, LineSkipped
      <4> QED
        BY <4>1, <3>2, <1>1, Zenon
    <3> DEFINE d == [words |-> WordsRead, line |-> line]
               D == [words : Seq(Positions \X Positions), line : 1..MaxText] \cup {d}
    <3>3. CASE conf_list' = Append(conf_list, d) /\ dropped' = dropped
      <4>1. d.line = line /\ d.words = WordsRead /\ d \in D
        OBVIOUS
      <4>2. conf_list \in Seq(D)
        <5>1. conf_list \in Seq([words : Seq(Positions \X Positions), line : 1..MaxText])
          BY DEF TextInv, TypeOK
        <5>2. ASSUME NEW A, NEW B, A \subseteq B, NEW s \in Seq(A) PROVE s \in Seq(B)
          BY <5>2
        <5>3. [words : Seq(Positions \X Positions), line : 1..MaxText] \subseteq D
          OBVIOUS
        <5> HIDE DEF D
        <5> QED
          BY <5>1, <5>2, <5>3
      <4> HIDE DEF d, D
      <4>3. d.words # <<>> /\ InOrder(d.words, WordsOf(line))
        BY <4>1, <2>2, <1>9, Zenon
      <4>4. Exact(Append(conf_list, d), dropped, line + 1)
        BY <4>1, <4>2, <4>3, <1>3, <1>10, LineSaved
      <4> QED
        BY <4>4, <3>3, <1>1, Zenon
    <3> QED
      BY <3>1, <3>2, <3>3 DEF fpx_config_save_directive
  <2> QED
    BY <2>1, <2>2
<1>13. DirectivesExact'
  BY <1>1, <1>12, ExactIs
<1>14. (dropped \subseteq 1..(line - 1))'
  <2>1. dropped' \subseteq dropped \cup {line}
    BY <1>12
  <2>2. dropped \cup {line} \subseteq 1..((line + 1) - 1)
    BY <1>3, <1>10
  <2> QED
    BY <2>1, <2>2, <1>1
<1> QED
  BY <1>4, <1>5, <1>7, <1>8, <1>13, <1>14 DEF Right

\* A step that only changes the result keeps everything but the verdict.
LEMMA OnlyResult ==
    ASSUME TextInv, UNCHANGED <<text, i, begin, comment, in_directive, words, line, conf_list, dropped>>
    PROVE  /\ Place' /\ OpenWord' /\ WordsFound'
           /\ (dropped \subseteq 1..(line - 1))' /\ DirectivesExact' /\ Offending' = Offending
<1>1. /\ LineOf(i)' = LineOf(i') /\ LineOf(begin)' = LineOf(begin')
      /\ InWord(i - 1)' = InWord(i' - 1) /\ InWord(begin - 1)' = InWord(begin' - 1)
      /\ Ended' = {w \in WordsOf(line') : w[2] < i' - 1}
  BY PlacesFixed
<1>2. (\A p : LineOf(p)' = LineOf(p)) /\ (\A p : InWord(p)' = InWord(p)) /\ Offending' = Offending
  BY TextFixed
<1>3. Ended' = Ended
  BY <1>1, Zenon DEF Ended
<1>4. Place'
  <2>1. Place
    BY DEF TextInv
  <2>2. \A p \in 1..(i' - 1) : text'[p] # "nul"
    BY <2>1, Zenon DEF Place
  <2>3. line' = LineOf(i)'
    BY <2>1, <1>1, Zenon DEF Place
  <2>4. comment \in BOOLEAN
    BY DEF TextInv, TypeOK
  <2>5. comment <=> \E q \in 1..(i - 1) : text[q] = "hash" /\ LineOf(q) = line
    BY <2>1 DEF Place
  <2>6. (\E q \in 1..(i - 1) : text[q] = "hash" /\ LineOf(q) = line)
        <=> \E q \in 1..(i' - 1) : text'[q] = "hash" /\ LineOf(q)' = line'
    BY <1>2, Zenon
  <2>7. comment' <=> comment
    <3>1. CASE comment = TRUE
      BY <3>1
    <3>2. CASE comment = FALSE
      BY <3>2
    <3> QED
      BY <3>1, <3>2, <2>4
  <2> QED
    BY <2>2, <2>3, <2>5, <2>6, <2>7, Zenon DEF Place
<1>5. OpenWord'
  <2>1. OpenWord
    BY DEF TextInv
  <2> QED
    BY <2>1, <1>1, <1>2, Zenon DEF OpenWord
<1>6. WordsFound'
  <2>1. InOrder(words, Ended) /\ Cardinality(Ended) = Len(words) /\ (in_directive <=> words # <<>>)
    BY DEF TextInv, WordsFound
  <2>2. InOrder(words, Ended)'
    BY <2>1, <1>3, Zenon DEF InOrder
  <2>3. in_directive \in BOOLEAN
    BY DEF TextInv, TypeOK
  <2>4. in_directive' <=> words' # <<>>
    <3>1. CASE in_directive = TRUE
      BY <3>1, <2>1
    <3>2. CASE in_directive = FALSE
      BY <3>2, <2>1
    <3> QED
      BY <3>1, <3>2, <2>3
  <2>5. Cardinality(Ended') = Len(words')
    BY <2>1, <1>3, Zenon
  <2> QED
    BY <2>2, <2>4, <2>5 DEF WordsFound
<1>7. DirectivesExact' /\ (dropped \subseteq 1..(line - 1))'
  BY SavedStays DEF TextInv
<1> QED
  BY <1>2, <1>4, <1>5, <1>6, <1>7

\* The end of the text is reached without a reason to refuse it.
LEMMA EndRight ==
    ASSUME TextInv, Char = "nul"
    PROVE  Offending = {}
<1> SUFFICES ASSUME NEW p \in Offending PROVE FALSE
  OBVIOUS
<1>1. PICK n \in Nat : n = Len(text) /\ DOMAIN text = 1..n /\ i \in 1..(n + 1)
  BY DEF TextInv, TypeOK
<1>2. p \in 1..n /\ \A q \in 1..n : text[q] = "nul" => p < q
  BY <1>1 DEF Offending, Visible
<1>3. p >= i
  BY DEF TextInv, VerdictRight
<1>4. i \in 1..n /\ text[i] = "nul"
  BY <1>1, <1>2, <1>3 DEF Char
<1> QED
  BY <1>1, <1>2, <1>3, <1>4

\* The ends of reading.
LEMMA ReturnRight ==
    ASSUME TextInv, result = "parse", EndOfFile \/ SyntaxError \/ NoMemory
    PROVE  Right'
<1>1. PICK outcome \in Outcomes :
        /\ result' = outcome /\ outcome # "parse"
        /\ UNCHANGED <<text, i, begin, comment, in_directive, words, line, conf_list, dropped>>
        /\ outcome = "FPX_OK" => EndOfFile
        /\ outcome = "FPX_ERR_CONFIG_SYNTAX" => SyntaxError
  BY DEF EndOfFile, SyntaxError, NoMemory, Return, Outcomes
<1>2. /\ Place' /\ OpenWord' /\ WordsFound'
      /\ (dropped \subseteq 1..(line - 1))' /\ DirectivesExact' /\ Offending' = Offending
  BY <1>1, OnlyResult
<1>3. \A p \in Offending : p >= i
  BY DEF TextInv, VerdictRight
<1>4. ASSUME result' = "FPX_OK" PROVE Offending = {}
  <2>1. Char = "nul"
    BY <1>1, <1>4 DEF EndOfFile
  <2> QED
    BY <2>1, EndRight
<1>5. ASSUME result' = "FPX_ERR_CONFIG_SYNTAX" PROVE i \in Offending
  <2>1. (Char = "hash" /\ begin # 0) \/ Char = "binary" \/ TooMany
    BY <1>1, <1>5 DEF SyntaxError
  <2>2. Char # "nul"
    BY <2>1 DEF TooMany, Found
  <2>3. Standing
    BY <2>2, Stands DEF TextInv
  <2> QED
    BY <2>1, <2>3, OffendingHere DEF TextInv
<1>6. VerdictRight'
  <2>1. result' = "FPX_ERR_CONFIG_SYNTAX" => i' \in Offending'
    BY <1>1, <1>2, <1>5
  <2>2. \A p \in Offending' : p >= i'
    BY <1>1, <1>2, <1>3
  <2>3. result' = "FPX_OK" => Offending' = {}
    BY <1>2, <1>4
  <2> QED
    BY <2>1, <2>2, <2>3 DEF VerdictRight
<1> QED
  BY <1>2, <1>6 DEF Right

\* At the first character everything is right, whatever the text.
LEMMA FirstRight ==
    ASSUME text \in Seq(Classes), i = 1, begin = 0, comment = FALSE, in_directive = FALSE,
           words = <<>>, line = 1, conf_list = <<>>, dropped = {}, result \in {"read", "parse"}
    PROVE  Right
<1>1. PICK n \in Nat : n = Len(text) /\ DOMAIN text = 1..n
  OBVIOUS
<1>2. Visible \subseteq 1..n
  BY <1>1 DEF Visible
<1>3. Place
  <2>1. LineOf(1) = 1
    BY LineSteps, 1 \in Nat, 1 > 0
  <2>2. \A p \in 1..(i - 1) : FALSE
    OBVIOUS
  <2> QED
    BY <2>1, <2>2 DEF Place
<1>4. OpenWord
  <2>1. i - 1 = 0 /\ 0 \notin 1..n
    OBVIOUS
  <2>2. ~InWord(0)
    BY <2>1, <1>2 DEF InWord
  <2> QED
    BY <2>1, <2>2 DEF OpenWord
<1>5. WordsFound
  <2>1. Ended = {}
    <3> SUFFICES ASSUME NEW w \in Ended PROVE FALSE
      OBVIOUS
    <3>1. w \in Visible \X Visible /\ w[2] < i - 1
      BY DEF Ended, WordsOf
    <3>2. w[2] \in Visible
      <4>1. w \in Visible \X Visible
        BY <3>1
      <4> QED
        BY <4>1
    <3>3. w[2] \in 1..n
      BY <3>2, <1>2
    <3> QED
      BY <3>1, <3>3
  <2>2. InOrder(<<>>, {})
    BY DEF InOrder
  <2>3. Cardinality({}) = 0 /\ Len(<<>>) = 0
    BY FS_EmptySet
  <2> QED
    BY <2>1, <2>2, <2>3 DEF WordsFound
<1>6. DirectivesExact
  <2>1. DOMAIN conf_list = {} /\ \A l \in 1..(line - 1) : FALSE
    OBVIOUS
  <2> QED
    BY <2>1, Zenon DEF DirectivesExact
<1>7. VerdictRight
  <2>1. ASSUME NEW p \in Offending PROVE p >= i
    <3>1. p \in 1..n
      BY <1>2 DEF Offending
    <3> QED
      BY <3>1
  <2> QED
    BY <2>1 DEF VerdictRight
<1> QED
  BY <1>3, <1>4, <1>5, <1>6, <1>7 DEF Right

\* TextInv is inductive.
LEMMA TextStep ==
    ASSUME TextInv, [Next]_vars
    PROVE  TextInv'
<1>1. TypeOK' /\ Untouched'
  BY TypeStep DEF TextInv
<1> SUFFICES Right'
  BY <1>1 DEF TextInv, Right
<1>2. ASSUME UNCHANGED <<text, i, begin, comment, in_directive, words, line, conf_list, dropped>>,
             result' \in {result, "errno"}
      PROVE  Right'
  <2>1. /\ Place' /\ OpenWord' /\ WordsFound'
        /\ (dropped \subseteq 1..(line - 1))' /\ DirectivesExact' /\ Offending' = Offending
    BY <1>2, OnlyResult
  <2>2. VerdictRight'
    BY <2>1, <1>2 DEF TextInv, VerdictRight
  <2> QED
    BY <2>1, <2>2 DEF Right
<1>3. CASE UNCHANGED vars
  BY <1>2, <1>3 DEF vars
<1>4. CASE ReadFails
  BY <1>2, <1>4 DEF ReadFails, Return
<1>5. CASE fpx_config_read
  <2>1. /\ i' = 1 /\ begin' = 0 /\ comment' = FALSE /\ in_directive' = FALSE /\ words' = <<>>
        /\ line' = 1 /\ conf_list' = <<>> /\ dropped' = {} /\ result' = "parse"
    BY <1>5 DEF fpx_config_read, TextInv, Untouched
  <2>2. text' \in Seq(Classes)
    BY <1>1 DEF TypeOK
  <2>3. (text \in Seq(Classes) /\ i = 1 /\ begin = 0 /\ comment = FALSE /\ in_directive = FALSE
         /\ words = <<>> /\ line = 1 /\ conf_list = <<>> /\ dropped = {} /\ result \in {"read", "parse"})'
        => Right'
    BY FirstRight, PTL
  <2> QED
    BY <2>1, <2>2, <2>3
<1>6. CASE fpx_config_parse
  BY <1>6, BlankRight, HashRight, AsciiRight, EndOfLineRight, ReturnRight DEF fpx_config_parse
<1> QED
  BY <1>3, <1>4, <1>5, <1>6 DEF Next

\* It holds from the start.
LEMMA TextInvariant ==
    Spec => []TextInv
<1>1. Init => TextInv
  <2> SUFFICES ASSUME Init PROVE TextInv
    OBVIOUS
  <2>1. TypeOK /\ Untouched
    BY TypeInit
  <2>2. text \in Seq(Classes)
    BY <2>1 DEF TypeOK
  <2>3. Right
    BY <2>2, FirstRight DEF Init
  <2> QED
    BY <2>1, <2>3 DEF TextInv, Right
<1>2. TextInv /\ [Next]_vars => TextInv'
  BY TextStep
<1> QED
  BY <1>1, <1>2, PTL DEF Spec

\* For every file and every number of arguments, with reads cut short and
\* allocations that fail: the directives that fpx_config_parse has saved are
\* those of the finished lines of the text, with all their words, in order and
\* with their line numbers, but for those whose own allocation failed.
THEOREM DirectivesRight ==
    Spec => []DirectivesExact
<1>1. TextInv => DirectivesExact
  BY DEF TextInv
<1> QED
  BY <1>1, TextInvariant, PTL

\* For every file: fpx_config_parse refuses it at the first character that
\* offends, never before and never later, and accepts it only without one.
THEOREM VerdictsRight ==
    Spec => []VerdictRight
<1>1. TextInv => VerdictRight
  BY DEF TextInv
<1> QED
  BY <1>1, TextInvariant, PTL
=============================================================================
