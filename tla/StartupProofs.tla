---------------------------- MODULE StartupProofs ----------------------------
(***************************************************************************)
(* Proofs about the start-up: what holds for every set of files, modules,  *)
(* command lines and identities; and before that what fpx_parse_argv does  *)
(* with every command line: the recursion over the letters of the          *)
(* arguments and the values behind them is well founded (ReadingExists),   *)
(* its results are options (FromType), and a command line that asks for a  *)
(* test is refused or sets test_config (TestFound).                        *)
(***************************************************************************)
EXTENDS Startup, DataInduction

(***************************************************************************)
(* The command line.                                                       *)
(***************************************************************************)
\* The values of the options.
Opt == [valid : BOOLEAN, show_version : BOOLEAN, show_help : BOOLEAN,
        test_config : BOOLEAN, config_fname : Nat]

\* Where the parser can be: <<argument, letter, last argument used>>.
Spots(argv) == (1..Len(argv)) \X (1..(2 + Longest(argv))) \X (1..Len(argv))

Argv == Seq(Seq(STRING))

\* Longest bounds the length of every argument.
LEMMA LongestIs ==
    ASSUME NEW argv \in Argv, Len(argv) > 0
    PROVE  /\ Longest(argv) \in Nat
           /\ \A j \in 1..Len(argv) : argv[j] \in Seq(STRING) /\ Len(argv[j]) \in Nat
                                        /\ Len(argv[j]) <= Longest(argv)
<1>1. PICK Q : Q = Seq(STRING)
  OBVIOUS
<1>2. Len(argv) \in Nat /\ \A j \in 1..Len(argv) : argv[j] \in Q
  <2>1. argv \in Seq(Q)
    BY <1>1 DEF Argv
  <2> QED
    BY <2>1
<1>3. \A j \in 1..Len(argv) : Len(argv[j]) \in Nat
  BY <1>1, <1>2
<1> DEFINE S == {Len(argv[j]) : j \in 1..Len(argv)}
           T == {m \in Nat : m <= Len(argv) => \E b \in Nat : \A j \in 1..m : Len(argv[j]) <= b}
<1>4. 0 \in T
  OBVIOUS
<1>5. ASSUME NEW m \in Nat, m \in T PROVE m + 1 \in T
  <2> SUFFICES ASSUME m + 1 <= Len(argv)
               PROVE  \E b \in Nat : \A j \in 1..(m + 1) : Len(argv[j]) <= b
    OBVIOUS
  <2>1. PICK b \in Nat : \A j \in 1..m : Len(argv[j]) <= b
    BY <1>2, <1>5
  <2>2. PICK c \in Nat : c = Len(argv[m + 1])
    BY <1>2, <1>3
  <2>3. b + c \in Nat /\ \A j \in 1..(m + 1) : Len(argv[j]) <= b + c
    <3>1. \A j \in 1..m : Len(argv[j]) <= b + c
      BY <1>2, <1>3, <2>1, <2>2
    <3>2. Len(argv[m + 1]) <= b + c
      BY <2>2
    <3> QED
      BY <3>1, <3>2
  <2> QED
    BY <2>3
<1>6. \A m \in Nat : m \in T
  <2> HIDE DEF T
  <2> QED
    BY <1>4, <1>5, NatClosed
<1>7. PICK b \in Nat : \A j \in 1..Len(argv) : Len(argv[j]) <= b
  <2>1. PICK n \in Nat : n = Len(argv)
    BY <1>2
  <2>2. n \in T
    BY <1>6
  <2> QED
    BY <2>1, <2>2
<1>8. S \subseteq Nat /\ S # {} /\ \A s \in S : s <= b
  <2>1. Len(argv[1]) \in S
    BY <1>2
  <2>2. \A s \in S : s \in Nat /\ s <= b
    BY <1>3, <1>7
  <2> QED
    BY <2>1, <2>2
<1>9. \E m \in S : \A l \in S : l <= m
  <2> HIDE DEF S
  <2> QED
    BY <1>8, BoundedMax
<1>10. PICK m : m = CHOOSE k \in S : \A l \in S : l <= k
  OBVIOUS
<1>11. Longest(argv) = m
  BY <1>10, Zenon DEF Longest
<1>12. m \in S /\ \A l \in S : l <= m
  <2> HIDE DEF S
  <2> QED
    BY <1>9, <1>10
<1>13. \A j \in 1..Len(argv) : Len(argv[j]) \in S
  OBVIOUS
<1> QED
  BY <1>1, <1>2, <1>3, <1>8, <1>11, <1>12, <1>13

\* The parser moves on within the argument.
LEMMA AfterIs ==
    ASSUME NEW argv \in Argv, NEW a \in 1..Len(argv), NEW k \in 1..(2 + Longest(argv)),
           k <= Len(argv[a])
    PROVE  After(argv[a], k) \in 1..(2 + Longest(argv)) /\ k < After(argv[a], k)
<1>1. Len(argv) \in Nat
  BY DEF Argv
<1>2. Longest(argv) \in Nat /\ Len(argv[a]) \in Nat /\ Len(argv[a]) <= Longest(argv)
  BY <1>1, LongestIs
<1> QED
  BY <1>2 DEF After, Long

\* The flag that WithFlag chooses is one of the three.
LEMMA FlagIs ==
    ASSUME NEW word, IsFlag(word)
    PROVE  (CHOOSE f \in FlagsOf(word) : TRUE) \in {"show_version", "show_help", "test_config"}
<1>1. (CHOOSE f \in FlagsOf(word) : TRUE) \in FlagsOf(word)
  BY DEF IsFlag
<1> QED
  BY <1>1 DEF FlagsOf, Flags

\* An option with a flag takes no value.
LEMMA FlagNoValue == ASSUME NEW word, IsFlag(word) PROVE word \notin Valued
<1>1. PICK f \in {"show_version", "show_help", "test_config"} : word \in Flags[f]
  BY DEF IsFlag, FlagsOf, Flags
<1> QED
  BY <1>1 DEF Flags, Valued

\* What an option does to the options behind it.
LEMMA FlagSet ==
    ASSUME NEW r \in Opt, NEW word, IsFlag(word)
    PROVE  /\ WithFlag(r, word) \in Opt
           /\ WithFlag(r, word).valid = r.valid
           /\ (r.test_config => WithFlag(r, word).test_config)
           /\ (FlagsOf(word) = {"test_config"} => WithFlag(r, word).test_config)
<1>1. PICK f \in {"show_version", "show_help", "test_config"} : f = CHOOSE e \in FlagsOf(word) : TRUE
  BY FlagIs
<1>2. WithFlag(r, word) = [r EXCEPT ![f] = TRUE]
  BY <1>1 DEF WithFlag
<1>3. FlagsOf(word) = {"test_config"} => f = "test_config"
  BY <1>1
<1>4. CASE f = "show_version"
  BY <1>2, <1>3, <1>4 DEF Opt
<1>5. CASE f = "show_help"
  BY <1>2, <1>3, <1>5 DEF Opt
<1>6. CASE f = "test_config"
  BY <1>2, <1>6 DEF Opt
<1> QED
  BY <1>4, <1>5, <1>6

\* What a file name does to the options behind it.
LEMMA NameSet ==
    ASSUME NEW r \in Opt, NEW i \in Nat
    PROVE  /\ WithFile(r, i) \in Opt
           /\ WithFile(r, i).valid = r.valid /\ WithFile(r, i).test_config = r.test_config
  BY DEF Opt, WithFile

\* y is behind x on the command line.
Later(x, y) == y[3] > x[3] \/ (y[3] = x[3] /\ y[2] > x[2])

\* The parts of a spot.
LEMMA SpotIs ==
    ASSUME NEW argv \in Argv, NEW x \in Spots(argv)
    PROVE  /\ Len(argv) \in Nat /\ Len(argv) > 0 /\ Longest(argv) \in Nat
           /\ x[1] \in 1..Len(argv) /\ x[2] \in 1..(2 + Longest(argv)) /\ x[3] \in 1..Len(argv)
           /\ x = <<x[1], x[2], x[3]>>
<1>1. Len(argv) \in Nat
  BY DEF Argv
<1>2. /\ x[1] \in 1..Len(argv) /\ x[2] \in 1..(2 + Longest(argv)) /\ x[3] \in 1..Len(argv)
      /\ x = <<x[1], x[2], x[3]>>
  BY DEF Spots
<1>3. Len(argv) > 0
  BY <1>1, <1>2
<1> QED
  BY <1>1, <1>2, <1>3, LongestIs

\* Where OptionsFrom goes on from x.
NextArgument(x) == <<x[3] + 1, 2, x[3] + 1>>

NextLetter(argv, x) == <<x[1], After(argv[x[1]], x[2]), x[3]>>

NextValue(argv, x) == <<x[1], After(argv[x[1]], x[2]), x[3] + 1>>

\* The parser goes on to spots that are behind the one it is at.
LEMMA GoesOn ==
    ASSUME NEW argv \in Argv, NEW x \in Spots(argv)
    PROVE  /\ x[3] < Len(argv) => NextArgument(x) \in Spots(argv) /\ Later(x, NextArgument(x))
           /\ x[2] <= Len(argv[x[1]]) =>
                 NextLetter(argv, x) \in Spots(argv) /\ Later(x, NextLetter(argv, x))
           /\ x[2] <= Len(argv[x[1]]) /\ x[3] < Len(argv) =>
                 NextValue(argv, x) \in Spots(argv) /\ Later(x, NextValue(argv, x))
<1>1. /\ Len(argv) \in Nat /\ Len(argv) > 0 /\ Longest(argv) \in Nat
      /\ x[1] \in 1..Len(argv) /\ x[2] \in 1..(2 + Longest(argv)) /\ x[3] \in 1..Len(argv)
  BY SpotIs
<1>2. x[2] <= Len(argv[x[1]]) => /\ After(argv[x[1]], x[2]) \in 1..(2 + Longest(argv))
                                 /\ x[2] < After(argv[x[1]], x[2])
  BY <1>1, AfterIs
<1>3. ASSUME x[3] < Len(argv)
      PROVE  NextArgument(x) \in Spots(argv) /\ Later(x, NextArgument(x))
  <2>1. x[3] + 1 \in 1..Len(argv) /\ 2 \in 1..(2 + Longest(argv)) /\ x[3] + 1 > x[3]
    BY <1>1, <1>3
  <2> QED
    BY <2>1 DEF NextArgument, Spots, Later
<1>4. ASSUME x[2] <= Len(argv[x[1]])
      PROVE  NextLetter(argv, x) \in Spots(argv) /\ Later(x, NextLetter(argv, x))
  BY <1>1, <1>2, <1>4 DEF NextLetter, Spots, Later
<1>5. ASSUME x[2] <= Len(argv[x[1]]), x[3] < Len(argv)
      PROVE  NextValue(argv, x) \in Spots(argv) /\ Later(x, NextValue(argv, x))
  <2>1. x[3] + 1 \in 1..Len(argv) /\ x[3] + 1 > x[3]
    BY <1>1, <1>5
  <2> QED
    BY <1>1, <1>2, <1>5, <2>1 DEF NextValue, Spots, Later
<1> QED
  BY <1>3, <1>4, <1>5

\* OptionsFrom, case by case.
From(argv, g, x) == OptionsFrom(argv, g, x[1], x[2], x[3])

Letter(argv, x) == Word(argv[x[1]], x[2])

ArgumentEnds(argv, x) == x[2] > Len(argv[x[1]])

HasFlag(argv, x) == x[2] <= Len(argv[x[1]]) /\ IsFlag(Letter(argv, x))

HasValue(argv, x) ==
    /\ x[2] <= Len(argv[x[1]]) /\ ~IsFlag(Letter(argv, x))
    /\ Letter(argv, x) \in Valued /\ x[3] < Len(argv)

\* The branches of OptionsFrom exclude each other and leave nothing out.
LEMMA FromCases ==
    ASSUME NEW argv \in Argv, NEW x \in Spots(argv), NEW g
    PROVE  /\ ArgumentEnds(argv, x) /\ x[3] = Len(argv) => From(argv, g, x) = Options(TRUE)
           /\ ArgumentEnds(argv, x) /\ x[3] < Len(argv) /\ Opens(argv, x[3] + 1) =>
                 From(argv, g, x) = g[NextArgument(x)]
           /\ ArgumentEnds(argv, x) /\ x[3] < Len(argv) /\ ~Opens(argv, x[3] + 1) =>
                 From(argv, g, x) = Options(FALSE)
           /\ HasFlag(argv, x) =>
                 From(argv, g, x) = WithFlag(g[NextLetter(argv, x)], Letter(argv, x))
           /\ HasValue(argv, x) =>
                 From(argv, g, x) = WithFile(g[NextValue(argv, x)], x[3] + 1)
           /\ ~ArgumentEnds(argv, x) /\ ~HasFlag(argv, x) /\ ~HasValue(argv, x) =>
                 From(argv, g, x) = Options(FALSE)
<1>1. /\ Len(argv) \in Nat /\ x[1] \in 1..Len(argv) /\ x[2] \in Nat /\ x[3] \in 1..Len(argv)
      /\ Len(argv[x[1]]) \in Nat
  BY SpotIs, LongestIs
<1> USE DEF From, ArgumentEnds, HasFlag, HasValue, Letter
<1>2. ArgumentEnds(argv, x) <=> ~(x[2] <= Len(argv[x[1]]))
  BY <1>1
<1>3. x[3] < Len(argv) => x[3] # Len(argv)
  BY <1>1
<1>4. ArgumentEnds(argv, x) /\ x[3] = Len(argv) => From(argv, g, x) = Options(TRUE)
  BY <1>2, <1>3, Zenon DEF OptionsFrom
<1>5. ArgumentEnds(argv, x) /\ x[3] < Len(argv) /\ Opens(argv, x[3] + 1) =>
         From(argv, g, x) = g[NextArgument(x)]
  BY <1>2, <1>3, Zenon DEF OptionsFrom, NextArgument
<1>6. ArgumentEnds(argv, x) /\ x[3] < Len(argv) /\ ~Opens(argv, x[3] + 1) =>
         From(argv, g, x) = Options(FALSE)
  BY <1>2, <1>3, Zenon DEF OptionsFrom
<1>7. HasFlag(argv, x) =>
         From(argv, g, x) = WithFlag(g[NextLetter(argv, x)], Letter(argv, x))
  <2> SUFFICES ASSUME HasFlag(argv, x)
               PROVE  From(argv, g, x) = WithFlag(g[NextLetter(argv, x)], Letter(argv, x))
    OBVIOUS
  <2>1. ~(x[2] > Len(argv[x[1]])) /\ x[2] <= Len(argv[x[1]])
    BY <1>1
  <2>2. Word(argv[x[1]], x[2]) \notin Valued
    BY FlagNoValue
  <2> QED
    BY <2>1, <2>2, Zenon DEF OptionsFrom, NextLetter
<1>8. HasValue(argv, x) =>
         From(argv, g, x) = WithFile(g[NextValue(argv, x)], x[3] + 1)
  BY <1>2, <1>3, Zenon DEF OptionsFrom, NextValue
<1>9. ~ArgumentEnds(argv, x) /\ ~HasFlag(argv, x) /\ ~HasValue(argv, x) =>
         From(argv, g, x) = Options(FALSE)
  <2>1. ~ArgumentEnds(argv, x) => x[2] <= Len(argv[x[1]])
    BY <1>1
  <2> QED
    BY <2>1, Zenon DEF OptionsFrom
<1> QED
  BY <1>4, <1>5, <1>6, <1>7, <1>8, <1>9

\* The options that the parser starts from.
LEMMA OptionsType == ASSUME NEW b \in BOOLEAN PROVE Options(b) \in Opt /\ Options(b).valid = b
  BY DEF Options, Opt

\* With options behind it, OptionsFrom yields options.
LEMMA FromType ==
    ASSUME NEW argv \in Argv, NEW x \in Spots(argv), NEW g,
           \A y \in Spots(argv) : Later(x, y) => g[y] \in Opt
    PROVE  From(argv, g, x) \in Opt
<1>1. /\ x[3] \in 1..Len(argv) /\ Len(argv) \in Nat /\ x[3] + 1 \in Nat
      /\ x[2] \in Nat /\ x[1] \in 1..Len(argv) /\ Len(argv[x[1]]) \in Nat
  BY SpotIs, LongestIs
<1>2. CASE ArgumentEnds(argv, x) /\ x[3] = Len(argv)
  BY <1>2, FromCases, OptionsType
<1>3. CASE ArgumentEnds(argv, x) /\ x[3] < Len(argv) /\ Opens(argv, x[3] + 1)
  <2>1. g[NextArgument(x)] \in Opt
    BY <1>3, GoesOn
  <2> QED
    BY <1>3, <2>1, FromCases
<1>4. CASE ArgumentEnds(argv, x) /\ x[3] < Len(argv) /\ ~Opens(argv, x[3] + 1)
  BY <1>4, FromCases, OptionsType
<1>5. CASE HasFlag(argv, x)
  <2>1. PICK r \in Opt : r = g[NextLetter(argv, x)]
    BY <1>5, GoesOn DEF HasFlag
  <2>2. From(argv, g, x) = WithFlag(r, Letter(argv, x))
    BY <1>5, <2>1, FromCases
  <2> QED
    BY <1>5, <2>2, FlagSet DEF HasFlag
<1>6. CASE HasValue(argv, x)
  <2>1. PICK r \in Opt : r = g[NextValue(argv, x)]
    BY <1>6, GoesOn DEF HasValue
  <2>2. From(argv, g, x) = WithFile(r, x[3] + 1)
    BY <1>6, <2>1, FromCases
  <2> QED
    BY <1>1, <2>2, NameSet
<1>7. CASE ~ArgumentEnds(argv, x) /\ ~HasFlag(argv, x) /\ ~HasValue(argv, x)
  BY <1>7, FromCases, OptionsType
<1>8. x[3] = Len(argv) \/ x[3] < Len(argv)
  BY <1>1
<1> QED
  BY <1>2, <1>3, <1>4, <1>5, <1>6, <1>7, <1>8

\* OptionsFrom looks only at the spots behind.
LEMMA FromDepends ==
    ASSUME NEW argv \in Argv, NEW x \in Spots(argv), NEW g, NEW h,
           \A y \in Spots(argv) : Later(x, y) => g[y] = h[y]
    PROVE  From(argv, g, x) = From(argv, h, x)
<1>1. /\ x[3] \in 1..Len(argv) /\ Len(argv) \in Nat
      /\ x[2] \in Nat /\ x[1] \in 1..Len(argv) /\ Len(argv[x[1]]) \in Nat
  BY SpotIs, LongestIs
<1>2. CASE ArgumentEnds(argv, x) /\ x[3] = Len(argv)
  BY <1>2, FromCases
<1>3. CASE ArgumentEnds(argv, x) /\ x[3] < Len(argv) /\ Opens(argv, x[3] + 1)
  <2>1. g[NextArgument(x)] = h[NextArgument(x)]
    BY <1>3, GoesOn
  <2> QED
    BY <1>3, <2>1, FromCases
<1>4. CASE ArgumentEnds(argv, x) /\ x[3] < Len(argv) /\ ~Opens(argv, x[3] + 1)
  BY <1>4, FromCases
<1>5. CASE HasFlag(argv, x)
  <2>1. g[NextLetter(argv, x)] = h[NextLetter(argv, x)]
    BY <1>5, GoesOn DEF HasFlag
  <2> QED
    BY <1>5, <2>1, FromCases
<1>6. CASE HasValue(argv, x)
  <2>1. g[NextValue(argv, x)] = h[NextValue(argv, x)]
    BY <1>6, GoesOn DEF HasValue
  <2> QED
    BY <1>6, <2>1, FromCases
<1>7. CASE ~ArgumentEnds(argv, x) /\ ~HasFlag(argv, x) /\ ~HasValue(argv, x)
  BY <1>7, FromCases
<1>8. x[3] = Len(argv) \/ x[3] < Len(argv)
  BY <1>1
<1> QED
  BY <1>2, <1>3, <1>4, <1>5, <1>6, <1>7, <1>8

\* The spots in the order in which they are read, from the right.
Rank(argv) == [x \in Spots(argv) |->
                 (Len(argv) - x[3]) * (3 + Longest(argv)) + ((2 + Longest(argv)) - x[2])]

\* A spot behind another one has a smaller rank.
LEMMA RankIs ==
    ASSUME NEW argv \in Argv, NEW x \in Spots(argv)
    PROVE  /\ Rank(argv)[x] \in Nat
           /\ Rank(argv)[x] < Len(argv) * (3 + Longest(argv))
           /\ \A y \in Spots(argv) : Later(x, y) => Rank(argv)[y] < Rank(argv)[x]
<1>1. PICK n \in Nat, w \in Nat : n = Len(argv) /\ w = 3 + Longest(argv)
  BY SpotIs
<1>2. \A y \in Spots(argv) :
         /\ y[3] \in 1..n /\ y[2] \in 1..(w - 1)
         /\ Rank(argv)[y] = (n - y[3]) * w + ((w - 1) - y[2])
  <2> SUFFICES ASSUME NEW y \in Spots(argv)
               PROVE  /\ y[3] \in 1..n /\ y[2] \in 1..(w - 1)
                      /\ Rank(argv)[y] = (n - y[3]) * w + ((w - 1) - y[2])
    OBVIOUS
  <2>1. /\ y[3] \in 1..Len(argv) /\ y[2] \in 1..(2 + Longest(argv)) /\ Longest(argv) \in Nat
    BY SpotIs
  <2>2. w - 1 = 2 + Longest(argv)
    BY <1>1, <2>1
  <2> QED
    BY <1>1, <2>1, <2>2 DEF Rank
<1>3. \A a, b \in Nat : a < b => a * w + w <= b * w
  OBVIOUS
<1>4. \A a \in Nat : a * w \in Nat
  OBVIOUS
<1>6. ASSUME NEW y \in Spots(argv)
      PROVE  \E b \in Nat, q \in Nat : /\ b = n - y[3] /\ q = (w - 1) - y[2] /\ b < n /\ q < w
                                       /\ Rank(argv)[y] = b * w + q
  <2>1. /\ y[3] \in 1..n /\ y[2] \in 1..(w - 1)
        /\ Rank(argv)[y] = (n - y[3]) * w + ((w - 1) - y[2])
    BY <1>2
  <2>2. PICK b \in Nat : b = n - y[3]
    BY <2>1
  <2>3. PICK q \in Nat : q = (w - 1) - y[2]
    BY <2>1
  <2>4. b < n /\ q < w
    BY <2>1, <2>2, <2>3
  <2>5. Rank(argv)[y] = b * w + q
    BY <2>1, <2>2, <2>3, Zenon
  <2> QED
    BY <2>2, <2>3, <2>4, <2>5
<1>5. PICK a \in Nat, p \in Nat : a = n - x[3] /\ p = (w - 1) - x[2] /\ a < n /\ p < w
                                 /\ Rank(argv)[x] = a * w + p
  BY <1>6
<1>7. ASSUME NEW y \in Spots(argv), Later(x, y) PROVE Rank(argv)[y] < Rank(argv)[x]
  <2>1. PICK b \in Nat, q \in Nat : /\ b = n - y[3] /\ q = (w - 1) - y[2] /\ b < n /\ q < w
                                    /\ Rank(argv)[y] = b * w + q
    BY <1>6
  <2>2. b < a \/ (b = a /\ q < p)
    BY <1>2, <1>5, <1>7, <2>1 DEF Later
  <2>3. CASE b = a /\ q < p
    <3>1. b * w = a * w /\ a * w \in Nat
      BY <1>4, <2>3
    <3> QED
      BY <1>5, <2>1, <2>3, <3>1
  <2>4. CASE b < a
    <3>1. b * w + w <= a * w /\ b * w \in Nat /\ a * w \in Nat
      BY <1>3, <1>4, <2>4
    <3> QED
      BY <1>5, <2>1, <3>1
  <2> QED
    BY <2>2, <2>3, <2>4
<1>8. a * w + w <= n * w /\ a * w \in Nat /\ n * w \in Nat
  BY <1>3, <1>4, <1>5
<1>9. Rank(argv)[x] \in Nat /\ Rank(argv)[x] < n * w
  BY <1>5, <1>8
<1> QED
  BY <1>1, <1>7, <1>9

\* g is what the recursive function of fpx_parse_argv is to be.
Reading(argv, g) == g = [x \in Spots(argv) |-> From(argv, g, x)]

\* There is such a function, so that CHOOSE finds one.
LEMMA ReadingExists == ASSUME NEW argv \in Argv PROVE \E g : Reading(argv, g)
<1> DEFINE D == Spots(argv)
           B == [g \in [D -> Opt] |-> [x \in D |-> From(argv, g, x)]]
           M == Len(argv) * (3 + Longest(argv))
<1>1. CASE D = {}
  <2>1. Reading(argv, [x \in D |-> 0])
    BY <1>1 DEF Reading
  <2> QED
    BY <2>1
<1>2. CASE D # {}
  <2>1. M \in Nat
    <3>1. PICK n \in Nat, w \in Nat : n = Len(argv) /\ w = 3 + Longest(argv)
      BY <1>2, SpotIs
    <3>2. n * w \in Nat
      OBVIOUS
    <3> QED
      BY <3>1, <3>2
  <2>2. Rank(argv) \in [D -> Nat] /\ \A x \in D : Rank(argv)[x] < M
    <3>1. \A x \in D : Rank(argv)[x] \in Nat /\ Rank(argv)[x] < M
      BY RankIs
    <3>2. Rank(argv) = [x \in D |-> Rank(argv)[x]]
      BY DEF Rank
    <3> QED
      BY <3>1, <3>2
  <2>3. \A g \in [D -> Opt] : \A x \in D : From(argv, g, x) \in Opt
    BY FromType
  <2>4. B \in [[D -> Opt] -> [D -> Opt]]
    BY <2>3
  <2>5. ASSUME NEW g \in [D -> Opt], NEW h \in [D -> Opt], NEW x \in D,
               \A y \in D : Rank(argv)[y] < Rank(argv)[x] => g[y] = h[y]
        PROVE  B[g][x] = B[h][x]
    <3>1. \A y \in D : Later(x, y) => g[y] = h[y]
      BY <2>5, RankIs
    <3>2. From(argv, g, x) = From(argv, h, x)
      BY <3>1, FromDepends
    <3> QED
      BY <3>2
  <2>6. Options(TRUE) \in Opt
    BY OptionsType
  <2>8. \E g \in [D -> Opt] : g = B[g]
    <3> HIDE DEF B, D, M
    <3>1. \A g, h \in [D -> Opt] : \A x \in D :
             (\A y \in D : Rank(argv)[y] < Rank(argv)[x] => g[y] = h[y]) => B[g][x] = B[h][x]
      BY <2>5
    <3>2. Descends(D, Opt, M, Rank(argv), B)
      BY <2>1, <2>2, <2>4, <3>1, Zenon DEF Descends
    <3>3. PICK v \in Opt : TRUE
      BY <2>6
    <3>4. PICK d, m, r, b : d = D /\ m = M /\ r = Rank(argv) /\ b = B
      OBVIOUS
    <3>5. Descends(d, Opt, m, r, b)
      BY <3>2, <3>4
    <3>6. \E g \in [d -> Opt] : g = b[g]
      BY <3>3, <3>5, Recursion
    <3> QED
      BY <3>4, <3>6
  <2>9. PICK g \in [D -> Opt] : g = B[g]
    BY <2>8
  <2>10. g = [x \in D |-> From(argv, g, x)]
    BY <2>9
  <2> QED
    BY <2>10 DEF Reading
<1> QED
  BY <1>1, <1>2

\* fpx_parse_argv without its recursion.
LEMMA ParseIs ==
    ASSUME NEW argv \in Argv, Len(argv) > 0
    PROVE  \E g : /\ Reading(argv, g)
                  /\ Opens(argv, 1) => fpx_parse_argv(argv) = g[<<1, 2, 1>>]
                  /\ ~Opens(argv, 1) => fpx_parse_argv(argv) = Options(FALSE)
<1> DEFINE f == CHOOSE g : g = [p \in (1..Len(argv)) \X (1..(2 + Longest(argv))) \X (1..Len(argv)) |->
                                   OptionsFrom(argv, g, p[1], p[2], p[3])]
<1>1. Reading(argv, f)
  BY ReadingExists, Zenon DEF Reading, Spots, From
<1>2. Len(argv) # 0
  BY DEF Argv
<1>3. Opens(argv, 1) => fpx_parse_argv(argv) = f[<<1, 2, 1>>]
  BY <1>2, Zenon DEF fpx_parse_argv
<1>4. ~Opens(argv, 1) => fpx_parse_argv(argv) = Options(FALSE)
  BY <1>2, Zenon DEF fpx_parse_argv
<1> QED
  BY <1>1, <1>3, <1>4, Zenon

\* The values that argument a has taken before element k.
Taken(argv, a, k) == Cardinality({j \in DOMAIN argv[a] : j < k /\ argv[a][j] \in Valued})

\* An argument takes values one by one, ValuesTaken of them in all.
LEMMA TakenIs ==
    ASSUME NEW argv \in Argv, NEW x \in Spots(argv)
    PROVE  /\ Taken(argv, x[1], x[2]) \in Nat /\ ValuesTaken(argv[x[1]]) \in Nat
           /\ Taken(argv, x[1], x[2]) <= ValuesTaken(argv[x[1]])
           /\ x[2] <= Len(argv[x[1]]) =>
                 /\ Taken(argv, x[1], After(argv[x[1]], x[2])) \in Nat
                 /\ Taken(argv, x[1], x[2]) <= Taken(argv, x[1], After(argv[x[1]], x[2]))
                 /\ Letter(argv, x) \in Valued =>
                       Taken(argv, x[1], x[2]) + 1 <= Taken(argv, x[1], After(argv[x[1]], x[2]))
<1>1. PICK a, k, arg : a = x[1] /\ k = x[2] /\ arg = argv[x[1]]
  OBVIOUS
<1>2. arg \in Seq(STRING) /\ Len(arg) \in Nat /\ DOMAIN arg = 1..Len(arg) /\ k \in Nat /\ k > 0
  BY <1>1, SpotIs, LongestIs
<1> DEFINE T(l) == {j \in DOMAIN arg : j < l /\ arg[j] \in Valued}
           U == {j \in DOMAIN arg : arg[j] \in Valued}
<1>3. IsFiniteSet(U)
  <2>1. IsFiniteSet(1..Len(arg))
    <3>1. PICK n \in Nat : n = Len(arg)
      BY <1>2
    <3>2. IsFiniteSet(1..n)
      BY FS_Interval
    <3> QED
      BY <3>1, <3>2
  <2>2. U \subseteq 1..Len(arg)
    BY <1>2
  <2> QED
    BY <2>1, <2>2, FS_Subset
<1>4. \A l : T(l) \subseteq U
  OBVIOUS
<1>5. \A l : Taken(argv, a, l) = Cardinality(T(l))
  BY <1>1 DEF Taken
<1>6. ValuesTaken(arg) = Cardinality(U)
  BY DEF ValuesTaken
<1>7. \A l : /\ IsFiniteSet(T(l)) /\ Cardinality(T(l)) \in Nat /\ Cardinality(U) \in Nat
             /\ Cardinality(T(l)) <= Cardinality(U)
  <2> HIDE DEF T, U
  <2> QED
    BY <1>3, <1>4, FS_Subset, FS_CardinalityType
<1>8. ASSUME k <= Len(arg)
      PROVE  /\ Cardinality(T(k)) <= Cardinality(T(After(arg, k)))
             /\ Word(arg, k) \in Valued => Cardinality(T(k)) + 1 <= Cardinality(T(After(arg, k)))
  <2>1. After(arg, k) \in Nat /\ k < After(arg, k)
    BY <1>2 DEF After
  <2>2. T(k) \subseteq T(After(arg, k))
    BY <1>2, <2>1
  <2>3. Cardinality(T(k)) <= Cardinality(T(After(arg, k)))
    <3> HIDE DEF T
    <3> QED
      BY <1>7, <2>2, FS_Subset
  <2>4. ASSUME Word(arg, k) \in Valued
        PROVE  Cardinality(T(k)) + 1 <= Cardinality(T(After(arg, k)))
    <3>1. PICK l : l = IF Long(arg, k) THEN k + 1 ELSE k
      OBVIOUS
    <3>2. l \in DOMAIN arg /\ arg[l] \in Valued /\ l < After(arg, k) /\ ~(l < k)
      <4>1. CASE Long(arg, k)
        <5>1. Word(arg, k) = arg[k + 1] /\ After(arg, k) = k + 2 /\ l = k + 1
          BY <3>1, <4>1 DEF Word, After
        <5>2. k + 1 = Len(arg)
          BY <4>1 DEF Long
        <5> QED
          BY <1>2, <2>4, <5>1, <5>2
      <4>2. CASE ~Long(arg, k)
        <5>1. Word(arg, k) = arg[k] /\ After(arg, k) = k + 1 /\ l = k
          BY <3>1, <4>2 DEF Word, After
        <5> QED
          BY <1>2, <1>8, <2>4, <5>1
      <4> QED
        BY <4>1, <4>2
    <3>3. l \notin T(k) /\ T(k) \cup {l} \subseteq T(After(arg, k))
      BY <2>2, <3>2
    <3> HIDE DEF T
    <3>4. IsFiniteSet(T(k) \cup {l}) /\ Cardinality(T(k) \cup {l}) = Cardinality(T(k)) + 1
      BY <1>7, <3>3, FS_AddElement
    <3>5. Cardinality(T(k) \cup {l}) <= Cardinality(T(After(arg, k)))
      BY <1>7, <3>3, FS_Subset
    <3> QED
      BY <3>4, <3>5
  <2> QED
    BY <2>3, <2>4
<1> HIDE DEF T, U
<1> QED
  BY <1>1, <1>5, <1>6, <1>7, <1>8 DEF Letter

\* Spot x is before argument t: its argument has taken fewer values than
\* there are arguments in between.
Before(argv, x, t) == x[1] < t /\ x[1] <= x[3] /\ x[3] - x[1] <= Taken(argv, x[1], x[2])

\* The options of spot x name the test, if they are valid at all.
Tests(argv, g, x, t) ==
    /\ g[x] \in Opt
    /\ Before(argv, x, t) \/ x = <<t, 2, t>> => (g[x].valid => g[x].test_config)

\* The argument that asks for the test has one word, the flag test_config.
LEMMA TestLetter ==
    ASSUME NEW argv \in Argv, NEW t \in 1..Len(argv), Asks(argv, t)
    PROVE  /\ <<t, 2, t>> \in Spots(argv) /\ HasFlag(argv, <<t, 2, t>>)
           /\ FlagsOf(Letter(argv, <<t, 2, t>>)) = {"test_config"}
<1>1. Len(argv) \in Nat
  BY DEF Argv
<1>2. Len(argv) > 0 /\ Longest(argv) \in Nat
  BY <1>1, LongestIs
<1>3. <<t, 2, t>> \in Spots(argv)
  <2>1. 2 \in 1..(2 + Longest(argv))
    BY <1>2
  <2> QED
    BY <2>1 DEF Spots
<1>4. Len(argv[t]) >= 2 /\ Word(argv[t], 2) \in {"t", "test-config"}
  <2>1. CASE argv[t] = <<"-", "t">>
    BY <2>1 DEF Word, Long
  <2>2. CASE argv[t] = <<"-", "-", "test-config">>
    BY <2>2 DEF Word, Long, Short
  <2> QED
    BY <2>1, <2>2 DEF Asks
<1>5. Letter(argv, <<t, 2, t>>) \in {"t", "test-config"}
  BY <1>4 DEF Letter
<1>6. \A w \in {"t", "test-config"} : FlagsOf(w) = {"test_config"}
  BY DEF FlagsOf, Flags
<1>7. FlagsOf(Letter(argv, <<t, 2, t>>)) = {"test_config"}
  BY <1>5, <1>6
<1>8. 2 <= Len(argv[t])
  <2>1. Len(argv[t]) \in Nat
    BY <1>2, LongestIs
  <2> QED
    BY <1>4, <2>1
<1> QED
  BY <1>3, <1>7, <1>8 DEF HasFlag, IsFlag

\* What holds of the spots behind x holds of x: a test behind x is found.
LEMMA TestsStep ==
    ASSUME NEW argv \in Argv, NEW t \in 1..Len(argv), Asks(argv, t),
           NEW g, Reading(argv, g), NEW x \in Spots(argv),
           \A y \in Spots(argv) : Later(x, y) => Tests(argv, g, y, t)
    PROVE  Tests(argv, g, x, t)
<1>1. g[x] = From(argv, g, x)
  BY DEF Reading
<1>2. g[x] \in Opt
  BY <1>1, FromType DEF Tests
<1>3. /\ x[3] \in 1..Len(argv) /\ Len(argv) \in Nat /\ x[3] + 1 \in Nat /\ x[3] \in Nat
      /\ x[2] \in Nat /\ x[1] \in 1..Len(argv) /\ x[1] \in Nat /\ Len(argv[x[1]]) \in Nat
      /\ t \in Nat /\ t <= Len(argv)
  BY SpotIs, LongestIs
<1>4. ASSUME x = <<t, 2, t>> PROVE g[x].test_config
  <2>1. HasFlag(argv, x) /\ FlagsOf(Letter(argv, x)) = {"test_config"}
    BY <1>4, TestLetter
  <2>2. PICK r \in Opt : r = g[NextLetter(argv, x)]
    BY <2>1, GoesOn DEF HasFlag, Tests
  <2>3. g[x] = WithFlag(r, Letter(argv, x))
    BY <1>1, <2>1, <2>2, FromCases
  <2> QED
    BY <2>1, <2>3, FlagSet DEF HasFlag
<1>5. ASSUME Before(argv, x, t), g[x].valid PROVE g[x].test_config
  <2>1. x[3] < t
    <3>1. ValuesTaken(argv[x[1]]) < t - x[1]
      <4>1. x[1] \in 1..(t - 1)
        BY <1>3, <1>5 DEF Before
      <4> QED
        BY <4>1 DEF Asks
    <3>2. x[3] - x[1] <= Taken(argv, x[1], x[2])
      BY <1>5 DEF Before
    <3> QED
      BY <1>3, <3>1, <3>2, TakenIs
  <2>2. x[3] < Len(argv)
    BY <1>3, <2>1
  <2>3. Options(FALSE).valid = FALSE
    BY OptionsType
  <2>4. CASE ArgumentEnds(argv, x) /\ Opens(argv, x[3] + 1)
    <3>1. /\ g[x] = g[NextArgument(x)] /\ NextArgument(x) \in Spots(argv)
          /\ Tests(argv, g, NextArgument(x), t)
      BY <1>1, <2>2, <2>4, FromCases, GoesOn
    <3>2. Before(argv, NextArgument(x), t) \/ NextArgument(x) = <<t, 2, t>>
      <4>1. CASE x[3] + 1 = t
        BY <4>1 DEF NextArgument
      <4>2. CASE x[3] + 1 # t
        <5>1. x[3] + 1 < t
          BY <1>3, <2>1, <4>2
        <5>2. Taken(argv, x[3] + 1, 2) \in Nat
          BY <3>1, TakenIs DEF NextArgument
        <5> QED
          BY <1>3, <5>1, <5>2 DEF Before, NextArgument
      <4> QED
        BY <4>1, <4>2
    <3> QED
      BY <1>5, <3>1, <3>2 DEF Tests
  <2>5. CASE ArgumentEnds(argv, x) /\ ~Opens(argv, x[3] + 1)
    BY <1>1, <1>5, <2>2, <2>3, <2>5, FromCases
  <2>6. CASE HasFlag(argv, x)
    <3>1. PICK y \in Spots(argv) : y = NextLetter(argv, x) /\ Tests(argv, g, y, t)
      BY <2>6, GoesOn DEF HasFlag
    <3>2. y[1] = x[1] /\ y[2] = After(argv[x[1]], x[2]) /\ y[3] = x[3]
      BY <3>1 DEF NextLetter
    <3>3. Before(argv, y, t)
      <4>1. /\ Taken(argv, x[1], x[2]) \in Nat /\ Taken(argv, y[1], y[2]) \in Nat
            /\ Taken(argv, x[1], x[2]) <= Taken(argv, y[1], y[2])
        <5>1. x[2] <= Len(argv[x[1]])
          BY <2>6 DEF HasFlag
        <5> QED
          BY <3>2, <5>1, TakenIs
      <4>2. x[1] < t /\ x[1] <= x[3] /\ x[3] - x[1] <= Taken(argv, x[1], x[2])
        BY <1>5 DEF Before
      <4>3. x[3] - x[1] <= Taken(argv, y[1], y[2])
        BY <1>3, <4>1, <4>2
      <4> QED
        BY <3>2, <4>2, <4>3 DEF Before
    <3>4. g[x] = WithFlag(g[y], Letter(argv, x)) /\ g[y] \in Opt
      BY <1>1, <2>6, <3>1, FromCases DEF Tests
    <3>5. g[y].valid => g[y].test_config
      BY <3>1, <3>3 DEF Tests
    <3> QED
      BY <1>5, <2>6, <3>4, <3>5, FlagSet DEF HasFlag
  <2>7. CASE HasValue(argv, x)
    <3>1. PICK y \in Spots(argv) : y = NextValue(argv, x) /\ Tests(argv, g, y, t)
      BY <2>2, <2>7, GoesOn DEF HasValue
    <3>2. y[1] = x[1] /\ y[2] = After(argv[x[1]], x[2]) /\ y[3] = x[3] + 1
      BY <3>1 DEF NextValue
    <3>3. Before(argv, y, t)
      <4>1. /\ Taken(argv, x[1], x[2]) \in Nat /\ Taken(argv, y[1], y[2]) \in Nat
            /\ Taken(argv, x[1], x[2]) + 1 <= Taken(argv, y[1], y[2])
        <5>1. x[2] <= Len(argv[x[1]]) /\ Letter(argv, x) \in Valued
          BY <2>7 DEF HasValue
        <5> QED
          BY <3>2, <5>1, TakenIs
      <4>2. x[1] < t /\ x[1] <= x[3] /\ x[3] - x[1] <= Taken(argv, x[1], x[2])
        BY <1>5 DEF Before
      <4>3. (x[3] + 1) - x[1] <= Taken(argv, y[1], y[2]) /\ x[1] <= x[3] + 1
        <5>1. x[1] \in Nat /\ x[3] \in Nat
          BY <1>3
        <5> QED
          BY <4>1, <4>2, <5>1
      <4>4. y[1] < t /\ y[1] <= y[3] /\ y[3] - y[1] <= Taken(argv, y[1], y[2])
        BY <3>2, <4>2, <4>3
      <4> QED
        BY <4>4 DEF Before
    <3>4. g[x] = WithFile(g[y], x[3] + 1) /\ g[y] \in Opt
      BY <1>1, <2>7, <3>1, FromCases DEF Tests
    <3>5. g[y].valid => g[y].test_config
      BY <3>1, <3>3 DEF Tests
    <3>6. PICK r \in Opt : r = g[y]
      BY <3>4
    <3>7. WithFile(r, x[3] + 1).valid = r.valid /\ WithFile(r, x[3] + 1).test_config = r.test_config
      BY <1>3, NameSet
    <3> QED
      BY <1>5, <3>4, <3>5, <3>6, <3>7
  <2>8. CASE ~ArgumentEnds(argv, x) /\ ~HasFlag(argv, x) /\ ~HasValue(argv, x)
    BY <1>1, <1>5, <2>3, <2>8, FromCases
  <2> QED
    BY <2>4, <2>5, <2>6, <2>7, <2>8
<1> QED
  BY <1>2, <1>4, <1>5 DEF Tests

\* A command line that asks for a test is refused or sets test_config.
LEMMA TestFound ==
    ASSUME NEW argv \in Argv, NEW t \in 1..Len(argv), Asks(argv, t)
    PROVE  LET o == fpx_parse_argv(argv) IN o.valid => o.test_config
<1>1. Len(argv) \in Nat /\ Len(argv) > 0
  BY DEF Argv
<1>2. PICK g : /\ Reading(argv, g)
               /\ Opens(argv, 1) => fpx_parse_argv(argv) = g[<<1, 2, 1>>]
               /\ ~Opens(argv, 1) => fpx_parse_argv(argv) = Options(FALSE)
  BY <1>1, ParseIs
<1> DEFINE T == {m \in Nat : \A x \in Spots(argv) : Rank(argv)[x] < m => Tests(argv, g, x, t)}
<1>3. 0 \in T
  BY RankIs
<1>4. ASSUME NEW m \in Nat, m \in T PROVE m + 1 \in T
  <2> SUFFICES ASSUME NEW x \in Spots(argv), Rank(argv)[x] < m + 1 PROVE Tests(argv, g, x, t)
    OBVIOUS
  <2>1. ASSUME NEW y \in Spots(argv), Later(x, y) PROVE Tests(argv, g, y, t)
    <3>1. Rank(argv)[y] \in Nat /\ Rank(argv)[x] \in Nat /\ Rank(argv)[y] < Rank(argv)[x]
      BY <2>1, RankIs
    <3> QED
      BY <1>4, <3>1
  <2> QED
    BY <1>2, <2>1, TestsStep
<1>5. \A m \in Nat : m \in T
  <2> HIDE DEF T
  <2> QED
    BY <1>3, <1>4, NatClosed
<1>6. PICK x : x = <<1, 2, 1>>
  OBVIOUS
<1>7. x \in Spots(argv) /\ x[1] = 1 /\ x[2] = 2 /\ x[3] = 1
  <2>1. Longest(argv) \in Nat
    BY <1>1, LongestIs
  <2>2. 1 \in 1..Len(argv) /\ 2 \in 1..(2 + Longest(argv))
    BY <1>1, <2>1
  <2> QED
    BY <1>6, <2>2 DEF Spots
<1>8. Tests(argv, g, x, t)
  <2>1. PICK m \in Nat : m = Rank(argv)[x] + 1
    BY <1>7, RankIs
  <2>2. Rank(argv)[x] < m
    BY <1>7, <2>1, RankIs
  <2> QED
    BY <1>5, <1>7, <2>2
<1>9. Before(argv, x, t) \/ x = <<t, 2, t>>
  <2>1. CASE t = 1
    BY <1>6, <2>1
  <2>2. CASE t # 1
    <3>1. Taken(argv, x[1], x[2]) \in Nat
      BY <1>7, TakenIs
    <3> QED
      BY <1>1, <1>7, <2>2, <3>1 DEF Before
  <2> QED
    BY <2>1, <2>2
<1>10. Options(FALSE).valid = FALSE
  BY OptionsType
<1> QED
  BY <1>2, <1>6, <1>8, <1>9, <1>10 DEF Tests

(***************************************************************************)
(* The inductive invariant.                                                *)
(***************************************************************************)
Early == {"start", "read", "modules"}

Walking == {"check", "process"}

Testing == {"check", "checked", "refused"}

Phases == Stopped \cup Running \cup Early \cup Walking

\* The words of a directive, in the pool of the configuration or of the
\* server; the arguments of includes and imports name something.
Entry ==
    {d \in [name : STRING, argc : Nat, arg : STRING, mem : {"pool", "ptemp"}] :
        /\ d.name = "include" => d.arg \in DOMAIN Denoted
        /\ d.name = "import" => d.arg \in DOMAIN Libraries}

\* A setting; that a literal is a STRING is not known to the provers.
Str == [val : STRING \cup {"default"}, mem : Memory]

Types ==
    /\ env \in Environments
    /\ phase \in Phases
    /\ conf_list \in Seq(Entry) /\ Len(conf_list) <= MaxConf
    /\ reads \in Seq(Files)
    /\ modules \in Seq(AllModules)
    /\ module \in [AllModules -> [cntx : AllModules \cup {NULL}, preinited : BOOLEAN]]
    /\ server \in [daemon : BOOLEAN, workdir : Str, user : Str, group : Str, listeners : Nat]

\* Before the modules are set up nothing is there.
Untouched ==
    /\ phase \in {"start", "read"} => conf_list = <<>> /\ reads = <<>>
    /\ phase = "modules" => reads = <<Main>>
    /\ phase \in Early => /\ modules = <<>> /\ module = [m \in AllModules |-> NewModule]
                          /\ node = 0 /\ done = {} /\ server = Settings

\* The core module is the first one and is preinitialised: a later import
\* preinitialises nothing.
CoreFirst ==
    /\ modules # <<>> => modules[1] = core /\ module[core].preinited
    /\ phase \in Walking \cup Accepting => modules # <<>>

\* The directives before the node are done; the walk ends behind the last.
Walk ==
    /\ done \subseteq 1..Len(conf_list)
    /\ phase \in Walking =>
          /\ node \in 0..Len(conf_list)
          /\ done = 1..(IF node = 0 THEN Len(conf_list) ELSE node - 1)
    /\ phase \in Accepting => done = 1..Len(conf_list)
    /\ phase \in Accepting \ {"init"} => node = 0
    /\ phase = "init" => node \in 0..Len(modules)
    /\ phase \in Stopped => node \in 0..Len(conf_list)

\* The pools are there until the server runs or main is left.
Pools ==
    /\ phase \in {"read", "modules"} \cup Walking \cup (Running \ {"cycle"}) =>
          live = {"pool", "ptemp"}
    /\ live \subseteq {"pool", "ptemp"}

\* What the include at position k reads.
IncludedBy(k) ==
    IF conf_list[k].name = "include" /\ Denoted[conf_list[k].arg].kind # "dir"
    THEN Denoted[conf_list[k].arg].files ELSE <<>>

Sources == [k \in DOMAIN reads |-> Parsed(reads[k], IF k = 1 THEN "ptemp" ELSE "pool")]

Included == [k \in done |-> IncludedBy(k)]

\* The list holds the files read, and these are what the includes done name.
Contents ==
    /\ conf_list = FlattenSeq(Sources)
    /\ phase \in Walking \cup Accepting => reads = <<Main>> \o FlattenSeq(Included)

Given(s) == {k \in done : conf_list[k].name = s}

\* The settings are those of the directives done, or nobody's while testing.
Configured ==
    /\ phase \in Testing => server = Settings
    /\ phase \notin Testing =>
          /\ \A s \in {"workdir", "user", "group"} : server[s].val = Latest(s, Default.val)
          /\ server.daemon = (Latest("daemon", "on") = "on")
          /\ server.listeners = Cardinality(Given("listen"))

\* A directive adds a listener or a module, not both; without a listener
\* the server does not get beyond binding.
Tally ==
    /\ bound \in 0..MaxConf
    /\ phase \in Walking \cup Running => Len(modules) + server.listeners <= Cardinality(done) + 1
    /\ phase \in Running \ {"bind"} => server.listeners > 0

Identity ==
    /\ phase \in Early \cup Walking \cup {"bind", "workdir", "user"} => euid = env.euid
    /\ phase \in Early \cup Walking \cup {"bind", "workdir", "user", "group"} => egid = env.egid
    /\ phase \in {"group", "logger", "daemon", "init", "cycle"} =>
          (env.euid = "root" /\ server.user # Default => euid = server.user.val)
    /\ phase \in {"logger", "daemon", "init", "cycle"} =>
          (env.egid = "root" /\ server.group # Default => egid = server.group.val)

IInv ==
    /\ Types /\ Untouched /\ CoreFirst /\ Walk /\ Pools
    /\ Contents /\ Configured /\ Tally /\ Identity

(***************************************************************************)
(* fpx_preinit_modules.                                                    *)
(***************************************************************************)
\* The first run preinitialises the core module, with its own context.
LEMMA PreinitCore ==
    ASSUME module = [m \in AllModules |-> NewModule], server = Settings,
           fpx_preinit_modules(<<core>>)
    PROVE  /\ module' = [m \in AllModules |-> IF m = core THEN [cntx |-> core, preinited |-> TRUE]
                                              ELSE NewModule]
           /\ server' = Settings
<1> DEFINE mods == <<core>>
           c == [k \in 0..1 |-> IF k = 0 THEN NULL ELSE core]
           f == CHOOSE cntx : cntx = [k \in 0..Len(mods) |->
                    IF k = 0 THEN NULL
                    ELSE IF mods[k] \in HasPreinit \cup {core} THEN mods[k] ELSE cntx[k - 1]]
<1>1. Len(mods) = 1 /\ mods[1] = core /\ DOMAIN mods = {1}
  OBVIOUS
<1>2. c = [k \in 0..Len(mods) |->
              IF k = 0 THEN NULL
              ELSE IF mods[k] \in HasPreinit \cup {core} THEN mods[k] ELSE c[k - 1]]
  BY <1>1
<1>3. f = [k \in 0..Len(mods) |->
              IF k = 0 THEN NULL
              ELSE IF mods[k] \in HasPreinit \cup {core} THEN mods[k] ELSE f[k - 1]]
  <2> HIDE DEF c, mods
  <2> QED
    BY <1>2, Zenon
<1>4. f[1] = core
  <2> HIDE DEF f
  <2> QED
    BY <1>1, <1>3
<1>5. ~module[core].preinited
  BY DEF AllModules, NewModule
<1>6. ToPreinit(mods) = {1}
  BY <1>1, <1>5 DEF ToPreinit
<1>7. {mods[k] : k \in ToPreinit(mods)} = {core}
  BY <1>1, <1>6
<1>8. (CHOOSE k \in DOMAIN mods : mods[k] = core) = 1
  BY <1>1
<1>9. module' = [m \in AllModules |->
                   IF m \in {mods[k] : k \in ToPreinit(mods)}
                   THEN [cntx |-> f[CHOOSE k \in DOMAIN mods : mods[k] = m], preinited |-> TRUE]
                   ELSE module[m]]
  BY Zenon DEF fpx_preinit_modules
<1>10. server' = IF core \in {mods[k] : k \in ToPreinit(mods)}
                 THEN [Settings EXCEPT !.listeners = server.listeners] ELSE server
  BY Zenon DEF fpx_preinit_modules
<1>11. server' = Settings
  BY <1>7, <1>10 DEF Settings
<1>12. \A m \in AllModules : module[m] = NewModule
  OBVIOUS
<1> HIDE DEF mods, f
<1>13. module' = [m \in AllModules |-> IF m = core THEN [cntx |-> core, preinited |-> TRUE]
                                        ELSE NewModule]
  <2> DEFINE new == {mods[k] : k \in ToPreinit(mods)}
             At(m) == CHOOSE k \in DOMAIN mods : mods[k] = m
             M(m) == IF m \in new THEN [cntx |-> f[At(m)], preinited |-> TRUE] ELSE module[m]
  <2>1. module' = [m \in AllModules |-> M(m)]
    BY <1>9, Zenon
  <2>2. At(core) = 1 /\ new = {core}
    BY <1>7, <1>8, Zenon
  <2> HIDE DEF new, At
  <2>3. \A m \in AllModules : M(m) = IF m = core THEN [cntx |-> core, preinited |-> TRUE]
                                     ELSE NewModule
    BY <1>4, <1>12, <2>2
  <2> HIDE DEF M
  <2> QED
    BY <2>1, <2>3
<1> QED
  BY <1>11, <1>13

\* Once the core module is first and preinitialised, the others never are.
LEMMA PreinitLater ==
    ASSUME NEW mods \in Seq(AllModules), mods # <<>>, mods[1] = core, module[core].preinited,
           module \in [AllModules -> [cntx : AllModules \cup {NULL}, preinited : BOOLEAN]],
           fpx_preinit_modules(mods)
    PROVE  module' = module /\ server' = server
<1>1. ToPreinit(mods) = {}
  BY DEF ToPreinit
<1>2. {mods[k] : k \in ToPreinit(mods)} = {}
  BY <1>1
<1>3. server' = server
  BY <1>2 DEF fpx_preinit_modules
<1>4. module' = [m \in AllModules |-> module[m]]
  BY <1>2 DEF fpx_preinit_modules
<1> QED
  BY <1>3, <1>4

(***************************************************************************)
(* The first state, and the steps that leave the lists and the settings.   *)
(***************************************************************************)
LEMMA SettingsType ==
    Settings \in [daemon : BOOLEAN, workdir : Str, user : Str, group : Str, listeners : Nat]
<1>1. Default \in Str
  BY DEF Default, Str, Memory
<1> QED
  BY <1>1 DEF Settings

(* The invariant holds at first. *)
LEMMA StartupInit == Init => IInv
<1> SUFFICES ASSUME Init PROVE IInv
  OBVIOUS
<1> USE DEF Init
<1>1. Types
  <2>1. Len(conf_list) <= MaxConf
    BY BoundAssumption
  <2>2. server \in [daemon : BOOLEAN, workdir : Str, user : Str, group : Str, listeners : Nat]
    BY SettingsType
  <2>3. module \in [AllModules -> [cntx : AllModules \cup {NULL}, preinited : BOOLEAN]]
    BY DEF NewModule
  <2>4. conf_list \in Seq(Entry) /\ reads \in Seq(Files) /\ modules \in Seq(AllModules)
    OBVIOUS
  <2> QED
    BY <2>1, <2>2, <2>3, <2>4 DEF Types, Phases, Early
<1>2. Untouched /\ CoreFirst /\ Pools
  BY DEF Untouched, CoreFirst, Pools, Walking, Accepting, Running, Early
<1>3. Walk
  BY DEF Walk, Walking, Accepting, Running, Stopped
<1>4. Contents
  <2>1. Sources = <<>>
    BY DEF Sources
  <2> QED
    BY <2>1, FlattenEmpty DEF Contents, Walking, Accepting, Running
<1>5. Configured
  <2>1. \A s : {k \in done : conf_list[k].name = s} = {}
    OBVIOUS
  <2>2. \A s : \A d : Latest(s, d) = d
    BY <2>1 DEF Latest
  <2>3. Cardinality(Given("listen")) = 0
    BY <2>1, FS_EmptySet DEF Given
  <2>4. /\ server.workdir = Default /\ server.user = Default /\ server.group = Default
        /\ server.daemon = TRUE /\ server.listeners = 0
    BY DEF Settings
  <2>5. \A s \in {"workdir", "user", "group"} : server[s].val = Latest(s, Default.val)
    BY <2>2, <2>4
  <2> QED
    BY <2>2, <2>3, <2>4, <2>5 DEF Configured, Testing
<1>6. Tally /\ Identity
  BY BoundAssumption DEF Tally, Identity, Walking, Running, Early
<1> QED
  BY <1>1, <1>2, <1>3, <1>4, <1>5, <1>6 DEF IInv

Kept == UNCHANGED <<env, conf_list, reads, done, server, modules, module>>

\* The parts of the invariant that name only what is kept.
LEMMA KeptFacts ==
    ASSUME IInv, Kept
    PROVE  /\ Sources' = Sources /\ Included' = Included
           /\ \A s : \A d : Latest(s, d)' = Latest(s, d)
           /\ Given("listen")' = Given("listen")
           /\ (phase' \in Phases => Types')
<1> USE DEF Kept
<1>1. Sources' = Sources
  BY DEF Sources, Parsed
<1>2. Included' = Included
  BY DEF Included, IncludedBy
<1>3. \A s : \A d : Latest(s, d)' = Latest(s, d)
  BY DEF Latest
<1>4. Given("listen")' = Given("listen")
  BY DEF Given
<1>5. phase' \in Phases => Types'
  BY DEF IInv, Types
<1> QED
  BY <1>1, <1>2, <1>3, <1>4, <1>5

(* The invariant where only the phase moves on. *)
LEMMA KeptStep ==
    ASSUME IInv, Kept, phase' \in Phases,
           phase' \in Early => phase \in Early,
           phase' \in {"start", "read"} => phase \in {"start", "read"},
           phase' = "modules" => phase = "modules",
           phase' \in Early => node' = 0,
           phase' \in Walking \cup Accepting => phase \in Walking \cup Accepting,
           phase' \in Testing <=> phase \in Testing,
           Walk', Pools', Tally', Identity'
    PROVE  IInv'
<1>1. Types'
  BY KeptFacts
<1>2. Untouched'
  BY DEF IInv, Untouched, Kept
<1>3. CoreFirst'
  BY DEF IInv, CoreFirst, Untouched, Kept, Walking, Running, Accepting, Testing
<1>4. Contents'
  BY KeptFacts DEF IInv, Contents, Kept
<1>5. Configured'
  BY KeptFacts DEF IInv, Configured, Kept
<1> QED
  BY <1>1, <1>2, <1>3, <1>4, <1>5 DEF IInv

\* How many directives there are bounds the nodes and the listeners.
LEMMA Counts ==
    ASSUME IInv
    PROVE  /\ Len(conf_list) \in Nat /\ Len(modules) \in Nat /\ server.listeners \in Nat
           /\ IsFiniteSet(done) /\ Cardinality(done) \in Nat
           /\ Cardinality(done) <= Len(conf_list)
<1>1. Len(conf_list) \in Nat /\ Len(modules) \in Nat /\ server.listeners \in Nat
  BY DEF IInv, Types
<1>2. IsFiniteSet(1..Len(conf_list)) /\ Cardinality(1..Len(conf_list)) = Len(conf_list)
  <2>1. PICK n \in Nat : n = Len(conf_list)
    BY <1>1
  <2>2. IsFiniteSet(1..n) /\ Cardinality(1..n) = n
    <3>1. IsFiniteSet(1..n) /\ Cardinality(1..n) = IF 1 > n THEN 0 ELSE n - 1 + 1
      BY FS_Interval
    <3> QED
      BY <3>1
  <2> QED
    BY <2>1, <2>2
<1>3. done \subseteq 1..Len(conf_list)
  BY DEF IInv, Walk
<1>4. IsFiniteSet(done) /\ Cardinality(done) <= Cardinality(1..Len(conf_list))
  BY <1>2, <1>3, FS_Subset
<1>5. Cardinality(done) \in Nat
  BY <1>4, FS_CardinalityType
<1> QED
  BY <1>1, <1>2, <1>4, <1>5

\* main is left with an error, or after the version or the help.
LEMMA Exits ==
    ASSUME IInv, NEW p \in {"exit0", "exit1"}, phase \notin Testing \cup Stopped, Goto(p)
    PROVE  IInv'
<1>1. Kept /\ phase' = p /\ node' = node /\ live' = live /\ bound' = bound
  BY DEF Goto, Kept, confVars, moduleVars, osVars
<1>2. node \in 0..Len(conf_list)
  <2>1. CASE phase = "init"
    <3>1. Len(modules) + server.listeners <= Cardinality(done) + 1 /\ server.listeners > 0
      BY <2>1 DEF IInv, Tally, Running
    <3>2. node \in 0..Len(modules)
      BY <2>1 DEF IInv, Walk
    <3> QED
      BY <3>1, <3>2, Counts
  <2>2. CASE phase # "init"
    BY <2>2, Counts DEF IInv, Walk, Untouched, Types, Phases, Accepting, Running, Early, Walking
  <2> QED
    BY <2>1, <2>2
<1>3. Walk'
  <2>1. done \subseteq 1..Len(conf_list)
    BY DEF IInv, Walk
  <2> QED
    BY <1>1, <1>2, <2>1 DEF Kept, Walk, Walking, Accepting, Running, Stopped
<1>4. Pools' /\ Tally' /\ Identity'
  BY <1>1 DEF IInv, Pools, Tally, Identity, Walking, Running, Early
<1>5. phase' \in Phases /\ phase' \notin Early \cup Walking \cup Accepting \cup Testing
  BY <1>1 DEF Phases, Stopped, Early, Walking, Accepting, Running, Testing
<1> QED
  BY <1>1, <1>3, <1>4, <1>5, KeptStep

\* -t: main destroys the pools and is left.
LEMMA Checks ==
    ASSUME IInv, phase = "check",
           NEW p \in {"checked", "refused"}, p = "checked" => node = 0, CheckStops(p)
    PROVE  IInv'
<1>1. Kept /\ phase' = p /\ node' = node /\ live' = {} /\ bound' = bound
  BY DEF CheckStops, Kept, confVars, moduleVars, osVars
<1>2. Walk'
  BY <1>1 DEF IInv, Kept, Walk, Walking, Accepting, Running
<1>3. Pools' /\ Tally' /\ Identity'
  BY <1>1 DEF IInv, Pools, Tally, Identity, Walking, Running, Early
<1>4. phase' \in Phases /\ phase' \notin Early
  BY <1>1 DEF Phases, Stopped, Early
<1> QED
  BY <1>1, <1>2, <1>3, <1>4, KeptStep DEF Walking, Testing, Early

\* The steps from the pools to the server cycle that keep the lists.
LEMMA Onward ==
    ASSUME IInv,
           \/ CreatePools \/ ProcessEnds \/ BindListeners \/ fpx_process_set_workdir
           \/ fpx_process_set_user \/ fpx_process_set_group \/ fpx_logger_start
           \/ fpx_process_become_daemon \/ fpx_init_modules \/ InitEnds
           \/ fpx_server_cycle
    PROVE  IInv'
<1> USE DEF confVars, moduleVars, osVars
<1>1. ASSUME CreatePools PROVE IInv'
  <2>1. CASE Goto("exit1") \/ Goto("exit0")
    BY <1>1, <2>1, Exits DEF CreatePools, Testing, Stopped
  <2>2. CASE phase' = "read" /\ live' = {"pool", "ptemp"} /\ Kept /\ UNCHANGED <<node, osVars>>
    <3>1. phase = "start" /\ node = 0 /\ done = {}
      BY <1>1 DEF CreatePools, IInv, Untouched, Early
    <3>2. Walk' /\ Pools' /\ Tally' /\ Identity'
      BY <2>2, <3>1 DEF IInv, Kept, Walk, Pools, Tally, Identity, Walking, Accepting, Running, Early, Stopped
    <3> QED
      BY <2>2, <3>1, <3>2, KeptStep DEF Phases, Early, Walking, Accepting, Running, Testing
  <2> QED
    BY <1>1, <2>1, <2>2 DEF CreatePools, Kept
<1>2. ASSUME ProcessEnds PROVE IInv'
  <2>1. Kept /\ phase = "process" /\ node = 0 /\ phase' = "bind" /\ UNCHANGED <<node, live, osVars>>
    BY <1>2 DEF ProcessEnds, Goto, Kept
  <2>2. Walk' /\ Pools' /\ Tally' /\ Identity'
    BY <2>1 DEF IInv, Kept, Walk, Pools, Tally, Identity, Walking, Accepting, Running, Early, Stopped
  <2> QED
    BY <2>1, <2>2, KeptStep DEF Phases, Early, Walking, Accepting, Running, Testing
<1>3. ASSUME BindListeners PROVE IInv'
  <2>1. CASE Goto("exit1")
    BY <1>3, <2>1, Exits DEF BindListeners, Testing, Stopped
  <2>2. CASE /\ server.listeners > 0 /\ bound' = server.listeners /\ phase' = "workdir"
             /\ Kept /\ UNCHANGED <<node, live, euid, egid>>
    <3>1. phase = "bind"
      BY <1>3 DEF BindListeners
    <3>2. Walk' /\ Pools' /\ Identity'
      BY <2>2, <3>1 DEF IInv, Kept, Walk, Pools, Identity, Walking, Accepting, Running, Early, Stopped
    <3>3. server.listeners <= MaxConf
      <4>1. Len(modules) # 0 /\ Len(modules) + server.listeners <= Cardinality(done) + 1
        BY <3>1 DEF IInv, CoreFirst, Tally, Types, Running, Accepting
      <4>2. Len(conf_list) <= MaxConf /\ MaxConf \in Nat
        BY BoundAssumption DEF IInv, Types
      <4> QED
        BY <4>1, <4>2, Counts
    <3>4. Tally'
      BY <2>2, <3>1, <3>3, Counts, BoundAssumption DEF IInv, Kept, Tally, Running, Walking
    <3> QED
      BY <2>2, <3>1, <3>2, <3>4, KeptStep DEF Phases, Early, Walking, Accepting, Running, Testing
  <2> QED
    BY <1>3, <2>1, <2>2 DEF BindListeners, Kept
<1>4. ASSUME fpx_process_set_workdir \/ fpx_logger_start PROVE IInv'
  <2>1. CASE Goto("exit1")
    BY <1>4, <2>1, Exits DEF fpx_process_set_workdir, fpx_logger_start, Testing, Stopped
  <2>2. CASE ~Goto("exit1")
    <3>1. /\ Kept /\ UNCHANGED <<node, live, osVars>>
          /\ \/ phase = "workdir" /\ phase' = "user"
             \/ phase = "logger" /\ phase' = "daemon"
      BY <1>4, <2>2 DEF fpx_process_set_workdir, fpx_logger_start, Goto, Kept
    <3>2. Walk' /\ Pools' /\ Tally' /\ Identity'
      BY <3>1 DEF IInv, Kept, Walk, Pools, Tally, Identity, Walking, Accepting, Running, Early, Stopped
    <3> QED
      BY <3>1, <3>2, KeptStep DEF Phases, Early, Walking, Accepting, Running, Testing
  <2> QED
    BY <2>1, <2>2
<1>5. ASSUME fpx_process_set_user PROVE IInv'
  <2>1. CASE Goto("exit1")
    BY <1>5, <2>1, Exits DEF fpx_process_set_user, Testing, Stopped
  <2>2. CASE ~Goto("exit1")
    <3>1. /\ Kept /\ UNCHANGED <<node, live, egid, bound>>
          /\ phase = "user" /\ phase' = "group"
          /\ \/ (server.user = Default \/ euid # "root") /\ euid' = euid
             \/ euid' = server.user.val
      BY <1>5, <2>2 DEF fpx_process_set_user, Goto, Kept
    <3>2. Walk' /\ Pools' /\ Tally'
      BY <3>1 DEF IInv, Kept, Walk, Pools, Tally, Walking, Accepting, Running, Early, Stopped
    <3>3. Identity'
      BY <3>1 DEF IInv, Kept, Identity, Walking, Early
    <3> QED
      BY <3>1, <3>2, <3>3, KeptStep DEF Phases, Early, Walking, Accepting, Running, Testing
  <2> QED
    BY <2>1, <2>2
<1>6. ASSUME fpx_process_set_group PROVE IInv'
  <2>1. CASE Goto("exit1")
    BY <1>6, <2>1, Exits DEF fpx_process_set_group, Testing, Stopped
  <2>2. CASE ~Goto("exit1")
    <3>1. /\ Kept /\ UNCHANGED <<node, live, euid, bound>>
          /\ phase = "group" /\ phase' = "logger"
          /\ \/ (server.group = Default \/ egid # "root") /\ egid' = egid
             \/ egid' = server.group.val
      BY <1>6, <2>2 DEF fpx_process_set_group, GroupFails, Goto, Kept
    <3>2. Walk' /\ Pools' /\ Tally'
      BY <3>1 DEF IInv, Kept, Walk, Pools, Tally, Walking, Accepting, Running, Early, Stopped
    <3>3. Identity'
      BY <3>1 DEF IInv, Kept, Identity, Walking, Early
    <3> QED
      BY <3>1, <3>2, <3>3, KeptStep DEF Phases, Early, Walking, Accepting, Running, Testing
  <2> QED
    BY <2>1, <2>2
<1>7. ASSUME fpx_process_become_daemon \/ fpx_init_modules PROVE IInv'
  <2>1. CASE Goto("exit1")
    BY <1>7, <2>1, Exits DEF fpx_process_become_daemon, fpx_init_modules, Testing, Stopped
  <2>2. CASE ~Goto("exit1")
    <3>1. /\ Kept /\ UNCHANGED <<live, osVars>>
          /\ phase \in {"daemon", "init"} /\ phase' = "init"
          /\ \/ node' = 0
             \/ node' = 2 /\ Len(modules) > 1
             \/ phase = "init" /\ node' = node + 1 /\ node < Len(modules)
      BY <1>7, <2>2 DEF fpx_process_become_daemon, fpx_init_modules, Goto, Kept
    <3>2. node' \in 0..Len(modules)
      BY <3>1, Counts DEF IInv, Walk
    <3>3. Walk'
      BY <3>1, <3>2 DEF IInv, Kept, Walk, Walking, Accepting, Running, Stopped
    <3>4. Pools' /\ Tally' /\ Identity'
      BY <3>1 DEF IInv, Kept, Pools, Tally, Identity, Walking, Running, Early
    <3> QED
      BY <3>1, <3>3, <3>4, KeptStep DEF Phases, Early, Walking, Accepting, Running, Testing
  <2> QED
    BY <2>1, <2>2
<1>8. ASSUME InitEnds PROVE IInv'
  <2>1. /\ Kept /\ UNCHANGED <<node, osVars>>
        /\ phase = "init" /\ node = 0 /\ phase' = "cycle" /\ live' = live \ {"ptemp"}
    BY <1>8 DEF InitEnds, Kept
  <2>2. Walk' /\ Pools' /\ Tally' /\ Identity'
    BY <2>1 DEF IInv, Kept, Walk, Pools, Tally, Identity, Walking, Accepting, Running, Early, Stopped
  <2> QED
    BY <2>1, <2>2, KeptStep DEF Phases, Early, Walking, Accepting, Running, Testing
<1>9. ASSUME fpx_server_cycle PROVE IInv'
  <2>1. Kept /\ UNCHANGED <<phase, node, live, osVars>>
    BY <1>9 DEF fpx_server_cycle, vars, Kept
  <2>2. Walk' /\ Pools' /\ Tally' /\ Identity'
    BY <2>1 DEF IInv, Kept, Walk, Pools, Tally, Identity
  <2>3. phase = "cycle"
    BY <1>9 DEF fpx_server_cycle
  <2> QED
    BY <2>1, <2>2, <2>3, KeptStep DEF Phases, Early, Walking, Accepting, Running, Testing
<1> QED
  BY <1>1, <1>2, <1>3, <1>4, <1>5, <1>6, <1>7, <1>8, <1>9

(***************************************************************************)
(* Reading the main file and setting up the core module.                   *)
(***************************************************************************)
LEMMA ParsedFacts ==
    ASSUME env \in Environments, NEW f \in Files, NEW mem \in {"pool", "ptemp"}
    PROVE  /\ Parsed(f, mem) \in Seq(Entry)
           /\ env.text[f] \in Seq(Directives)
           /\ Len(Parsed(f, mem)) = Len(env.text[f])
<1> DEFINE t == env.text[f]
           Cut(k) == [name |-> t[k].name, argc |-> t[k].argc, arg |-> t[k].arg, mem |-> mem]
<1>1. t \in Seq(Directives)
  BY TextAssumption
<1>2. \A k \in DOMAIN t : /\ t[k].name = "include" => t[k].arg \in DOMAIN Denoted
                          /\ t[k].name = "import" => t[k].arg \in DOMAIN Libraries
  BY TextAssumption
<1>3. Parsed(f, mem) = [k \in DOMAIN t |-> Cut(k)]
  BY DEF Parsed
<1> HIDE DEF t
<1>4. \A k \in DOMAIN t : t[k] \in Directives
  BY <1>1
<1>5. \A k \in DOMAIN t : Cut(k) \in Entry
  BY <1>2, <1>4 DEF Entry, Directives
<1>6. DOMAIN t = 1..Len(t) /\ Len(t) \in Nat
  BY <1>1
<1> HIDE DEF Cut
<1>7. Parsed(f, mem) \in Seq(Entry) /\ Len(Parsed(f, mem)) = Len(t)
  BY <1>3, <1>5, <1>6
<1> QED
  BY <1>1, <1>7 DEF t

(* Flattening one sequence gives it back. *)
LEMMA FlattenOne ==
    ASSUME NEW S, NEW s \in Seq(S)
    PROVE  FlattenSeq(<<s>>) = s
<1>1. <<>> \in Seq(Seq(S)) /\ Append(<<>>, s) = <<s>> /\ <<>> \o s = s
  OBVIOUS
<1> QED
  BY <1>1, FlattenAppend, FlattenEmpty

\* As long as no directive is done the settings are the defaults.
LEMMA DefaultsConfigured ==
    ASSUME done' = {}, server' = Settings
    PROVE  Configured'
<1>1. /\ server'.workdir = Default /\ server'.user = Default /\ server'.group = Default
      /\ server'.daemon = TRUE /\ server'.listeners = 0
  BY DEF Settings
<1>2. \A s : {k \in done' : conf_list'[k].name = s} = {}
  OBVIOUS
<1>3. \A s : \A d : Latest(s, d)' = d
  BY <1>2 DEF Latest
<1>4. Cardinality(Given("listen")') = 0
  BY <1>2, FS_EmptySet DEF Given
<1>5. \A s \in {"workdir", "user", "group"} : server'[s].val = Latest(s, Default.val)'
  BY <1>1, <1>3
<1> QED
  BY <1>1, <1>3, <1>4, <1>5 DEF Configured

(* fpx_config_read keeps the invariant. *)
LEMMA ReadStep == ASSUME IInv, fpx_config_read PROVE IInv'
<1> USE DEF confVars, moduleVars, osVars
<1>1. CASE Goto("exit1")
  BY <1>1, Exits DEF fpx_config_read, Testing, Stopped
<1>2. CASE ~Goto("exit1")
  <2>1. /\ conf_list' = Parsed(Main, "ptemp") /\ reads' = <<Main>>
        /\ phase = "read" /\ phase' = "modules"
        /\ UNCHANGED <<env, node, server, live, done, modules, module, euid, egid, bound>>
    BY <1>2 DEF fpx_config_read
  <2>2. /\ modules = <<>> /\ module = [m \in AllModules |-> NewModule]
        /\ node = 0 /\ done = {} /\ server = Settings
    BY <2>1 DEF IInv, Untouched, Early
  <2>3. Main \in Files /\ env \in Environments
    BY FilesAssumption DEF IInv, Types
  <2>4. conf_list' \in Seq(Entry) /\ Len(conf_list') <= MaxConf
    BY <2>1, <2>3, ParsedFacts, TextAssumption
  <2>5. Types'
    <3>1. reads' \in Seq(Files)
      BY <2>1, <2>3
    <3> QED
      BY <2>1, <2>4, <3>1 DEF IInv, Types, Phases, Early
  <2>6. Untouched' /\ CoreFirst' /\ Pools' /\ Identity' /\ Tally'
    BY <2>1, <2>2 DEF IInv, Untouched, CoreFirst, Pools, Identity, Tally, Early, Walking, Accepting, Running
  <2>7. Walk'
    BY <2>1, <2>2 DEF Walk, Walking, Accepting, Running, Stopped
  <2>8. Configured'
    BY <2>1, <2>2, DefaultsConfigured
  <2>9. Contents'
    <3>1. Parsed(Main, "ptemp")' = Parsed(Main, "ptemp")
      BY <2>1 DEF Parsed
    <3>2. Sources' = <<Parsed(Main, "ptemp")>>
      <4>1. DOMAIN reads' = {1} /\ reads'[1] = Main
        BY <2>1
      <4>2. Sources' = [k \in {1} |-> Parsed(Main, "ptemp")']
        BY <4>1 DEF Sources
      <4> QED
        BY <3>1, <4>2
    <3>3. Parsed(Main, "ptemp") \in Seq(Entry)
      BY <2>3, ParsedFacts
    <3> QED
      BY <2>1, <3>2, <3>3, FlattenOne DEF Contents, Walking, Accepting, Running
  <2> QED
    BY <2>5, <2>6, <2>7, <2>8, <2>9 DEF IInv
<1> QED
  BY <1>1, <1>2

(* fpx_setup_prelinked_modules keeps the invariant. *)
LEMMA SetupStep == ASSUME IInv, fpx_setup_prelinked_modules PROVE IInv'
<1> USE DEF confVars, moduleVars, osVars
<1>1. /\ phase = "modules" /\ modules' = <<core>> /\ fpx_preinit_modules(<<core>>)
      /\ node' = First(conf_list) /\ phase' \in Walking
      /\ UNCHANGED <<env, live, done, conf_list, reads, euid, egid, bound>>
  BY DEF fpx_setup_prelinked_modules, Walking
<1>2. /\ module = [m \in AllModules |-> NewModule]
      /\ node = 0 /\ done = {} /\ server = Settings /\ reads = <<Main>>
  BY <1>1 DEF IInv, Untouched, Early
<1>3. /\ module' = [m \in AllModules |-> IF m = core THEN [cntx |-> core, preinited |-> TRUE]
                                         ELSE NewModule]
      /\ server' = Settings
  BY <1>1, <1>2, PreinitCore
<1>4. core \in AllModules
  BY DEF AllModules
<1>5. Types'
  <2>1. modules' \in Seq(AllModules)
    BY <1>1, <1>4
  <2>2. module' \in [AllModules -> [cntx : AllModules \cup {NULL}, preinited : BOOLEAN]]
    BY <1>3, <1>4 DEF NewModule
  <2>3. phase' \in Phases
    BY <1>1 DEF Phases
  <2> QED
    BY <1>1, <1>3, <2>1, <2>2, <2>3, SettingsType DEF IInv, Types
<1>6. Untouched' /\ Pools' /\ Identity'
  BY <1>1 DEF IInv, Untouched, Pools, Identity, Early, Walking, Running
<1>7. CoreFirst'
  BY <1>1, <1>3, <1>4 DEF CoreFirst
<1>8. Tally'
  <2>1. Len(modules') = 1 /\ server'.listeners = 0 /\ Cardinality(done') = 0
    BY <1>1, <1>2, <1>3, FS_EmptySet DEF Settings
  <2> QED
    BY <1>1, <2>1 DEF IInv, Tally, Walking, Running
<1>9. Walk'
  <2>1. conf_list \in Seq(Entry)
    BY DEF IInv, Types
  <2>2. node' = IF Len(conf_list) = 0 THEN 0 ELSE 1
    BY <1>1, <2>1 DEF First
  <2> QED
    BY <1>1, <1>2, <2>1, <2>2 DEF Walk, Walking, Accepting, Running, Stopped
<1>10. Configured'
  BY <1>1, <1>2, <1>3, DefaultsConfigured
<1>11. Contents'
  <2>1. Sources' = Sources
    BY <1>1 DEF Sources, Parsed
  <2>2. Included' = <<>>
    BY <1>1, <1>2 DEF Included
  <2>3. <<Main>> \o <<>> = <<Main>>
    BY FilesAssumption
  <2> QED
    BY <1>1, <1>2, <2>1, <2>2, <2>3, FlattenEmpty DEF IInv, Contents
<1> QED
  BY <1>5, <1>6, <1>7, <1>8, <1>9, <1>10, <1>11 DEF IInv

(***************************************************************************)
(* A directive is handled or checked: the walk.                            *)
(***************************************************************************)
\* The list is kept or grows at its end.
Grows ==
    /\ conf_list' \in Seq(Entry) /\ Len(conf_list) <= Len(conf_list')
    /\ \A k \in 1..Len(conf_list) : conf_list'[k] = conf_list[k]

(* A handled directive moves the walk on by one. *)
LEMMA HandledWalk ==
    ASSUME IInv, phase \in Walking, node # 0, Handled, Grows
    PROVE  /\ node \in 1..Len(conf_list) /\ done = 1..(node - 1) /\ done' = 1..node
           /\ env' = env /\ phase' = phase
           /\ Walk' /\ Pools' /\ Identity' /\ Untouched'
           /\ Cardinality(done') = Cardinality(done) + 1
<1> USE DEF osVars
<1>1. /\ done' = done \cup {node}
      /\ node' = IF node < Len(conf_list') THEN node + 1 ELSE 0
      /\ UNCHANGED <<env, phase, live, euid, egid, bound>>
  BY DEF Handled, Advance
<1>2. conf_list \in Seq(Entry) /\ Len(conf_list) \in Nat /\ Len(conf_list') \in Nat
  BY DEF IInv, Types, Grows
<1>3. node \in 1..Len(conf_list) /\ done = 1..(node - 1)
  BY <1>2 DEF IInv, Walk
<1>4. done' = 1..node
  BY <1>1, <1>2, <1>3
<1>5. Walk'
  <2>1. Len(conf_list) <= Len(conf_list')
    BY DEF Grows
  <2>2. node' \in 0..Len(conf_list')
    BY <1>1, <1>2, <1>3
  <2>3. node' = 0 => node = Len(conf_list')
    BY <1>1, <1>2, <1>3, <2>1
  <2>4. node' # 0 => node = node' - 1
    BY <1>1, <1>3
  <2>5. done' = 1..(IF node' = 0 THEN Len(conf_list') ELSE node' - 1)
    BY <1>4, <2>3, <2>4
  <2>6. done' \subseteq 1..Len(conf_list')
    BY <1>2, <1>3, <1>4, <2>1
  <2> QED
    BY <1>1, <2>2, <2>5, <2>6 DEF Walk, Walking, Accepting, Running, Stopped
<1>6. Pools' /\ Identity' /\ Untouched'
  BY <1>1 DEF IInv, Pools, Identity, Untouched, Early, Walking, Running
<1>7. Cardinality(done') = Cardinality(done) + 1
  <2>1. node \notin done
    BY <1>2, <1>3
  <2> QED
    BY <1>1, <2>1, Counts, FS_AddElement
<1> QED
  BY <1>1, <1>3, <1>4, <1>5, <1>6, <1>7

\* The directive at the node is the last one given so far.
LEMMA HandledLatest ==
    ASSUME IInv, phase \in Walking, node # 0, Handled, Grows
    PROVE  /\ \A s : \A d : Latest(s, d)' = IF Current.name = s THEN Current.arg ELSE Latest(s, d)
           /\ Cardinality(Given("listen")')
                 = Cardinality(Given("listen")) + (IF Current.name = "listen" THEN 1 ELSE 0)
<1>1. /\ node \in 1..Len(conf_list) /\ done = 1..(node - 1) /\ done' = 1..node
      /\ Len(conf_list) \in Nat
  BY HandledWalk, Counts
<1>2. \A k \in 1..node : conf_list'[k] = conf_list[k]
  BY <1>1 DEF Grows
<1>3. ASSUME NEW s
      PROVE  {k \in done' : conf_list'[k].name = s}
                = {k \in done : conf_list[k].name = s}
                     \cup (IF Current.name = s THEN {node} ELSE {})
  <2>1. done' = done \cup {node}
    BY <1>1
  <2>2. \A k \in done : k \in 1..node
    BY <1>1
  <2> QED
    BY <1>1, <1>2, <2>1, <2>2 DEF Current
<1>4. ASSUME NEW s, NEW d
      PROVE  Latest(s, d)' = IF Current.name = s THEN Current.arg ELSE Latest(s, d)
  <2> DEFINE old == {k \in done : conf_list[k].name = s}
             new == {k \in done' : conf_list'[k].name = s}
  <2>1. CASE Current.name = s
    <3>1. new = old \cup {node}
      BY <1>3, <2>1
    <3>2. \A j \in new : j \in 1..node
      BY <1>1
    <3>3. node \in new
      BY <3>1
    <3>4. PICK m : m = CHOOSE k \in new : \A j \in new : j <= k
      OBVIOUS
    <3>5. m \in new /\ \A j \in new : j <= m
      <4>1. \A j \in new : j <= node
        BY <1>1, <3>2
      <4> HIDE DEF new
      <4> QED
        BY <3>3, <3>4, <4>1
    <3>6. m = node
      BY <1>1, <3>2, <3>3, <3>5
    <3>7. Latest(s, d)' = conf_list'[m].arg
      BY <3>3, <3>4 DEF Latest
    <3> QED
      BY <1>1, <1>2, <2>1, <3>6, <3>7 DEF Current
  <2>2. CASE Current.name # s
    <3>1. new = old
      BY <1>3, <2>2
    <3>2. CASE old = {}
      BY <2>2, <3>1, <3>2 DEF Latest
    <3>3. CASE old # {}
      <4>1. PICK m : m = CHOOSE k \in old : \A j \in old : j <= k
        OBVIOUS
      <4>2. Latest(s, d) = conf_list[m].arg
        BY <3>3, <4>1 DEF Latest
      <4>3. Latest(s, d)' = conf_list'[m].arg
        BY <3>1, <3>3, <4>1 DEF Latest
      <4>4. m \in done
        <5>1. /\ old \subseteq Nat /\ node - 1 \in Nat /\ old \subseteq done
              /\ \A j \in old : j <= node - 1
          BY <1>1
        <5>2. \E k \in old : \A j \in old : j <= k
          BY <3>3, <5>1, BoundedMax
        <5> HIDE DEF old
        <5>3. m \in old
          BY <4>1, <5>2
        <5> QED
          BY <5>1, <5>3
      <4>5. m \in 1..node
        BY <1>1, <4>4
      <4> QED
        BY <1>2, <2>2, <4>2, <4>3, <4>5
    <3> QED
      BY <3>2, <3>3
  <2> QED
    BY <2>1, <2>2
<1>5. Cardinality(Given("listen")')
         = Cardinality(Given("listen")) + (IF Current.name = "listen" THEN 1 ELSE 0)
  <2>1. Given("listen")' = Given("listen") \cup (IF Current.name = "listen" THEN {node} ELSE {})
    BY <1>3 DEF Given
  <2>2. Given("listen") \subseteq done
    BY DEF Given
  <2>3. IsFiniteSet(Given("listen")) /\ node \notin Given("listen")
    BY <1>1, <2>2, Counts, FS_Subset
  <2>4. Cardinality(Given("listen")) \in Nat
    BY <2>3, FS_CardinalityType
  <2>5. CASE Current.name = "listen"
    BY <2>1, <2>3, <2>5, FS_AddElement
  <2>6. CASE Current.name # "listen"
    <3>1. Given("listen")' = Given("listen")
      BY <2>1, <2>6
    <3> QED
      BY <2>4, <2>6, <3>1
  <2> QED
    BY <2>5, <2>6
<1> QED
  BY <1>4, <1>5

(***************************************************************************)
(* A directive is handled or checked: the contents of the list.            *)
(***************************************************************************)
LEMMA IncludedByType ==
    ASSUME IInv, NEW k \in DOMAIN conf_list
    PROVE  IncludedBy(k) \in Seq(Files)
<1>1. CASE conf_list[k].name = "include"
  <2>1. conf_list[k].arg \in DOMAIN Denoted
    BY <1>1 DEF IInv, Types, Entry
  <2>2. Denoted[conf_list[k].arg].files \in Seq(Files)
    BY <2>1, PathsAssumption
  <2> QED
    BY <2>2 DEF IncludedBy
<1>2. CASE conf_list[k].name # "include"
  BY <1>2 DEF IncludedBy
<1> QED
  BY <1>1, <1>2

(* A handled directive adds the files it includes to those included. *)
LEMMA HandledIncluded ==
    ASSUME IInv, phase \in Walking, node # 0, Handled, Grows
    PROVE  /\ FlattenSeq(Included') = FlattenSeq(Included) \o IncludedBy(node)
           /\ FlattenSeq(Included) \in Seq(Files)
<1>1. /\ node \in 1..Len(conf_list) /\ done = 1..(node - 1) /\ done' = 1..node
      /\ conf_list \in Seq(Entry) /\ Len(conf_list) \in Nat
  BY HandledWalk, Counts DEF IInv, Types
<1>2. \A k \in 1..node : IncludedBy(k) \in Seq(Files)
  <2>1. \A k \in 1..node : k \in DOMAIN conf_list
    BY <1>1
  <2> QED
    BY <2>1, IncludedByType
<1>3. \A k \in 1..node : IncludedBy(k)' = IncludedBy(k)
  <2>1. \A k \in 1..node : conf_list'[k] = conf_list[k]
    BY <1>1 DEF Grows
  <2> QED
    BY <2>1 DEF IncludedBy
<1>4. Included = [k \in 1..(node - 1) |-> IncludedBy(k)]
  BY <1>1 DEF Included
<1>5. Included' = [k \in 1..node |-> IncludedBy(k)']
  BY <1>1 DEF Included
<1>6. Included' = [k \in 1..node |-> IncludedBy(k)]
  BY <1>3, <1>5
<1>7. node - 1 \in Nat /\ (node - 1) + 1 = node /\ node \in 1..node
  BY <1>1
<1>8. PICK n \in Nat : n = node - 1
  BY <1>7
<1>9. PICK Q : Q = Seq(Files)
  OBVIOUS
<1>10. Included \in Seq(Q) /\ Len(Included) = n
  <2>1. Included = [k \in 1..n |-> IncludedBy(k)] /\ \A k \in 1..n : IncludedBy(k) \in Q
    BY <1>2, <1>4, <1>7, <1>8, <1>9
  <2> QED
    BY <2>1
<1>11. Included' = Append(Included, IncludedBy(node))
  <2>1. Append(Included, IncludedBy(node)) \in Seq(Q) /\ Included' \in Seq(Q)
    <3>1. IncludedBy(node) \in Q
      BY <1>2, <1>7, <1>9
    <3>2. Included' = [k \in 1..(n + 1) |-> IncludedBy(k)] /\ \A k \in 1..(n + 1) : IncludedBy(k) \in Q
      BY <1>2, <1>6, <1>7, <1>8, <1>9
    <3> QED
      BY <1>10, <3>1, <3>2
  <2>2. Len(Append(Included, IncludedBy(node))) = n + 1 /\ Len(Included') = n + 1
    BY <1>2, <1>6, <1>7, <1>8, <1>9, <1>10
  <2>3. \A k \in 1..(n + 1) : Append(Included, IncludedBy(node))[k] = Included'[k]
    BY <1>2, <1>4, <1>6, <1>7, <1>8, <1>9, <1>10
  <2> QED
    BY <2>1, <2>2, <2>3
<1>12. IncludedBy(node) \in Seq(Files) /\ Included \in Seq(Seq(Files))
  BY <1>2, <1>7, <1>9, <1>10
<1> QED
  BY <1>11, <1>12, FlattenAppend, FlattenType

\* The list is kept.
LEMMA PlainContents ==
    ASSUME IInv, phase \in Walking, node # 0, Handled, UNCHANGED <<conf_list, reads>>,
           Current.name # "include"
    PROVE  Grows /\ Contents'
<1>1. Grows
  BY DEF IInv, Types, Grows
<1>3. env' = env /\ phase' = phase
  BY <1>1, HandledWalk
<1>4. Sources' = Sources
  BY <1>3 DEF Sources, Parsed
<1>5. IncludedBy(node) = <<>>
  BY DEF IncludedBy, Current
<1>6. FlattenSeq(Included') = FlattenSeq(Included)
  BY <1>1, <1>5, HandledIncluded
<1>7. Contents'
  BY <1>3, <1>4, <1>6 DEF IInv, Contents
<1> QED
  BY <1>1, <1>7

\* An include appends the directives of the files it names.
LEMMA IncludeContents ==
    ASSUME IInv, phase \in Walking, node # 0, Room, Include
    PROVE  /\ Grows /\ Contents'
           /\ Len(conf_list') <= MaxConf /\ reads' \in Seq(Files)
<1> DEFINE path == Current.arg
           files == FilesRead(path)
           news == [k \in DOMAIN files |-> Parsed(files[k], "pool")]
           texts == [k \in DOMAIN files |-> env.text[files[k]]]
<1>1. /\ Current.name = "include" /\ Includable(path) /\ Handled
      /\ conf_list' = conf_list \o FlattenSeq(news) /\ reads' = reads \o files
  BY DEF Include, fpx_config_read_included
<1>2. /\ conf_list \in Seq(Entry) /\ reads \in Seq(Files) /\ env \in Environments
      /\ Len(conf_list) \in Nat /\ node \in 1..Len(conf_list)
  BY DEF IInv, Types, Walk
<1>3. path \in DOMAIN Denoted
  BY <1>1, <1>2 DEF Entry, Current
<1>4. files = IncludedBy(node) /\ files \in Seq(Files)
  <2>1. Denoted[path].files \in Seq(Files)
    BY <1>3, PathsAssumption
  <2>2. Denoted[path].kind \in {"file", "mask", "dir"}
    BY <1>1 DEF Includable, fpx_is_path_has_wildcard, IsFile, fpx_dir_open
  <2>3. files = IF Denoted[path].kind # "dir" THEN Denoted[path].files ELSE <<>>
    BY <2>2 DEF FilesRead, fpx_is_path_has_wildcard, IsFile, Matches
  <2>4. files = IncludedBy(node)
    BY <1>1, <2>3 DEF IncludedBy, Current
  <2> QED
    BY <2>1, <2>3, <2>4
<1> HIDE DEF path, files
<1>5. PICK n \in Nat : n = Len(files) /\ DOMAIN files = 1..n
  BY <1>4
<1>6. \A k \in 1..n : files[k] \in Files
  BY <1>4, <1>5
<1>7. \A k \in 1..n : /\ Parsed(files[k], "pool") \in Seq(Entry)
                      /\ env.text[files[k]] \in Seq(Directives)
                      /\ Len(Parsed(files[k], "pool")) = Len(env.text[files[k]])
  BY <1>2, <1>6, ParsedFacts
<1>8. news \in Seq(Seq(Entry)) /\ Len(news) = n
  <2>1. PICK Q : Q = Seq(Entry)
    OBVIOUS
  <2>2. news \in Seq(Q) /\ Len(news) = n
    BY <1>5, <1>7, <2>1
  <2> QED
    BY <2>1, <2>2
<1>9. texts \in Seq(Seq(Directives)) /\ Len(texts) = n
  <2>1. PICK Q : Q = Seq(Directives)
    OBVIOUS
  <2>2. texts \in Seq(Q) /\ Len(texts) = n
    BY <1>5, <1>7, <2>1
  <2> QED
    BY <2>1, <2>2
<1>10. FlattenSeq(news) \in Seq(Entry) /\ Len(FlattenSeq(news)) \in Nat
  <2> HIDE DEF news
  <2>1. FlattenSeq(news) \in Seq(Entry)
    BY <1>8, FlattenType
  <2> QED
    BY <2>1
<1>11. Len(FlattenSeq(texts)) = Len(FlattenSeq(news))
  <2>1. \A k \in 1..Len(texts) : Len(texts[k]) = Len(news[k])
    BY <1>5, <1>7, <1>9
  <2> HIDE DEF texts, news
  <2> QED
    BY <1>8, <1>9, <2>1, FlattenLength
<1>12. Len(conf_list) + Len(FlattenSeq(texts)) <= MaxConf
  BY <1>1 DEF Room, files, path
<1>13. Grows /\ Len(conf_list') <= MaxConf
  <2> HIDE DEF texts, news
  <2>1. Len(conf_list') = Len(conf_list) + Len(FlattenSeq(news))
    BY <1>1, <1>2, <1>10
  <2> QED
    BY <1>1, <1>2, <1>10, <1>11, <1>12, <2>1 DEF Grows
<1>14. reads' \in Seq(Files)
  BY <1>1, <1>2, <1>4
<1>15. Contents'
  <2>1. env' = env /\ phase' = phase
    BY <1>1, <1>13, HandledWalk
  <2>2. reads' = <<Main>> \o FlattenSeq(Included')
    <3>1. reads = <<Main>> \o FlattenSeq(Included)
      BY DEF IInv, Contents
    <3>2. /\ FlattenSeq(Included') = FlattenSeq(Included) \o files
          /\ FlattenSeq(Included) \in Seq(Files)
      BY <1>1, <1>4, <1>13, HandledIncluded
    <3>3. <<Main>> \in Seq(Files)
      BY FilesAssumption
    <3>4. PICK a \in Seq(Files), b \in Seq(Files) : a = <<Main>> /\ b = FlattenSeq(Included)
      BY <3>2, <3>3
    <3>5. (a \o b) \o files = a \o (b \o files)
      BY <1>4
    <3> QED
      BY <1>1, <3>1, <3>2, <3>4, <3>5
  <2>3. Len(reads) >= 1
    <3>1. reads = <<Main>> \o FlattenSeq(Included) /\ FlattenSeq(Included) \in Seq(Files)
      BY <1>1, <1>13, HandledIncluded DEF IInv, Contents
    <3>2. <<Main>> \in Seq(Files) /\ Len(<<Main>>) = 1
      BY FilesAssumption
    <3> QED
      BY <3>1, <3>2
  <2> DEFINE mem(k) == IF k = 1 THEN "ptemp" ELSE "pool"
  <2>4. PICK l \in Nat : l = Len(reads) /\ DOMAIN reads = 1..l
    BY <1>2
  <2>5. DOMAIN reads' = 1..(l + n)
    BY <1>1, <1>2, <1>4, <1>5, <2>4
  <2>7. Sources = [k \in 1..l |-> Parsed(reads[k], mem(k))]
    BY <2>4 DEF Sources
  <2>8. Sources' = [k \in 1..(l + n) |-> Parsed(reads'[k], mem(k))]
    BY <2>1, <2>5 DEF Sources, Parsed
  <2>9. PICK Q : Q = Seq(Entry)
    OBVIOUS
  <2>10. \A k \in 1..l : Parsed(reads[k], mem(k)) \in Q
    <3>1. \A k \in 1..l : reads[k] \in Files /\ mem(k) \in {"pool", "ptemp"}
      BY <1>2, <2>4
    <3> QED
      BY <1>2, <2>9, <3>1, ParsedFacts
  <2>11. Sources \in Seq(Q) /\ Len(Sources) = l
    BY <2>7, <2>10
  <2>12. Sources' = Sources \o news
    <3>1. Sources \o news \in Seq(Q) /\ Len(Sources \o news) = l + n
      <4> HIDE DEF news
      <4>1. news \in Seq(Q)
        BY <1>8, <2>9, Zenon
      <4>2. Len(news) = n
        BY <1>8, Zenon
      <4>3. PICK a \in Seq(Q), b \in Seq(Q) : a = Sources /\ b = news
        BY <2>11, <4>1
      <4>4. a \o b \in Seq(Q) /\ Len(a \o b) = Len(a) + Len(b)
        OBVIOUS
      <4> QED
        BY <2>11, <4>2, <4>3, <4>4
    <3>2. \A k \in 1..(l + n) : (Sources \o news)[k] = Parsed(reads'[k], mem(k))
      <4> SUFFICES ASSUME NEW k \in 1..(l + n)
                   PROVE  (Sources \o news)[k] = Parsed(reads'[k], mem(k))
        OBVIOUS
      <4>1. CASE k <= l
        <5>1. reads'[k] = reads[k] /\ k \in 1..l
          BY <1>1, <1>2, <1>4, <2>4, <4>1
        <5>2. (Sources \o news)[k] = Sources[k]
          BY <1>8, <2>9, <2>11, <5>1
        <5> QED
          BY <2>7, <5>1, <5>2
      <4>2. CASE ~(k <= l)
        <5>1. reads'[k] = files[k - l] /\ k - l \in 1..n /\ k # 1
          BY <1>1, <1>2, <1>4, <1>5, <2>3, <2>4, <4>2
        <5>2. (Sources \o news)[k] = news[k - l]
          <6> HIDE DEF news
          <6> QED
            BY <1>8, <2>9, <2>11, <4>2, <5>1
        <5> QED
          BY <1>5, <5>1, <5>2
      <4> QED
        BY <4>1, <4>2
    <3>3. PICK t : t = Sources \o news
      OBVIOUS
    <3>4. t = [k \in 1..(l + n) |-> t[k]]
      BY <3>1, <3>3
    <3> HIDE DEF news, mem
    <3>5. \A k \in 1..(l + n) : t[k] = Parsed(reads'[k], mem(k))
      BY <3>2, <3>3
    <3>6. t = Sources'
      BY <2>8, <3>4, <3>5
    <3> QED
      BY <3>3, <3>6
  <2>13. conf_list' = FlattenSeq(Sources')
    <3>1. Sources \in Seq(Seq(Entry)) /\ conf_list = FlattenSeq(Sources)
      BY <2>9, <2>11 DEF IInv, Contents
    <3> QED
      BY <1>1, <1>8, <2>12, <3>1, FlattenConcat
  <2> QED
    BY <2>2, <2>13 DEF Contents
<1> QED
  BY <1>13, <1>14, <1>15

(***************************************************************************)
(* A directive is handled or checked: the settings.                        *)
(***************************************************************************)
Named == {"workdir", "user", "group"}

\* The directives of the core module go to the core module: it comes first.
LEMMA CoreProvides ==
    ASSUME IInv, phase \in Walking,
           NEW name \in {"include", "import", "listen", "daemon", "workdir", "user", "group"}
    PROVE  Provider(name) = core
<1>1. modules \in Seq(AllModules) /\ modules # <<>> /\ modules[1] = core
  BY DEF IInv, Types, CoreFirst
<1>2. name \in DOMAIN CoreCommands
  BY DEF CoreCommands
<1>3. 1 \in Providers(name)
  BY <1>1, <1>2 DEF Providers, Commands
<1>4. \A j \in Providers(name) : j \in Nat /\ 1 <= j
  BY <1>1 DEF Providers
<1>5. PICK m : m = CHOOSE k \in Providers(name) : \A j \in Providers(name) : k <= j
  OBVIOUS
<1>6. m \in Providers(name) /\ m <= 1
  BY <1>3, <1>4, <1>5
<1>7. m = 1
  BY <1>4, <1>6
<1> QED
  BY <1>1, <1>5, <1>7 DEF Provider

\* No setting is given, or none is taken while testing.
LEMMA SettingsKept ==
    ASSUME IInv, phase \in Walking, node # 0, Handled, Grows, server' = server,
           phase = "process" => Current.name \notin Named \cup {"daemon", "listen"}
    PROVE  Configured'
<1>1. phase' = phase
  BY HandledWalk
<1>2. CASE phase = "check"
  BY <1>1, <1>2 DEF IInv, Configured, Testing
<1>3. CASE phase = "process"
  <2>1. \A s \in Named \cup {"daemon"} : \A d : Latest(s, d)' = Latest(s, d)
    BY <1>3, HandledLatest
  <2>2. Cardinality(Given("listen")') = Cardinality(Given("listen"))
    <3>1. Cardinality(Given("listen")') = Cardinality(Given("listen")) + 0
      BY <1>3, HandledLatest
    <3>2. Cardinality(Given("listen")) = server.listeners /\ server.listeners \in Nat
      BY <1>3, Counts DEF IInv, Configured, Testing
    <3> QED
      BY <3>1, <3>2
  <2> QED
    BY <1>1, <1>3, <2>1, <2>2 DEF IInv, Configured, Testing, Named
<1> QED
  BY <1>2, <1>3 DEF Walking

\* The number of modules and listeners keeps up with the directives done.
LEMMA TallyKept ==
    ASSUME IInv, phase \in Walking, node # 0, Handled, Grows,
           server'.listeners \in Nat, Len(modules') \in Nat,
           Len(modules') + server'.listeners <= Len(modules) + server.listeners + 1
    PROVE  Tally'
<1>1. phase' = phase /\ Cardinality(done') = Cardinality(done) + 1
  BY HandledWalk
<1>2. Len(modules) + server.listeners <= Cardinality(done) + 1
  BY DEF IInv, Tally
<1>3. Len(modules') + server'.listeners <= Cardinality(done') + 1
  BY <1>1, <1>2, Counts
<1>4. bound' = bound
  BY DEF Handled, osVars
<1> QED
  BY <1>1, <1>3, <1>4 DEF IInv, Tally, Walking, Running

(* An include keeps the invariant. *)
LEMMA IncludeStep == ASSUME IInv, phase \in Walking, node # 0, Room, Include PROVE IInv'
<1>1. /\ Handled /\ server' = server /\ modules' = modules /\ module' = module
      /\ Current.name = "include"
  BY DEF Include, moduleVars
<1>2. Grows /\ Contents' /\ Len(conf_list') <= MaxConf /\ reads' \in Seq(Files)
  BY IncludeContents
<1>3. Walk' /\ Pools' /\ Identity' /\ Untouched' /\ env' = env /\ phase' = phase
  BY <1>1, <1>2, HandledWalk
<1>4. Configured'
  BY <1>1, <1>2, SettingsKept DEF Named
<1>5. Tally'
  BY <1>1, <1>2, TallyKept, Counts
<1>6. Types'
  BY <1>1, <1>2, <1>3 DEF IInv, Types, Grows
<1>7. CoreFirst'
  BY <1>1, <1>3 DEF IInv, CoreFirst
<1> QED
  BY <1>2, <1>3, <1>4, <1>5, <1>6, <1>7 DEF IInv

\* A directive that changes nothing is handled, or checked.
LEMMA NothingStep ==
    ASSUME IInv, phase \in Walking, node # 0, Handled,
           UNCHANGED <<server, modules, module, conf_list, reads>>, Current.name # "include",
           phase = "process" => Current.name \notin Named \cup {"daemon", "listen"}
    PROVE  IInv'
<1>1. Grows /\ Contents'
  BY PlainContents
<1>2. Walk' /\ Pools' /\ Identity' /\ Untouched' /\ env' = env /\ phase' = phase
  BY <1>1, HandledWalk
<1>3. Configured'
  BY <1>1, SettingsKept
<1>4. Tally'
  BY <1>1, TallyKept, Counts
<1>5. Types'
  BY <1>2 DEF IInv, Types
<1>6. CoreFirst'
  BY <1>2 DEF IInv, CoreFirst
<1> QED
  BY <1>1, <1>2, <1>3, <1>4, <1>5, <1>6 DEF IInv

(* fpx_load_module keeps the invariant. *)
LEMMA LoadStep == ASSUME IInv, phase = "process", node # 0, fpx_load_module PROVE IInv'
<1> USE DEF confVars
<1>1. /\ Handled /\ UNCHANGED <<conf_list, reads>> /\ Current.name = "import"
      /\ modules' = Append(modules, Libraries[Current.arg].module)
      /\ fpx_preinit_modules(modules')
  BY DEF fpx_load_module
<1>2. phase \in Walking
  BY DEF Walking
<1>3. Grows /\ Contents'
  BY <1>1, <1>2, PlainContents
<1>4. Walk' /\ Pools' /\ Identity' /\ Untouched' /\ env' = env /\ phase' = phase
  BY <1>1, <1>2, <1>3, HandledWalk
<1>5. Libraries[Current.arg].module \in AllModules
  <2>1. Current \in Entry
    <3>1. node \in 1..Len(conf_list) /\ conf_list \in Seq(Entry)
      BY <1>1, <1>2, <1>3, HandledWalk DEF IInv, Types
    <3> QED
      BY <3>1 DEF Current
  <2>2. Current.arg \in DOMAIN Libraries
    BY <1>1, <2>1 DEF Entry
  <2> QED
    BY <2>2, PathsAssumption DEF AllModules
<1>6. /\ modules \in Seq(AllModules) /\ modules # <<>> /\ modules[1] = core
      /\ module[core].preinited
      /\ module \in [AllModules -> [cntx : AllModules \cup {NULL}, preinited : BOOLEAN]]
  BY <1>2 DEF IInv, Types, CoreFirst
<1>7. /\ modules' \in Seq(AllModules) /\ modules' # <<>> /\ modules'[1] = core
      /\ Len(modules') = Len(modules) + 1
  BY <1>1, <1>5, <1>6
<1>8. module' = module /\ server' = server
  BY <1>1, <1>6, <1>7, PreinitLater
<1>9. Configured'
  BY <1>1, <1>2, <1>3, <1>8, SettingsKept DEF Named
<1>10. Tally'
  BY <1>1, <1>2, <1>3, <1>7, <1>8, TallyKept, Counts
<1>11. Types'
  BY <1>1, <1>4, <1>7, <1>8 DEF IInv, Types
<1>12. CoreFirst'
  BY <1>4, <1>6, <1>7, <1>8 DEF IInv, CoreFirst
<1> QED
  BY <1>3, <1>4, <1>9, <1>10, <1>11, <1>12 DEF IInv

Fields == [daemon : BOOLEAN, workdir : Str, user : Str, group : Str, listeners : Nat]

\* What a directive stores, field by field.
LEMMA StoredFields ==
    ASSUME server \in Fields, NEW d \in Entry
    PROVE  /\ Stored(d) \in Fields
           /\ \A s \in Named : Stored(d)[s].val = IF d.name = s THEN d.arg ELSE server[s].val
           /\ Stored(d).daemon = IF d.name = "daemon" THEN d.arg = "on" ELSE server.daemon
           /\ Stored(d).listeners = server.listeners + (IF d.name = "listen" THEN 1 ELSE 0)
<1> DEFINE str == [val |-> d.arg, mem |-> d.mem]
<1>1. str \in Str /\ str.val = d.arg
  BY DEF Entry, Str, Memory
<1>2. server.listeners \in Nat
  BY DEF Fields
<1>3. CASE d.name = "listen"
  <2>1. Stored(d) = [server EXCEPT !.listeners = @ + 1]
    BY <1>3 DEF Stored
  <2> QED
    BY <1>2, <1>3, <2>1 DEF Fields, Named
<1>4. CASE d.name = "daemon"
  <2>1. PICK b \in BOOLEAN : b = (d.arg = "on")
    OBVIOUS
  <2>2. Stored(d) = [server EXCEPT !.daemon = b]
    BY <1>4, <2>1 DEF Stored
  <2>3. /\ Stored(d) \in Fields /\ Stored(d).daemon = b
        /\ Stored(d).listeners = server.listeners
        /\ \A s \in Named : Stored(d)[s] = server[s]
    BY <2>2 DEF Fields, Named
  <2> QED
    BY <1>2, <1>4, <2>1, <2>3 DEF Named
<1>5. CASE d.name = "workdir"
  <2>1. Stored(d) = [server EXCEPT !["workdir"] = str]
    BY <1>5 DEF Stored
  <2> HIDE DEF str
  <2> QED
    BY <1>1, <1>2, <1>5, <2>1 DEF Fields, Named
<1>6. CASE d.name = "user"
  <2>1. Stored(d) = [server EXCEPT !["user"] = str]
    BY <1>6 DEF Stored
  <2> HIDE DEF str
  <2> QED
    BY <1>1, <1>2, <1>6, <2>1 DEF Fields, Named
<1>7. CASE d.name = "group"
  <2>1. Stored(d) = [server EXCEPT !["group"] = str]
    BY <1>7 DEF Stored
  <2> HIDE DEF str
  <2> QED
    BY <1>1, <1>2, <1>7, <2>1 DEF Fields, Named
<1>8. CASE d.name \notin Named \cup {"daemon", "listen"}
  <2>1. Stored(d) = server
    BY <1>8 DEF Stored, Named
  <2> QED
    BY <1>2, <1>8, <2>1 DEF Fields, Named
<1> QED
  BY <1>3, <1>4, <1>5, <1>6, <1>7, <1>8 DEF Named

(* A directive of the core keeps the invariant. *)
LEMMA SetStep == ASSUME IInv, phase = "process", node # 0, Set PROVE IInv'
<1> USE DEF confVars, moduleVars
<1>1. /\ Handled /\ UNCHANGED <<conf_list, reads, modules, module>>
      /\ Current.name # "include" /\ server' = Stored(Current)
  BY DEF Set
<1>2. phase \in Walking
  BY DEF Walking
<1>3. Grows /\ Contents'
  BY <1>1, <1>2, PlainContents
<1>4. /\ Walk' /\ Pools' /\ Identity' /\ Untouched' /\ env' = env /\ phase' = phase
      /\ node \in 1..Len(conf_list)
  BY <1>1, <1>2, <1>3, HandledWalk
<1>5. Current \in Entry /\ server \in Fields
  BY <1>4 DEF Current, IInv, Types, Fields
<1>6. /\ server' \in Fields
      /\ \A s \in Named : server'[s].val = IF Current.name = s THEN Current.arg ELSE server[s].val
      /\ server'.daemon = IF Current.name = "daemon" THEN Current.arg = "on" ELSE server.daemon
      /\ server'.listeners = server.listeners + (IF Current.name = "listen" THEN 1 ELSE 0)
  BY <1>1, <1>5, StoredFields
<1>7. Configured'
  <2>1. /\ \A s \in Named : server[s].val = Latest(s, Default.val)
        /\ server.daemon = (Latest("daemon", "on") = "on")
        /\ server.listeners = Cardinality(Given("listen"))
    BY DEF IInv, Configured, Testing, Named
  <2>2. /\ \A s : \A d : Latest(s, d)' = IF Current.name = s THEN Current.arg ELSE Latest(s, d)
        /\ Cardinality(Given("listen")')
              = Cardinality(Given("listen")) + (IF Current.name = "listen" THEN 1 ELSE 0)
    BY <1>1, <1>2, <1>3, HandledLatest
  <2>3. \A s \in Named : server'[s].val = Latest(s, Default.val)'
    BY <1>6, <2>1, <2>2
  <2>4. server'.daemon = (Latest("daemon", "on")' = "on")
    BY <1>6, <2>1, <2>2
  <2>5. server'.listeners = Cardinality(Given("listen")')
    BY <1>6, <2>1, <2>2
  <2> QED
    BY <1>4, <2>3, <2>4, <2>5 DEF Configured, Testing, Named
<1>8. Tally'
  <2>1. server'.listeners \in Nat /\ Len(modules') = Len(modules)
    BY <1>1, <1>6 DEF Fields
  <2> QED
    BY <1>1, <1>2, <1>3, <1>6, <2>1, TallyKept, Counts
<1>9. Types'
  BY <1>1, <1>4, <1>6 DEF IInv, Types, Fields
<1>10. CoreFirst'
  BY <1>1, <1>4 DEF IInv, CoreFirst
<1> QED
  BY <1>3, <1>4, <1>7, <1>8, <1>9, <1>10 DEF IInv

(* fpx_config_process keeps the invariant. *)
LEMMA ProcessStep == ASSUME IInv, fpx_config_process PROVE IInv'
<1>1. phase = "process" /\ node # 0 /\ phase \in Walking
  BY DEF fpx_config_process, Walking
<1>2. CASE Goto("exit1")
  BY <1>1, <1>2, Exits DEF Testing, Stopped
<1>3. CASE Room /\ Include
  BY <1>1, <1>3, IncludeStep
<1>4. CASE fpx_load_module
  BY <1>1, <1>4, LoadStep
<1>5. CASE Set
  BY <1>1, <1>5, SetStep
<1>6. CASE ModuleDirective
  <2>1. Current.name \notin {"include", "import", "listen", "daemon", "workdir", "user", "group"}
    BY <1>1, <1>6, CoreProvides DEF ModuleDirective
  <2> QED
    BY <1>1, <1>6, <2>1, NothingStep DEF ModuleDirective, Named, confVars, moduleVars
<1> QED
  BY <1>2, <1>3, <1>4, <1>5, <1>6 DEF fpx_config_process, HandlerFails

(* fpx_config_check keeps the invariant. *)
LEMMA CheckStep == ASSUME IInv, fpx_config_check PROVE IInv'
<1>1. phase = "check" /\ phase \in Walking
  BY DEF fpx_config_check, Walking
<1>2. CASE CheckStops("refused")
  BY <1>1, <1>2, Checks
<1>3. CASE node = 0 /\ CheckStops("checked")
  BY <1>1, <1>3, Checks
<1>4. CASE node # 0 /\ Room /\ Include
  BY <1>1, <1>4, IncludeStep
<1>5. CASE /\ node # 0 /\ Current.name # "include"
           /\ UNCHANGED <<server, confVars, moduleVars>> /\ Handled
  BY <1>1, <1>5, NothingStep DEF confVars, moduleVars
<1> QED
  BY <1>2, <1>3, <1>4, <1>5 DEF fpx_config_check, Checked

(* Every step keeps the invariant. *)
LEMMA StartupStep == IInv /\ [Next]_vars => IInv'
<1> SUFFICES ASSUME IInv, [Next]_vars PROVE IInv'
  OBVIOUS
<1>1. CASE \/ CreatePools \/ ProcessEnds \/ BindListeners \/ fpx_process_set_workdir
           \/ fpx_process_set_user \/ fpx_process_set_group \/ fpx_logger_start
           \/ fpx_process_become_daemon \/ fpx_init_modules \/ InitEnds
           \/ fpx_server_cycle
  BY <1>1, Onward
<1>2. CASE fpx_config_read
  BY <1>2, ReadStep
<1>3. CASE fpx_setup_prelinked_modules
  BY <1>3, SetupStep
<1>4. CASE fpx_config_process
  BY <1>4, ProcessStep
<1>5. CASE fpx_config_check
  BY <1>5, CheckStep
<1>6. CASE UNCHANGED vars
  <2>1. Kept /\ UNCHANGED <<phase, node, live, osVars>>
    BY <1>6 DEF vars, Kept, osVars
  <2>2. Walk' /\ Pools' /\ Tally' /\ Identity'
    BY <2>1 DEF IInv, Kept, Walk, Pools, Tally, Identity, osVars
  <2>3. phase' \in Phases
    BY <2>1 DEF IInv, Types
  <2>4. phase' \in Early => node' = 0
    BY <2>1 DEF IInv, Untouched
  <2> QED
    BY <2>1, <2>2, <2>3, <2>4, KeptStep
<1> QED
  BY <1>1, <1>2, <1>3, <1>4, <1>5, <1>6 DEF Next

(***************************************************************************)
(* The theorems.                                                           *)
(***************************************************************************)
\* The invariant holds in every state main can be in.
THEOREM Invariance == Spec => []IInv
  BY StartupInit, StartupStep, PTL DEF Spec

\* Every state of main is of its types, for every configuration, whatever
\* it includes and imports: the walk never leaves the list.
THEOREM Typing == Spec => []TypeOK
<1>1. IInv => TypeOK
  <2> SUFFICES ASSUME IInv PROVE TypeOK
    OBVIOUS
  <2>1. /\ env \in Environments /\ phase \in Phases
        /\ conf_list \in Seq(Entry) /\ Len(conf_list) <= MaxConf
        /\ modules \in Seq(AllModules)
        /\ module \in [AllModules -> [cntx : AllModules \cup {NULL}, preinited : BOOLEAN]]
        /\ server \in Fields
    BY DEF IInv, Types, Fields
  <2>2. \A k \in DOMAIN conf_list : conf_list[k].mem \in Memory /\ conf_list[k].argc \in Nat
    BY <2>1 DEF Entry, Memory
  <2>3. node \in 0..(IF phase = "init" THEN Len(modules) ELSE Len(conf_list))
    BY <2>1, Counts
       DEF IInv, Walk, Untouched, Phases, Accepting, Running, Early, Walking, Stopped
  <2>4. \A s \in {"workdir", "user", "group"} : server[s].mem \in Memory
    BY <2>1 DEF Fields, Str
  <2>5. server.listeners <= MaxConf
    <3>1. CASE phase \in Testing
      BY <3>1, BoundAssumption DEF IInv, Configured, Settings
    <3>2. CASE phase \notin Testing
      <4>1. server.listeners = Cardinality(Given("listen"))
        BY <3>2 DEF IInv, Configured
      <4>2. Cardinality(Given("listen")) <= Cardinality(done)
        BY Counts, FS_Subset DEF Given
      <4> QED
        BY <2>1, <4>1, <4>2, Counts, BoundAssumption
    <3> QED
      BY <3>1, <3>2
  <2>6. server.daemon \in BOOLEAN /\ server.listeners \in 0..MaxConf /\ bound \in 0..MaxConf
    BY <2>1, <2>5, BoundAssumption DEF Fields, IInv, Tally
  <2>7. live \subseteq Memory /\ done \subseteq 1..MaxConf
    BY <2>1, Counts, BoundAssumption DEF IInv, Pools, Walk, Memory
  <2>8. phase \in Stopped \cup Running \cup {"start", "read", "modules", "check", "process"}
    BY <2>1 DEF Phases, Early, Walking
  <2> QED
    BY <2>1, <2>2, <2>3, <2>4, <2>6, <2>7, <2>8 DEF TypeOK
<1> QED
  BY <1>1, Invariance, PTL

\* An accepted configuration is one whose every directive was handled, those
\* included while fpx_config_process walked the list as well.
THEOREM NothingSkipped == Spec => []EveryDirectiveHandled
<1>1. IInv => EveryDirectiveHandled
  BY DEF IInv, Types, Walk, EveryDirectiveHandled
<1> QED
  BY <1>1, Invariance, PTL

\* The list is the main file and the files that its includes, and theirs,
\* name, each once per include and in their order.
THEOREM IncludesInOrder == Spec => []FilesIncluded
<1>1. IInv => FilesIncluded
  <2> SUFFICES ASSUME IInv, phase \in Accepting
               PROVE  /\ conf_list = FlattenSeq(Sources)
                      /\ reads = <<Main>> \o FlattenSeq([k \in DOMAIN conf_list |-> IncludedBy(k)])
    BY DEF FilesIncluded, Sources, IncludedBy
  <2>1. DOMAIN conf_list = done
    BY DEF IInv, Types, Walk
  <2>2. [k \in DOMAIN conf_list |-> IncludedBy(k)] = Included
    BY <2>1 DEF Included
  <2> QED
    BY <2>2 DEF IInv, Contents
<1> QED
  BY <1>1, Invariance, PTL

\* The last directive that gives a setting decides, whatever is included or
\* imported around it, and every listen adds one listener.
THEOREM SettingsAsGiven == Spec => []LastDirectiveWins
<1>1. IInv => LastDirectiveWins
  BY DEF IInv, Configured, LastDirectiveWins, Given, Testing, Running
<1> QED
  BY <1>1, Invariance, PTL

\* No part of main reads a string whose pool has been destroyed.
THEOREM NoStaleString == Spec => []StringsAlive
<1>1. IInv => StringsAlive
  <2> SUFFICES ASSUME IInv PROVE StringsAlive
    OBVIOUS
  <2>1. ASSUME phase \in Walking, node # 0, NEW k \in node..Len(conf_list)
        PROVE  conf_list[k].mem \in live
    <3>1. node \in 0..Len(conf_list) /\ conf_list \in Seq(Entry) /\ live = {"pool", "ptemp"}
      BY <2>1 DEF IInv, Walk, Types, Pools
    <3>2. conf_list[k] \in Entry
      BY <2>1, <3>1
    <3> QED
      BY <3>1, <3>2 DEF Entry
  <2>2. ASSUME phase \in {"workdir", "user", "group"}
        PROVE  server[phase].mem \in live \cup {"static"}
    <3>1. live = {"pool", "ptemp"}
      BY <2>2 DEF IInv, Pools, Running
    <3>2. server[phase] \in Str
      BY <2>2 DEF IInv, Types
    <3> QED
      BY <3>1, <3>2 DEF Str, Memory
  <2> QED
    BY <2>1, <2>2 DEF StringsAlive, Walking
<1> QED
  BY <1>1, Invariance, PTL

\* A server that runs has taken the user and the group it was told to take,
\* as far as it was started with the rights to.
THEOREM PrivilegesDropped == Spec => []RunsAsConfigured
<1>1. IInv => RunsAsConfigured
  BY DEF IInv, Identity, RunsAsConfigured
<1> QED
  BY <1>1, Invariance, PTL

\* Where main is before it processes a directive, or without doing so.
Quiet == Early \cup Testing \cup {"exit0", "exit1"}

\* What the options say, whoever asked: without a configuration to process
\* main touches nothing.
Harmless ==
    /\ phase \notin {"start", "exit1"} => opts.valid
    /\ opts.test_config \/ ~opts.valid =>
          /\ phase \in Quiet
          /\ server = Settings /\ modules \in {<<>>, <<core>>}
          /\ bound = 0 /\ euid = env.euid /\ egid = env.egid

\* A step that leaves the settings, the modules and the system alone.
Mild == UNCHANGED <<env, server, modules, osVars>>

(* A step that changes no setting, module, socket or identity stays        *)
(* harmless.                                                               *)
LEMMA MildStep ==
    ASSUME Harmless, Mild,
           phase' \notin {"start", "exit1"} => opts.valid,
           opts.test_config \/ ~opts.valid => phase' \in Quiet
    PROVE  Harmless'
<1>1. opts' = opts
  BY DEF Mild, opts
<1> QED
  BY <1>1 DEF Harmless, Mild, osVars

\* No step changes what main was started with.
LEMMA EnvKept == ASSUME Next PROVE env' = env
<1>1. ASSUME NEW p, Goto(p) PROVE env' = env
  BY <1>1 DEF Goto
<1>2. ASSUME Handled PROVE env' = env
  BY <1>2 DEF Handled
<1>3. CASE fpx_config_process
  BY <1>1, <1>2, <1>3
     DEF fpx_config_process, Include, fpx_load_module, Set, ModuleDirective, HandlerFails
<1>4. CASE fpx_config_check
  BY <1>2, <1>4 DEF fpx_config_check, CheckStops, Checked, Include
<1>5. CASE CreatePools \/ fpx_config_read \/ fpx_setup_prelinked_modules
  BY <1>1, <1>5 DEF CreatePools, fpx_config_read, fpx_setup_prelinked_modules
<1>6. CASE ProcessEnds \/ BindListeners \/ fpx_process_set_workdir \/ fpx_process_set_user
  BY <1>1, <1>6 DEF ProcessEnds, BindListeners, fpx_process_set_workdir, fpx_process_set_user
<1>7. CASE fpx_process_set_group \/ fpx_logger_start \/ fpx_process_become_daemon
  BY <1>1, <1>7
     DEF fpx_process_set_group, fpx_logger_start, fpx_process_become_daemon, GroupFails
<1>8. CASE fpx_init_modules \/ InitEnds \/ fpx_server_cycle
  BY <1>1, <1>8 DEF fpx_init_modules, InitEnds, fpx_server_cycle, vars
<1> QED
  BY <1>3, <1>4, <1>5, <1>6, <1>7, <1>8 DEF Next

\* The parts of main that are not behind the processing of directives.
LEMMA Elsewhere ==
    ASSUME [Next]_vars
    PROVE  \/ CreatePools \/ fpx_config_read \/ fpx_setup_prelinked_modules \/ fpx_config_check
           \/ phase \in Running \cup {"process"} /\ Next
           \/ UNCHANGED vars
  BY DEF Next, fpx_config_process, ProcessEnds, BindListeners, fpx_process_set_workdir,
         fpx_process_set_user, fpx_process_set_group, fpx_logger_start,
         fpx_process_become_daemon, fpx_init_modules, InitEnds, fpx_server_cycle, Running

\* Only a start with test_config, or one that is refused, stays in Early and
\* Testing, and there only the core module is added.
LEMMA HarmlessStep == IInv /\ Harmless /\ [Next]_vars => Harmless'
<1> SUFFICES ASSUME IInv, Harmless, [Next]_vars PROVE Harmless'
  OBVIOUS
<1>1. CASE CreatePools
  <2>1. Mild /\ phase' \in Quiet /\ (phase' # "exit1" => opts.valid)
    BY <1>1 DEF CreatePools, Goto, Mild, moduleVars, osVars, Early, Quiet
  <2> QED
    BY <2>1, MildStep
<1>2. CASE fpx_config_read
  <2>1. Mild /\ phase' \in Quiet /\ phase = "read"
    BY <1>2 DEF fpx_config_read, Goto, Mild, moduleVars, osVars, Early, Quiet
  <2> QED
    BY <2>1, MildStep DEF Harmless
<1>3. CASE fpx_setup_prelinked_modules
  <2>1. opts' = opts /\ modules' = <<core>> /\ server' = Settings
    <3>1. module = [m \in AllModules |-> NewModule] /\ server = Settings
      BY <1>3 DEF fpx_setup_prelinked_modules, IInv, Untouched, Early
    <3> QED
      BY <1>3, <3>1, PreinitCore DEF fpx_setup_prelinked_modules, opts
  <2>2. opts.test_config => phase' \in Quiet
    BY <1>3 DEF fpx_setup_prelinked_modules, Testing, Quiet
  <2>3. opts.valid
    BY <1>3 DEF fpx_setup_prelinked_modules, Harmless
  <2> QED
    BY <1>3, <2>1, <2>2, <2>3 DEF fpx_setup_prelinked_modules, Harmless, osVars
<1>4. CASE fpx_config_check
  <2>1. Mild /\ phase' \in Quiet /\ phase = "check"
    BY <1>4 DEF fpx_config_check, CheckStops, Checked, Include, Handled, Mild, moduleVars, osVars,
                Testing, Quiet
  <2> QED
    BY <2>1, MildStep DEF Harmless
<1>5. CASE phase \in Running \cup {"process"} /\ Next
  <2>1. phase \notin Quiet
    BY <1>5 DEF Running, Early, Testing, Quiet
  <2>2. opts.valid /\ ~opts.test_config
    BY <2>1 DEF Harmless, Quiet
  <2>3. env' = env
    BY <1>5, EnvKept
  <2>4. opts' = opts
    BY <2>3 DEF opts
  <2> QED
    BY <2>2, <2>4 DEF Harmless
<1>6. CASE UNCHANGED vars
  <2>1. Mild /\ phase' = phase
    BY <1>6 DEF vars, Mild, osVars
  <2> QED
    BY <2>1, MildStep DEF Harmless
<1> QED
  BY <1>1, <1>2, <1>3, <1>4, <1>5, <1>6, Elsewhere

\* Asked for a test, main never gets as far as to change anything.
THEOREM TestChangesNothing == Spec => []TestIsHarmless
<1>1. Init => Harmless
  BY DEF Init, Harmless, Quiet, Early
<1>2. IInv /\ Harmless => TestIsHarmless
  <2> SUFFICES ASSUME IInv, Harmless, AsksForTest(env.argv) PROVE TestIsHarmless
    BY DEF TestIsHarmless
  <2>1. PICK t \in DOMAIN env.argv : Asks(env.argv, t)
    BY DEF AsksForTest
  <2>2. PICK argv \in Argv : argv = env.argv
    BY TextAssumption DEF IInv, Types, Argv
  <2>3. t \in 1..Len(argv) /\ Asks(argv, t)
    BY <2>1, <2>2 DEF Argv
  <2>4. opts.valid => opts.test_config
    BY <2>2, <2>3, TestFound DEF opts
  <2> QED
    BY <2>4 DEF TestIsHarmless, Harmless, Quiet, Early, Testing, Running
<1> QED
  BY <1>1, <1>2, HarmlessStep, Invariance, PTL DEF Spec
=============================================================================
