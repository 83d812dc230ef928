---------------------------- MODULE CommandLine ----------------------------
(***************************************************************************)
(* fpx_parse_argv.  An argument is the sequence of its option letters, the *)
(* leading dash included; what follows the second dash of a long option is *)
(* one element.  p moves over the letters of one argument while i moves on *)
(* over the values that c and config-file take.  The name of the program   *)
(* is left out; config_fname is the index of an argument, 0 the default.   *)
(***************************************************************************)
EXTENDS Naturals, Sequences, FiniteSets

Options(valid) == [valid |-> valid, show_version |-> FALSE, show_help |-> FALSE,
                   test_config |-> FALSE, config_fname |-> 0]

\* The options with a flag, short and long; the other two take a value.
Flags == [show_version |-> {"v", "version"}, show_help |-> {"h", "help"},
          test_config |-> {"t", "test-config"}]

Valued == {"c", "config-file"}

Short == {"v", "h", "t", "c"}

\* An argument is an option only with a dash and something behind it.
Opens(argv, i) == i <= Len(argv) => Len(argv[i]) >= 2 /\ argv[i][1] = "-"

\* A second dash begins a long option, unless a short one follows it.
Long(arg, k) == k + 1 = Len(arg) /\ arg[k] = "-" /\ arg[k + 1] \notin Short

Word(arg, k) == IF Long(arg, k) THEN arg[k + 1] ELSE arg[k]

After(arg, k) == IF Long(arg, k) THEN k + 2 ELSE k + 1

FlagsOf(word) == {f \in DOMAIN Flags : word \in Flags[f]}

IsFlag(word) == FlagsOf(word) # {}

WithFlag(o, word) == [o EXCEPT ![CHOOSE f \in FlagsOf(word) : TRUE] = TRUE]

WithFile(o, i) == [o EXCEPT !.config_fname = IF @ = 0 THEN i ELSE @]

\* p is at element k of argument a and i is the last argument used; read
\* gives the options of what comes later.  A file name counts only if no
\* later one was found.
OptionsFrom(argv, read, a, k, i) ==
    LET arg  == argv[a]
        word == Word(arg, k)
        next == After(arg, k)
    IN  CASE k > Len(arg) /\ i = Len(argv) -> Options(TRUE)
          [] k > Len(arg) /\ i < Len(argv) /\ Opens(argv, i + 1) -> read[<<i + 1, 2, i + 1>>]
          [] k <= Len(arg) /\ IsFlag(word) ->
                 WithFlag(read[<<a, next, i>>], word)
          [] k <= Len(arg) /\ word \in Valued /\ i < Len(argv) ->
                 WithFile(read[<<a, next, i + 1>>], i + 1)
          [] OTHER -> Options(FALSE)

\* The length of the longest argument.
Longest(argv) ==
    LET Lengths == {Len(argv[j]) : j \in 1..Len(argv)}
    IN  CHOOSE m \in Lengths : \A l \in Lengths : l <= m

fpx_parse_argv(argv) ==
    LET n == Len(argv)
        read[p \in (1..n) \X (1..(2 + Longest(argv))) \X (1..n)] ==
            OptionsFrom(argv, read, p[1], p[2], p[3])
    IN  CASE n = 0 -> Options(TRUE)
          [] n > 0 /\ Opens(argv, 1) -> read[<<1, 2, 1>>]
          [] OTHER -> Options(FALSE)

(***************************************************************************)
(* What a command line asks for, whatever parses it.                       *)
(***************************************************************************)
ValuesTaken(arg) == Cardinality({k \in DOMAIN arg : arg[k] \in Valued})

\* Argument t is -t or --test-config and not the value of an option.
Asks(argv, t) ==
    /\ argv[t] \in {<<"-", "t">>, <<"-", "-", "test-config">>}
    /\ \A j \in 1..(t - 1) : ValuesTaken(argv[j]) < t - j

AsksForTest(argv) == \E t \in DOMAIN argv : Asks(argv, t)
=============================================================================
