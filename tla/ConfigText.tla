----------------------------- MODULE ConfigText -----------------------------
(***************************************************************************)
(* Reading one configuration file: fpx_config_read and                     *)
(* fpx_config_read_included_file fetch it, fpx_config_parse cuts it into   *)
(* directives, one character per step.  Characters are classes, a word is  *)
(* the pair of its first and last position.  The same code reads the main  *)
(* file and every included one.                                            *)
(***************************************************************************)
EXTENDS Naturals, Sequences, FiniteSets

CONSTANTS
    MaxText,        \* longest file
    FPX_MAX_TAKES,  \* size of the array of arguments
    MayFail         \* whether calls to the system and the pool may fail

ASSUME TakesAssumption == FPX_MAX_TAKES \in Nat /\ FPX_MAX_TAKES > 0
ASSUME TextAssumption == MaxText \in Nat /\ MayFail \in BOOLEAN

\* Word characters, blanks (TAB, SPACE), line ends (LF, CR), '#', bytes that
\* are not ASCII and the zero byte.
Classes == {"word", "blank", "eol", "hash", "binary", "nul"}

VARIABLES
    file,           \* the file on disk
    text,           \* file_buf, without the zero byte put after it
    i,              \* position in text
    begin,          \* first position of the word being read, 0 for NULL
    comment,        \* reading a comment
    in_directive,   \* the name of the directive is known
    words,          \* its name and arguments so far
    line,           \* number of the line
    conf_list,      \* the directives saved
    dropped,        \* history: lines whose directive could not be saved
    result          \* "read", "parse", or what the caller gets

vars == <<file, text, i, begin, comment, in_directive, words, line,
          conf_list, dropped, result>>

Positions == 1..MaxText

Outcomes == {"FPX_OK", "FPX_ERR_CONFIG_SYNTAX", "errno"}

\* The state of the reader stays in its types: the position never leaves the
\* text and the zero byte after it, and the array of words never overflows.
TypeOK ==
    /\ file \in Seq(Classes) /\ text \in Seq(Classes)
    /\ Len(text) <= Len(file) /\ Len(file) <= MaxText
    /\ i \in 1..(Len(text) + 1)
    /\ begin \in {0} \cup 1..(i - 1)
    /\ comment \in BOOLEAN /\ in_directive \in BOOLEAN
    /\ words \in Seq(Positions \X Positions) /\ Len(words) <= FPX_MAX_TAKES
    /\ line \in 1..i
    /\ conf_list \in Seq([words : Seq(Positions \X Positions), line : 1..MaxText])
    /\ dropped \subseteq 1..MaxText
    /\ result \in {"read", "parse"} \cup Outcomes

Init ==
    /\ file \in [1..MaxText -> Classes]
    /\ text = <<>> /\ i = 1 /\ begin = 0
    /\ comment = FALSE /\ in_directive = FALSE
    /\ words = <<>> /\ line = 1
    /\ conf_list = <<>> /\ dropped = {}
    /\ result = "read"

(***************************************************************************)
(* Fetching the file: open, size, allocate, read.                          *)
(***************************************************************************)
\* read may return fewer bytes, n, than the size asked for; they are parsed
\* as if they were all.
fpx_file_read(n) == SubSeq(file, 1, n)

fpx_config_read ==
    /\ result = "read"
    /\ \E n \in 0..Len(file) : /\ MayFail \/ n = Len(file)
                             /\ text' = fpx_file_read(n)
    /\ result' = "parse"
    /\ UNCHANGED <<file, i, begin, comment, in_directive, words, line, conf_list, dropped>>

Return(outcome) ==
    /\ result' = outcome
    /\ UNCHANGED <<file, text, i, begin, comment, in_directive, words, line,
                   conf_list, dropped>>

ReadFails == result = "read" /\ MayFail /\ Return("errno")

(***************************************************************************)
(* The loop of fpx_config_parse.                                           *)
(***************************************************************************)
Char == IF i > Len(text) THEN "nul" ELSE text[i]

Found == begin # 0 /\ Char \in {"blank", "eol"}

\* The word just found is the argument that fills argv: it is refused, too.
\* words counts the name, so there are as many before it as argv has places.
TooMany_One == Found /\ Len(words) >= FPX_MAX_TAKES + 1

TooMany == Found /\ Len(words) >= FPX_MAX_TAKES

WordsRead == IF Found THEN Append(words, <<begin, i - 1>>) ELSE words

EndOfFile == Char = "nul" /\ Return("FPX_OK")

Blank ==
    /\ Char = "blank" /\ ~TooMany
    /\ words' = WordsRead
    /\ in_directive' = (in_directive \/ Found)
    /\ begin' = 0 /\ i' = i + 1
    /\ UNCHANGED <<file, text, comment, line, conf_list, dropped, result>>

\* fpx_config_save_directive: its failure is not looked at by the caller.
fpx_config_save_directive ==
    \/ /\ conf_list' = Append(conf_list, [words |-> WordsRead, line |-> line])
       /\ UNCHANGED dropped
    \/ /\ MayFail
       /\ dropped' = dropped \cup {line}
       /\ UNCHANGED conf_list

AfterEol_KeepComment == comment

AfterEol == FALSE

EndOfLine ==
    /\ Char = "eol" /\ ~TooMany
    /\ IF in_directive \/ Found
       THEN fpx_config_save_directive
       ELSE UNCHANGED <<conf_list, dropped>>
    /\ words' = <<>> /\ in_directive' = FALSE
    /\ comment' = AfterEol
    /\ begin' = 0 /\ i' = i + 1 /\ line' = line + 1
    /\ UNCHANGED <<file, text, result>>

Hash ==
    /\ Char = "hash" /\ begin = 0
    /\ comment' = TRUE /\ i' = i + 1
    /\ UNCHANGED <<file, text, begin, in_directive, words, line, conf_list, dropped, result>>

Ascii ==
    /\ Char = "word"
    /\ begin' = IF begin = 0 /\ ~comment THEN i ELSE begin
    /\ i' = i + 1
    /\ UNCHANGED <<file, text, comment, in_directive, words, line, conf_list, dropped, result>>

SyntaxError ==
    /\ \/ Char = "hash" /\ begin # 0
       \/ Char = "binary"
       \/ TooMany
    /\ Return("FPX_ERR_CONFIG_SYNTAX")

\* fpx_pstrndup of the word found fails.
NoMemory == Found /\ MayFail /\ Return("errno")

fpx_config_parse ==
    /\ result = "parse"
    /\ \/ EndOfFile \/ Blank \/ EndOfLine \/ Hash \/ Ascii
       \/ SyntaxError \/ NoMemory

Next == fpx_config_read \/ ReadFails \/ fpx_config_parse

Spec == Init /\ [][Next]_vars

-----------------------------------------------------------------------------
(***************************************************************************)
(* The same file looked at as a whole.                                     *)
(***************************************************************************)

\* The part of the text that counts ends before the first zero byte.
Visible ==
    LET nuls == {p \in DOMAIN text : text[p] = "nul"}
    IN  {p \in DOMAIN text : \A q \in nuls : p < q}

LineOf(p) == 1 + Cardinality({q \in 1..(p - 1) : text[q] = "eol"})

\* p is in a comment, or is the '#' that starts it.
InComment(p) ==
    \E q \in 1..p : /\ text[q] = "hash" /\ LineOf(q) = LineOf(p)
                    /\ text[p] # "eol"

InWord(p) == p \in Visible /\ text[p] = "word" /\ ~InComment(p)

\* The words of line l, as the pairs of positions where they start and end.
WordsOf(l) ==
    {w \in Visible \X Visible :
        /\ w[1] <= w[2] /\ LineOf(w[1]) = l
        /\ \A p \in w[1]..w[2] : InWord(p)
        /\ ~InWord(w[1] - 1) /\ ~InWord(w[2] + 1)}

\* ws holds all of the words in S, in the order of the text.
InOrder(ws, S) ==
    /\ {ws[k] : k \in DOMAIN ws} = S
    /\ \A k \in DOMAIN ws : \A j \in 1..(k - 1) : ws[j][2] < ws[k][1]

\* The words of the line of p that end before it.
WordsUpTo(p) == {w \in WordsOf(LineOf(p)) : w[2] < p}

\* The characters at which reading has to stop with an error.
Offending ==
    {p \in Visible :
        \/ text[p] = "binary"
        \/ text[p] = "hash" /\ InWord(p - 1)
        \/ /\ text[p] \in {"blank", "eol"} /\ InWord(p - 1)
           /\ Cardinality(WordsUpTo(p)) > FPX_MAX_TAKES}

(***************************************************************************)
(* Properties.                                                             *)
(***************************************************************************)

\* At any moment fpx_config_parse has saved exactly the directives of the
\* finished lines, with all their words and their line numbers, in order;
\* only a directive whose own allocation failed is missing.
DirectivesExact ==
    /\ \A k \in DOMAIN conf_list :
          LET d == conf_list[k]
          IN  /\ d.line \in 1..(line - 1) /\ d.line \notin dropped
              /\ d.words # <<>> /\ InOrder(d.words, WordsOf(d.line))
              /\ \A j \in 1..(k - 1) : conf_list[j].line < d.line
    /\ \A l \in 1..(line - 1) :
          WordsOf(l) # {} => l \in dropped \/ \E k \in DOMAIN conf_list : conf_list[k].line = l

\* The file is refused for its syntax at the first offending character and
\* only there; it is accepted only if the part before the first zero byte has
\* no such character.
VerdictRight ==
    /\ result = "FPX_ERR_CONFIG_SYNTAX" => i \in Offending
    /\ \A p \in Offending : p >= i
    /\ result = "FPX_OK" => Offending = {}
=============================================================================
