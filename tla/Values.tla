------------------------------- MODULE Values -------------------------------
(***************************************************************************)
(* What the values of directives are read as: sizes with a K, M or G, and  *)
(* the address and port of a listen.  str grows by one character per step, *)
(* so that a run looks at every string up to MaxLen.  The widths are       *)
(* parameters: signed integers wrap at SSIZE_MAX and INT_MAX, KILO stands  *)
(* for 1024.  A string ends in NUL; reading past it is an application      *)
(* outside the domain of its bytes, which TLC reports.                     *)
(***************************************************************************)
EXTENDS Integers, SequencesExt

CONSTANTS MaxLen, SSIZE_MAX, INT_MAX, PORT_MAX, KILO

ASSUME ValuesAssumption ==
    /\ MaxLen \in Nat
    /\ INT_MAX \in Nat /\ SSIZE_MAX \in Nat /\ INT_MAX <= SSIZE_MAX
    /\ PORT_MAX \in 1..INT_MAX
    /\ KILO \in Nat \ {0, 1}

VARIABLE str

NUL == "NUL"

\* Six of the ten digits, the suffixes, the marks of an address and a letter.
Digits == {"0", "1", "2", "4", "7", "8"}

Chars == Digits \cup {"K", "m", "G", ":", "[", "]", "a"}

DigitOf == [c \in Digits |-> CASE c = "0" -> 0 [] c = "1" -> 1 [] c = "2" -> 2
                               [] c = "4" -> 4 [] c = "7" -> 7 [] c = "8" -> 8]

FirstString == str = <<>>

\* The next string; each is handed to the operations below.
NextString == Len(str) < MaxLen /\ \E c \in Chars : str' = Append(str, c)

EveryString == FirstString /\ [][NextString]_str

\* The bytes of the C string s, from 0.
Bytes(s) == [i \in 0..Len(s) |-> IF i = Len(s) THEN NUL ELSE s[i + 1]]

(***************************************************************************)
(* util/string.c                                                           *)
(***************************************************************************)
fpx_strlen(b) ==
    LET from[i \in DOMAIN b] == IF b[i] = NUL THEN i ELSE from[i + 1]
    IN  from[0]

NULL == -1

\* The index of the first c, or NULL.
fpx_strchr(b, c) ==
    LET n == fpx_strlen(b)
        from[i \in 0..n] == IF i = n THEN NULL ELSE IF b[i] = c THEN i ELSE from[i + 1]
    IN  from[0]

\* Signed arithmetic of the width whose largest value is max.
Wrapped(x, max) == ((x + max + 1) % (2 * (max + 1))) - (max + 1)

\* value >= cutoff && (value > cutoff || temp > cutlim)
Overflows_Cutoff(value, temp, max) == value > max \div 10

Overflows(value, temp, max) ==
    value >= max \div 10 /\ (value > max \div 10 \/ temp > max % 10)

\* value with the digit c behind it, -1 if it is none or the result too large.
WithDigit(value, c, max) ==
    IF value = -1 \/ c \notin Digits THEN -1
    ELSE IF Overflows(value, DigitOf[c], max) THEN -1
    ELSE Wrapped(value * 10 + DigitOf[c], max)

\* The digits b[at] .. b[at + n - 1] as a number, -1 if they are none.
Number(b, at, n, max) ==
    LET upto[i \in 0..n] == IF i = 0 THEN 0 ELSE WithDigit(upto[i - 1], b[at + i - 1], max)
    IN  IF n = 0 THEN -1 ELSE upto[n]

fpx_atoi(b, at, n) == Number(b, at, n, INT_MAX)

fpx_atosz(b, n) == Number(b, 0, n, SSIZE_MAX)

(***************************************************************************)
(* core/parse.c                                                            *)
(***************************************************************************)
\* The factor of the suffix, 1 for none.
Scale(c) ==
    CASE c \in {"K", "k"} -> KILO
      [] c \in {"M", "m"} -> KILO * KILO
      [] c \in {"G", "g"} -> KILO * KILO * KILO
      [] OTHER -> 1

SizeLimit(scale) == SSIZE_MAX \div scale

fpx_config_parse_size(s) ==
    LET b     == Bytes(s)
        len   == fpx_strlen(b)
        scale == Scale(b[len - 1])
        size  == fpx_atosz(b, IF scale = 1 THEN len ELSE len - 1)
    IN  IF len = 0 THEN -1
        ELSE IF size = -1 \/ size > SizeLimit(scale) THEN -1
        ELSE Wrapped(size * scale, SSIZE_MAX)

FPX_ADDR_INVALID == [kind |-> "invalid"]

Address(kind, addr, port) == [kind |-> kind, addr |-> addr, port |-> port]

Between(b, from, to) == [k \in 1..(to - from + 1) |-> b[from + k - 1]]

InRange(port) == port >= 1 /\ port <= PORT_MAX

LastOfAddr_Port(pos, end) == end

\* end, moved in front of the colon if there is a port.
LastOfAddr(pos, end) == pos - 1

Unset == <<>>

\* The last index up to last that holds no digit, -1 if all do.
BeforeDigits(b, last) ==
    LET back[i \in -1..last] == IF i >= 0 /\ b[i] \in Digits THEN back[i - 1] ELSE i
    IN  back[last]

\* The address b[0] .. b[end], in brackets or without.
AddressUpTo(b, end, given) ==
    LET close == fpx_strchr(b, "]")
    IN  IF b[0] = "["
        THEN IF close = NULL \/ b[end] # "]" THEN FPX_ADDR_INVALID
             ELSE Address("IPv6", Between(b, 1, close - 1), given)
        ELSE IF close # NULL THEN FPX_ADDR_INVALID
        ELSE Address("IPv4", Between(b, 0, end), given)

\* Without a port in the value the caller's variable is not written.
fpx_config_parse_addr_port(s) ==
    LET b       == Bytes(s)
        last    == fpx_strlen(b) - 1
        pos     == BeforeDigits(b, last)
        hasPort == b[pos] = ":" /\ pos < last
        port    == fpx_atoi(b, pos + 1, last - pos)
        end     == IF hasPort THEN LastOfAddr(pos, last) ELSE last
    IN  IF pos < 0
        THEN IF InRange(port) THEN Address("IPv4", <<"0.0.0.0">>, <<port>>) ELSE FPX_ADDR_INVALID
        ELSE IF hasPort /\ (pos = 0 \/ ~InRange(port)) THEN FPX_ADDR_INVALID
        ELSE AddressUpTo(b, end, IF hasPort THEN <<port>> ELSE Unset)

(***************************************************************************)
(* Standard handlers of core/command.c.                                    *)
(***************************************************************************)
\* A value that is stored, or FPX_ERR_CONFIG_SYNTAX.
Stored(n) == IF n = -1 THEN <<>> ELSE <<n>>

Refused == <<>>

fpx_handler_size(s) == Stored(fpx_config_parse_size(s))

(***************************************************************************)
(* Reference definitions and properties.                                   *)
(***************************************************************************)
IsNumeral(s) == s # <<>> /\ \A k \in DOMAIN s : s[k] \in Digits

\* The number a numeral stands for, without any limit.
Value(s) ==
    LET upto[k \in 0..Len(s)] == IF k = 0 THEN 0 ELSE upto[k - 1] * 10 + DigitOf[s[k]]
    IN  upto[Len(s)]

HasSuffix(s) == s # <<>> /\ Scale(s[Len(s)]) # 1

\* The digits of a size and what one of its units is worth.
Mantissa(s) == IF HasSuffix(s) THEN Front(s) ELSE s

Unit(s) == IF HasSuffix(s) THEN Scale(s[Len(s)]) ELSE 1

\* A size is read as the number it stands for times its unit if that fits a
\* ssize_t, and refused otherwise: neither the digits nor the product wrap.
SizeExactOrRefused ==
    fpx_handler_size(str) =
        IF IsNumeral(Mantissa(str)) /\ Value(Mantissa(str)) * Unit(str) <= SSIZE_MAX
        THEN <<Value(Mantissa(str)) * Unit(str)>>
        ELSE Refused

\* The ways to cut a value into an address and a port behind a colon.
Cuts(s) == {k \in 2..(Len(s) - 1) : s[k] = ":" /\ IsNumeral(SubSeq(s, k + 1, Len(s)))}

\* What an address may look like, and which family it is.
BracketsOK(a) ==
    IF a[1] = "[" THEN a[Len(a)] = "]" ELSE \A k \in DOMAIN a : a[k] # "]"

Family(a) == IF a[1] = "[" THEN "IPv6" ELSE "IPv4"

\* Inside the brackets, up to the first that closes.
Host(a) ==
    IF a[1] # "[" THEN a
    ELSE SubSeq(a, 2, (CHOOSE k \in DOMAIN a : a[k] = "]" /\ \A j \in 1..(k - 1) : a[j] # "]") - 1)

\* The port, the address and port, or the address that s is made of.
AddrPortOf(s) ==
    IF IsNumeral(s)
    THEN IF InRange(Value(s)) THEN Address("IPv4", <<"0.0.0.0">>, <<Value(s)>>) ELSE FPX_ADDR_INVALID
    ELSE IF s = <<>> \/ (s[1] = ":" /\ IsNumeral(Tail(s))) THEN FPX_ADDR_INVALID
    ELSE LET cut  == CHOOSE k \in Cuts(s) : TRUE
             addr == IF Cuts(s) = {} THEN s ELSE SubSeq(s, 1, cut - 1)
             port == Value(SubSeq(s, cut + 1, Len(s)))
         IN  IF ~BracketsOK(addr) \/ (Cuts(s) # {} /\ ~InRange(port)) THEN FPX_ADDR_INVALID
             ELSE Address(Family(addr), Host(addr), IF Cuts(s) = {} THEN Unset ELSE <<port>>)

\* A value of listen is a port alone, an address and a port, or an address
\* whose port is left unset; a port is taken only in its range, brackets
\* must close at the end of the address, and the address that is kept is
\* what stands before the colon of the port, without the brackets.
AddrPortExact == fpx_config_parse_addr_port(str) = AddrPortOf(str)
=============================================================================
