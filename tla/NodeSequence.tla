---------------------------- MODULE NodeSequence ----------------------------
(***************************************************************************)
(* What fpx_list_t promises its users: an ordered collection of nodes, and *)
(* for each operation of list.c one action, the change that it makes to    *)
(* the sequence.  exact says that no insertion in the middle and no sort   *)
(* has happened since the list was last empty by initialisation.  Only     *)
(* then does sorting have to sort; otherwise it may leave the nodes in any *)
(* order, or break the program.                                            *)
(***************************************************************************)
EXTENDS Naturals, SequencesExt

CONSTANTS Nodes, Key

VARIABLES contents, exact, broken

vars == <<contents, exact, broken>>

Members == LET c == contents IN {c[i] : i \in 1..Len(c)}

Ordered(s) == \A i \in 1..(Len(s) - 1) : Key[s[i]] <= Key[s[i + 1]]

Arrangements == {s \in [1..Len(contents) -> Members] :
                    \A i, j \in 1..Len(contents) : i # j => s[i] # s[j]}

Init == contents = <<>> /\ exact = TRUE /\ broken = FALSE

PushFront(n) ==
    /\ n \notin Members
    /\ contents' = <<n>> \o contents
    /\ UNCHANGED <<exact, broken>>

PushBack(n) ==
    /\ n \notin Members
    /\ contents' = Append(contents, n)
    /\ UNCHANGED <<exact, broken>>

\* n gets place i, and what was there comes after it.
Insert(i, n) ==
    /\ n \notin Members
    /\ contents' = InsertAt(contents, i, n)
    /\ exact' = FALSE
    /\ UNCHANGED broken

InsertBefore(b, n) == \E i \in 1..Len(contents) : contents[i] = b /\ Insert(i, n)

InsertAfter(a, n) == \E i \in 1..Len(contents) : contents[i] = a /\ Insert(i + 1, n)

Drop(i) ==
    /\ contents' = RemoveAt(contents, i)
    /\ UNCHANGED <<exact, broken>>

RemoveNode(n) == \E i \in 1..Len(contents) : contents[i] = n /\ Drop(i)

\* The places of the nodes whose key is k.
Places(k) == {i \in 1..Len(contents) : Key[contents[i]] = k}

RemoveFirstOf(k) == \E i \in Places(k) : (\A j \in Places(k) : i <= j) /\ Drop(i)

RemoveLastOf(k) == \E i \in Places(k) : (\A j \in Places(k) : j <= i) /\ Drop(i)

Clear == contents' = <<>> /\ exact' = TRUE /\ UNCHANGED broken

Sort ==
    \/ /\ contents' \in Arrangements
       /\ exact => Ordered(contents')
       /\ exact' = (exact /\ Len(contents) < 2)
       /\ UNCHANGED broken
    \/ /\ ~exact
       /\ broken' = TRUE
       /\ UNCHANGED <<contents, exact>>

Next ==
    /\ ~broken
    /\ \/ \E n \in Nodes :
             \/ PushFront(n) \/ PushBack(n) \/ RemoveNode(n)
             \/ \E m \in Nodes : InsertBefore(m, n) \/ InsertAfter(m, n)
       \/ \E k \in {Key[n] : n \in Nodes} : RemoveFirstOf(k) \/ RemoveLastOf(k)
       \/ Clear
       \/ Sort

Spec == Init /\ [][Next]_vars
=============================================================================
