-------------------------------- MODULE List --------------------------------
(***************************************************************************)
(* The intrusive doubly linked list of src/algo/list.c.  A list is a       *)
(* record of head, tail and size; the links are inside the nodes and keep  *)
(* their old values when a node is removed.  Nodes are pushed or inserted  *)
(* only while they are in no list, and removed only while they are in this *)
(* one: that is how every caller uses them.                                *)
(***************************************************************************)
EXTENDS Integers, Sequences, FiniteSets

CONSTANTS
    Nodes,      \* the nodes a program may link
    NULL,       \* the null pointer
    Key,        \* what the compar callbacks look at: [Nodes -> Nat]
    SIZE_WRAP   \* size_t counts modulo SIZE_WRAP

ASSUME NodesAssumption == IsFiniteSet(Nodes) /\ NULL \notin Nodes
ASSUME KeyAssumption == Key \in [Nodes -> Nat]
ASSUME WrapAssumption == SIZE_WRAP \in Nat /\ SIZE_WRAP > 2 * Cardinality(Nodes)

VARIABLES
    list,       \* fpx_list_t: head, tail and size
    next, prev, \* fpx_list_node_t of every node
    counted,    \* history: size still counts every operation
    fault       \* a null pointer was followed

vars == <<list, next, prev, counted, fault>>

Pointers == Nodes \cup {NULL}

Empty == [head |-> NULL, tail |-> NULL, size |-> 0]

(***************************************************************************)
(* Following a link from a node until NULL (fpx_list_foreach and           *)
(* fpx_list_foreach_reverse); a cycle is cut after one round.              *)
(***************************************************************************)
Chain(from, link) ==
    LET walk[i \in 1..(Cardinality(Nodes) + 1)] ==
            IF i = 1 THEN from
            ELSE IF walk[i - 1] = NULL THEN NULL ELSE link[walk[i - 1]]
        len == Cardinality({i \in 1..(Cardinality(Nodes) + 1) : walk[i] # NULL})
    IN  [i \in 1..len |-> walk[i]]

Forward == Chain(list.head, next)

Backward == Chain(list.tail, prev)

Linked == LET f == Forward IN {f[i] : i \in DOMAIN f}

(***************************************************************************)
(* One operation after the other.                                          *)
(***************************************************************************)
Init ==
    /\ list = Empty
    /\ next = [n \in Nodes |-> NULL] /\ prev = next
    /\ counted = TRUE /\ fault = FALSE

fpx_list_push_front(n) ==
    /\ n \notin Linked
    /\ prev' = [m \in Nodes |-> IF m = n THEN NULL
                                ELSE IF m = list.head THEN n ELSE prev[m]]
    /\ next' = [next EXCEPT ![n] = list.head]
    /\ list' = [head |-> n,
                tail |-> IF list.head = NULL THEN n ELSE list.tail,
                size |-> (list.size + 1) % SIZE_WRAP]
    /\ UNCHANGED <<counted, fault>>

\* The node before a node that is pushed back.
Before_Unset(n) == prev[n]

Before(n) == list.tail

fpx_list_push_back(n) ==
    /\ n \notin Linked
    /\ next' = [m \in Nodes |-> IF m = n THEN NULL
                                ELSE IF m = list.tail THEN n ELSE next[m]]
    /\ prev' = [prev EXCEPT ![n] = Before(n)]
    /\ list' = [head |-> IF list.tail = NULL THEN n ELSE list.head,
                tail |-> n,
                size |-> (list.size + 1) % SIZE_WRAP]
    /\ UNCHANGED <<counted, fault>>

Decremented(size) == (size - 1) % SIZE_WRAP

TailWithout_Keep(n) == list.tail

TailWithout(n) == IF list.tail = n THEN prev[n] ELSE list.tail

\* The links of n itself keep their values.
Unlink(n) ==
    /\ next' = [m \in Nodes |-> IF m = prev[n] THEN next[n] ELSE next[m]]
    /\ prev' = [m \in Nodes |-> IF m = next[n] THEN prev[n] ELSE prev[m]]
    /\ list' = [head |-> IF list.head = n THEN next[n] ELSE list.head,
                tail |-> TailWithout(n),
                size |-> Decremented(list.size)]
    /\ UNCHANGED <<counted, fault>>

fpx_list_remove(n) == n \in Linked /\ Unlink(n)

FirstIn_Last(chain, k) ==
    LET hits == {i \in DOMAIN chain : Key[chain[i]] = k}
    IN  IF hits = {} THEN NULL
        ELSE chain[CHOOSE i \in hits : \A j \in hits : j <= i]

\* fpx_list_find: the first node of the chain that compar accepts, or NULL.
FirstIn(chain, k) ==
    LET hits == {i \in DOMAIN chain : Key[chain[i]] = k}
    IN  IF hits = {} THEN NULL
        ELSE chain[CHOOSE i \in hits : \A j \in hits : i <= j]

fpx_list_remove_first(k) == FirstIn(Forward, k) # NULL /\ Unlink(FirstIn(Forward, k))

fpx_list_remove_last(k) == FirstIn(Backward, k) # NULL /\ Unlink(FirstIn(Backward, k))

\* Neither insertion touches list.size.
fpx_list_insert_before(b, n) ==
    /\ b \in Linked /\ n \notin Linked
    /\ next' = [m \in Nodes |-> IF m = n THEN b
                                ELSE IF m = prev[b] THEN n ELSE next[m]]
    /\ prev' = [prev EXCEPT ![n] = prev[b], ![b] = n]
    /\ list' = [list EXCEPT !.head = IF prev[b] = NULL THEN n ELSE @]
    /\ counted' = FALSE
    /\ UNCHANGED fault

fpx_list_insert_after(a, n) ==
    /\ a \in Linked /\ n \notin Linked
    /\ prev' = [m \in Nodes |-> IF m = n THEN a
                                ELSE IF m = next[a] THEN n ELSE prev[m]]
    /\ next' = [next EXCEPT ![n] = next[a], ![a] = n]
    /\ list' = [list EXCEPT !.tail = IF next[a] = NULL THEN n ELSE @]
    /\ counted' = FALSE
    /\ UNCHANGED fault

fpx_list_clear_KeepSize ==
    /\ list' = [Empty EXCEPT !.size = list.size]
    /\ counted' = TRUE
    /\ UNCHANGED <<next, prev, fault>>

fpx_list_clear ==
    /\ list' = Empty
    /\ counted' = TRUE
    /\ UNCHANGED <<next, prev, fault>>

(***************************************************************************)
(* Merge sort.  A sublist is the chain from its head and the size the      *)
(* caller believes it has; the split walks size / 2 nodes whether or not   *)
(* they are there.  The merge takes from the right unless compar says -1,  *)
(* and pushes into a list whose head and tail are zeroed but whose size is *)
(* not (the memset is as long as a node, not as a list).                   *)
(***************************************************************************)
MergeOf(merge, l, r) ==
    IF l = <<>> THEN r
    ELSE IF r = <<>> THEN l
    ELSE IF Key[Head(l)] < Key[Head(r)] THEN <<Head(l)>> \o merge[<<Tail(l), r>>]
    ELSE <<Head(r)>> \o merge[<<l, Tail(r)>>]

Merge[p \in Seq(Nodes) \X Seq(Nodes)] == MergeOf(Merge, p[1], p[2])

\* The sublists of a list and their sizes.
LeftOf(s, size) == <<SubSeq(s, 1, size \div 2), size \div 2>>

RightOf(s, size) == <<SubSeq(s, size \div 2 + 1, Len(s)), size - size \div 2>>

\* The split of the list or of one of its sublists follows a null pointer.
FallsOf(falls, s, size) ==
    /\ size >= 2
    /\ IF size \div 2 > Len(s) THEN TRUE
       ELSE falls[LeftOf(s, size)] \/ falls[RightOf(s, size)]

Falls[p \in Seq(Nodes) \X Nat] == FallsOf(Falls, p[1], p[2])

\* The list sorted, if it does not fall.
SortedOf(sorted, s, size) ==
    IF size < 2 \/ size \div 2 > Len(s) THEN s
    ELSE Merge[<<sorted[LeftOf(s, size)], sorted[RightOf(s, size)]>>]

Sorted[p \in Seq(Nodes) \X Nat] == SortedOf(Sorted, p[1], p[2])

\* The list after pushing back the nodes of s one by one.
Pushed(s) ==
    LET at(n) == CHOOSE i \in DOMAIN s : s[i] = n
    IN  /\ next' = [n \in Nodes |-> IF n \notin Linked THEN next[n]
                                    ELSE IF at(n) = Len(s) THEN NULL ELSE s[at(n) + 1]]
        /\ prev' = [n \in Nodes |-> IF n \notin Linked THEN prev[n]
                                    ELSE IF at(n) = 1 THEN NULL ELSE s[at(n) - 1]]
        /\ list' = [head |-> s[1], tail |-> s[Len(s)],
                    size |-> (list.size + Len(s)) % SIZE_WRAP]

fpx_list_mergesort ==
    \/ /\ list.size < 2
       /\ UNCHANGED vars
    \/ /\ list.size >= 2
       /\ ~Falls[<<Forward, list.size>>]
       /\ Pushed(Sorted[<<Forward, list.size>>])
       /\ counted' = FALSE
       /\ UNCHANGED fault
    \/ /\ list.size >= 2
       /\ Falls[<<Forward, list.size>>]
       /\ fault' = TRUE
       /\ UNCHANGED <<list, next, prev, counted>>

Next ==
    /\ ~fault
    /\ \/ \E n \in Nodes :
             \/ fpx_list_push_front(n)
             \/ fpx_list_push_back(n)
             \/ fpx_list_remove(n)
             \/ \E b \in Nodes : fpx_list_insert_before(b, n)
             \/ \E a \in Nodes : fpx_list_insert_after(a, n)
       \/ \E k \in {Key[n] : n \in Nodes} :
             \/ fpx_list_remove_first(k)
             \/ fpx_list_remove_last(k)
       \/ fpx_list_clear
       \/ fpx_list_mergesort

Spec == Init /\ [][Next]_vars

-----------------------------------------------------------------------------
(***************************************************************************)
(* Properties.                                                             *)
(***************************************************************************)

\* Whatever sequence of pushes, insertions, removals, searches and sorts has
\* been made, walking back from the tail (fpx_list_foreach_reverse) meets the
\* same nodes as walking from the head, in the opposite order, each once.
SameBothWays ==
    /\ Len(Backward) = Len(Forward)
    /\ \A i \in DOMAIN Forward : Backward[Len(Forward) + 1 - i] = Forward[i]
    /\ Cardinality(Linked) = Len(Forward)

\* As long as nobody has inserted in the middle or sorted, fpx_list_size is
\* the number of nodes, and a sort started then never walks past the end.
SizeExact == counted => list.size = Len(Forward) /\ ~fault

\* The links implement a sequence of nodes: whatever a program does with the
\* list, the chain from the head changes as one of the operations of
\* NodeSequence changes it, a sort of a correctly counted list sorts it
\* without losing a node, and only a sort of another one breaks.
Sequence == INSTANCE NodeSequence WITH contents <- Forward, exact <- counted, broken <- fault

ImplementsSequence == Sequence!Spec

\* What each operation promises, one by one.
AsPromised ==
    /\ \A n \in Nodes \ Linked :
          /\ fpx_list_push_front(n) => Sequence!PushFront(n)
          /\ fpx_list_push_back(n) => Sequence!PushBack(n)
          /\ \A m \in Linked :
                /\ fpx_list_insert_before(m, n) => Sequence!InsertBefore(m, n)
                /\ fpx_list_insert_after(m, n) => Sequence!InsertAfter(m, n)
    /\ \A n \in Linked : fpx_list_remove(n) => Sequence!RemoveNode(n)
    /\ \A k \in {Key[n] : n \in Linked} :
          /\ fpx_list_remove_first(k) => Sequence!RemoveFirstOf(k)
          /\ fpx_list_remove_last(k) => Sequence!RemoveLastOf(k)
    /\ fpx_list_clear => Sequence!Clear
    /\ fpx_list_mergesort => Sequence!Sort

\* Each operation does what its own name promises, after any others: a push
\* puts the node at its end, an insertion next to the node it is given, and
\* a removal takes the node given, or of the nodes that compar accepts the
\* first or the last; a sort sorts (list.c:12-247).
OperationsRight == [][AsPromised]_vars
=============================================================================
