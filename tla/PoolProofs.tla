----------------------------- MODULE PoolProofs -----------------------------
(***************************************************************************)
(* What holds of a pool used by one thread, for all sizes of pages,        *)
(* headers and requests that SizesAssumption allows and any number of      *)
(* nodes, blocks and cleanups.  Every variable keeps its type (Typing), no *)
(* two blocks or cleanup records share a byte (NoByteShared), the sizes a  *)
(* pool reports add up (SizesAddUp), and a destroyed pool has given        *)
(* everything back (AllGivenBack).                                         *)
(*                                                                         *)
(* The invariant has five parts.  Shape: in every node what is available   *)
(* and what was carved add up to its size, and the lists name allocated    *)
(* nodes.  Unused: before it is created it has nothing.  Laid: the blocks, *)
(* the records in use and the reserved ones lie below first of their nodes *)
(* and apart from each other.  Accounted: every node is in a list, and     *)
(* every large block has its cleanup.  Measured: what is available and     *)
(* what is in use sum to the memory, and so do the pages in the lists.     *)
(*                                                                         *)
(* The code does not keep these without the hypotheses the theorems name:  *)
(* NoneWraps (no request wraps when a header is added), ~ClearsRecords     *)
(* (pools are cleared without records) and NoneAtParent (no node is stored *)
(* over parent, one behind the last slot).                                 *)
(***************************************************************************)
EXTENDS Pool, Integers, DataInduction

-----------------------------------------------------------------------------
(* Numbers *)

(* Division by a number that is not 0. *)
LEMMA Division ==
  ASSUME NEW x \in Nat, NEW m \in Nat, m # 0
  PROVE  /\ x % m \in Nat /\ x \div m \in Nat /\ x % m < m /\ x % m <= x
         /\ x = m * (x \div m) + (x % m) /\ x < m * (x \div m + 1)
<1>1. x % m \in Nat /\ x \div m \in Nat /\ x % m < m /\ x = m * (x \div m) + (x % m)
  OBVIOUS
<1>2. PICK q \in Nat : q = x \div m
  BY <1>1
<1>3. m * q \in Nat /\ m * (q + 1) = m * q + m
  OBVIOUS
<1> QED
  BY <1>1, <1>2, <1>3

(* Multiplication is monotone. *)
LEMMA Products ==
  ASSUME NEW a \in Nat, NEW b \in Nat, NEW m \in Nat, a <= b
  PROVE  a * m \in Nat /\ b * m \in Nat /\ a * m <= b * m
<1>1. PICK c \in Nat : b = a + c
  <2>1. b - a \in Nat /\ b = a + (b - a)
    OBVIOUS
  <2> QED
    BY <2>1
<1>2. b * m = a * m + c * m /\ c * m \in Nat /\ a * m \in Nat
  BY <1>1
<1> QED
  BY <1>2

(* What is aligned is at least as large as the unit of alignment. *)
LEMMA Multiples ==
  ASSUME NEW x \in Nat, NEW m \in Nat, x # 0, m # 0, x % m = 0
  PROVE  m <= x
<1>1. PICK q \in Nat : q = x \div m /\ x = m * q
  BY Division
<1>2. q # 0
  BY <1>1
<1>3. 1 * m <= q * m
  BY <1>2, Products
<1> QED
  BY <1>1, <1>3

(* SizesAssumption in the form the proofs use it. *)
LEMMA Sizes ==
  /\ Word \in Nat /\ AlignSize \in Nat /\ PageSize \in Nat /\ MaxPoolSlot \in Nat
  /\ NodeHeader \in Nat /\ PoolHeader \in Nat /\ MutexHeader \in Nat /\ CleanupSize \in Nat
  /\ Word # 0 /\ AlignSize # 0 /\ PageSize # 0 /\ MaxPoolSlot # 0 /\ NodeHeader # 0
  /\ AlignSize <= NodeHeader /\ AlignSize <= PoolHeader /\ AlignSize <= MutexHeader
  /\ NodeHeader + PoolHeader + MutexHeader < PageSize
  /\ NodeHeader + CleanupSize + AlignSize <= PageSize
  /\ (MaxPoolSlot + 2) * PageSize <= Word /\ PageSize < Word
  /\ MinAlloc + NodeHeader < PageSize
<1>1. /\ Word \in Nat /\ AlignSize \in Nat /\ PageSize \in Nat /\ MaxPoolSlot \in Nat
      /\ NodeHeader \in Nat /\ PoolHeader \in Nat /\ MutexHeader \in Nat /\ CleanupSize \in Nat
      /\ Word # 0 /\ AlignSize # 0 /\ PageSize # 0 /\ MaxPoolSlot # 0 /\ NodeHeader # 0
      /\ PoolHeader # 0 /\ MutexHeader # 0
      /\ NodeHeader + PoolHeader + MutexHeader < PageSize
      /\ NodeHeader + CleanupSize + AlignSize <= PageSize
      /\ (MaxPoolSlot + 2) * PageSize <= Word
      /\ NodeHeader % AlignSize = 0 /\ PoolHeader % AlignSize = 0 /\ MutexHeader % AlignSize = 0
  BY SizesAssumption
<1>2. AlignSize <= NodeHeader /\ AlignSize <= PoolHeader /\ AlignSize <= MutexHeader
  BY <1>1, Multiples
<1>3. 2 * PageSize <= (MaxPoolSlot + 2) * PageSize
  BY <1>1, Products
<1> QED
  BY <1>1, <1>2, <1>3 DEF MinAlloc

(* A size that is not refused is aligned upwards, and stays a size. *)
LEMMA Aligned ==
  ASSUME NEW size \in 0..Word-1
  PROVE  /\ fpx_align_allocation(size) \in 0..Word-1
         /\ fpx_align_allocation(size) # 0 => fpx_align_allocation(size) >= size
         /\ size + AlignSize <= Word =>
              fpx_align_allocation(size) < size + AlignSize \/ fpx_align_allocation(size) = MinAlloc
<1> DEFINE q == (size + AlignSize - 1) % Word
           a == q - (q % AlignSize)
<1>1. size + AlignSize - 1 \in Nat
  BY Sizes
<1>2. q \in Nat /\ q < Word /\ q <= size + AlignSize - 1
  BY <1>1, Sizes, Division
<1>3. q % AlignSize \in Nat /\ q % AlignSize <= q
  <2> HIDE DEF q
  <2> QED
    BY <1>2, Sizes, Division
<1>4. a \in 0..Word-1 /\ a <= size + AlignSize - 1
  <2> HIDE DEF q
  <2> QED
    BY <1>2, <1>3, Sizes
<1>5. fpx_align_default(size) = a
  BY DEF fpx_align_default
<1>6. MinAlloc \in 0..Word-1
  BY Sizes DEF MinAlloc
<1> HIDE DEF a
<1>7. a < size \/ (a >= size /\ a < MinAlloc) \/ (a >= size /\ a >= MinAlloc)
  BY <1>4, <1>6, Sizes
<1>8. fpx_align_allocation(size) = CASE a < size -> 0
        [] a >= size /\ a < MinAlloc -> MinAlloc
        [] OTHER -> a
  BY <1>5 DEF fpx_align_allocation
<1>9. /\ a < size => fpx_align_allocation(size) = 0
      /\ (a >= size /\ a < MinAlloc) => fpx_align_allocation(size) = MinAlloc
      /\ (a >= size /\ a >= MinAlloc) => fpx_align_allocation(size) = a
  BY <1>4, <1>6, <1>8, Sizes
<1> QED
  BY <1>4, <1>6, <1>7, <1>9, Sizes

(* The pages a block needs are enough for it and the header. *)
LEMMA Pages ==
  ASSUME NEW size \in Nat
  PROVE  /\ fpx_get_npages(size) \in Nat /\ fpx_get_npages(size) # 0
         /\ SlotIndex(size) = fpx_get_npages(size) - 1 /\ SlotIndex(size) \in Nat
         /\ size + NodeHeader < Word => size + NodeHeader < fpx_get_npages(size) * PageSize
         /\ size + NodeHeader < PageSize => fpx_get_npages(size) = 1
<1>1. PICK total \in Nat : total = (size + NodeHeader) % Word
  BY Sizes, Division
<1>2. size + NodeHeader < Word => total = size + NodeHeader
  BY <1>1, Sizes
<1>3. total \div PageSize \in Nat /\ total < PageSize * (total \div PageSize + 1)
  BY Sizes, Division
<1>4. fpx_get_npages(size) = IF total < PageSize THEN 1 ELSE total \div PageSize + 1
  BY <1>1 DEF fpx_get_npages
<1>5. total < fpx_get_npages(size) * PageSize
  BY <1>3, <1>4, Sizes
<1> QED
  BY <1>2, <1>3, <1>4, <1>5, Sizes DEF SlotIndex

(* The room for a cleanup record is taken from nodes of one page. *)
LEMMA RecordSize ==
  /\ CleanupRecord \in 0..Word-1 /\ CleanupRecord + NodeHeader < Word
  /\ SlotIndex(CleanupRecord) = 0
<1>1. CleanupSize \in 0..Word-1 /\ CleanupSize + AlignSize <= Word
  BY Sizes
<1>2. /\ CleanupRecord \in 0..Word-1
      /\ CleanupRecord < CleanupSize + AlignSize \/ CleanupRecord = MinAlloc
  BY <1>1, Aligned DEF CleanupRecord
<1>3. CleanupRecord + NodeHeader < PageSize
  BY <1>2, Sizes
<1> QED
  BY <1>2, <1>3, Sizes, Pages

(* Subtraction in machine words, where it does not wrap. *)
LEMMA Wraps ==
  ASSUME NEW x \in Nat, NEW m \in Nat, x < m
  PROVE  (x + m) % m = x
<1>1. PICK q \in Nat, r \in Nat : r = (x + m) % m /\ r < m /\ x + m = m * q + r
  <2>1. PICK y \in Nat : y = x + m
    OBVIOUS
  <2>2. y % m \in Nat /\ y \div m \in Nat /\ y % m < m /\ y = m * (y \div m) + (y % m)
    BY Division
  <2> QED
    BY <2>1, <2>2
<1>2. q # 0
  BY <1>1
<1>3. ~(2 <= q)
  <2> SUFFICES ASSUME 2 <= q PROVE FALSE
    OBVIOUS
  <2>1. 2 * m <= q * m
    BY Products
  <2> QED
    BY <1>1, <2>1
<1>4. q = 1
  BY <1>2, <1>3
<1> QED
  BY <1>1, <1>4

(* malloc has something left to give. *)
LEMMA FreshIs ==
  ASSUME NEW used, IsFiniteSet(used)
  PROVE  /\ Fresh(used) \in 1..Cardinality(used) + 1 /\ Fresh(used) \notin used
         /\ Cardinality(used) \in Nat
<1>1. PICK c \in Nat : c = Cardinality(used)
  BY FS_CardinalityType
<1>2. \E n \in 1..c + 1 : n \notin used
  <2> SUFFICES ASSUME 1..c + 1 \subseteq used PROVE FALSE
    OBVIOUS
  <2>1. Cardinality(1..c + 1) <= Cardinality(used)
    BY FS_Subset
  <2>2. Cardinality(1..c + 1) = c + 1
    BY FS_Interval
  <2> QED
    BY <1>1, <2>1, <2>2
<1> QED
  BY <1>1, <1>2 DEF Fresh

(* The least of a set of numbers is one of them. *)
LEMMA LeastIs ==
  ASSUME NEW T \in SUBSET Nat, T # {}
  PROVE  Min(T) \in T
  BY NatMin DEF Min

-----------------------------------------------------------------------------
(* What every step keeps. *)

(* Memory nodes: what is left is what lies behind first_avail. *)
Memory ==
  {m \in [pages : 1..MaxPoolSlot+1, size : 0..Word-1, first : 0..Word-1, avail : 0..Word-1] :
     m.first + m.avail = m.size}

NodeLists == [1..MaxPoolSlot -> Seq(1..MaxNodes)]

IsHeap(h) == DOMAIN h \subseteq 1..MaxNodes /\ h \in [DOMAIN h -> Memory]

(* Every node in a list is allocated. *)
Listed(ns, h) == \A i \in 1..MaxPoolSlot : ToSet(ns[i]) \subseteq DOMAIN h

Shape ==
  /\ status \in {"none", "live", "destroyed", "crashed"}
  /\ nodes \in NodeLists /\ parent \in 0..MaxNodes /\ IsHeap(heap)
  /\ cleanups \in Seq([at : Places, data : Nat])
  /\ spare \in Seq(Places) /\ blocks \in Seq(Places)
  /\ large \subseteq Nat /\ IsFiniteSet(large)
  /\ status \in {"none", "live"} => Listed(nodes, heap)

(* r is the pool's memory with one block more, which is r.at: no place     *)
(* below first_avail of some node is part of it.                           *)
Grown(r) ==
  /\ r.nodes \in NodeLists /\ r.parent \in 0..MaxNodes
  /\ IsHeap(r.heap) /\ Listed(r.nodes, r.heap)
  /\ DOMAIN heap \subseteq DOMAIN r.heap
  /\ \A n \in DOMAIN heap : heap[n].first <= r.heap[n].first
  /\ r.at \in Places /\ r.at.node \in DOMAIN r.heap
  /\ r.at.off + r.at.len <= r.heap[r.at.node].first
  /\ r.at.node \in DOMAIN heap => r.at.off = heap[r.at.node].first

(* A node from which a block is taken. *)
LEMMA CarveIs ==
  ASSUME NEW m \in Memory, NEW size \in 0..Word-1, size <= m.avail
  PROVE  /\ Carve(m, size) \in Memory /\ Carve(m, size).first = m.first + size
         /\ Carve(m, size).avail + size = m.avail
         /\ Carve(m, size).size = m.size /\ Carve(m, size).pages = m.pages
<1>1. /\ m.pages \in 1..MaxPoolSlot+1 /\ m.size \in 0..Word-1 /\ m.first \in 0..Word-1
      /\ m.avail \in 0..Word-1 /\ m.first + m.avail = m.size
      /\ m = [pages |-> m.pages, size |-> m.size, first |-> m.first, avail |-> m.avail]
  BY DEF Memory
<1>2. (m.avail + Word - size) % Word = m.avail - size
  <2>1. PICK x \in Nat : x = m.avail - size /\ x < Word
    BY <1>1, Sizes
  <2>2. m.avail + Word - size = x + Word
    BY <1>1, <2>1, Sizes
  <2> QED
    BY <2>1, <2>2, Sizes, Wraps
<1>3. Carve(m, size) = [pages |-> m.pages, size |-> m.size, first |-> m.first + size,
                        avail |-> m.avail - size]
  <2>1. Carve(m, size) = [m EXCEPT !.first = m.first + size, !.avail = m.avail - size]
    BY <1>2 DEF Carve
  <2> QED
    BY <1>1, <2>1
<1>4. m.first + size \in 0..Word-1 /\ m.avail - size \in 0..Word-1
      /\ (m.first + size) + (m.avail - size) = m.size /\ (m.avail - size) + size = m.avail
  BY <1>1, Sizes
<1> QED
  BY <1>1, <1>3, <1>4 DEF Memory

(* A new node has room for the block it is allocated for. *)
LEMMA NewNode ==
  ASSUME NEW p \in 1..MaxPoolSlot+1
  PROVE  /\ fpx_memnode_allocate(p) \in Memory /\ fpx_memnode_allocate(p).first = 0
         /\ fpx_memnode_allocate(p).avail = p * PageSize - NodeHeader
         /\ fpx_memnode_allocate(p).size = p * PageSize - NodeHeader
         /\ fpx_memnode_allocate(p).pages = p
         /\ PoolHeader + MutexHeader < p * PageSize - NodeHeader
<1>1. p \in Nat /\ 1 <= p /\ p <= MaxPoolSlot + 2
  BY Sizes
<1>2. 1 * PageSize <= p * PageSize /\ p * PageSize \in Nat
  BY <1>1, Sizes, Products
<1>3. p * PageSize <= (MaxPoolSlot + 2) * PageSize
  BY <1>1, Sizes, Products
<1>4. p * PageSize - NodeHeader \in 0..Word-1 /\ PoolHeader + MutexHeader < p * PageSize - NodeHeader
  BY <1>2, <1>3, Sizes
<1>5. 0 \in 0..Word-1 /\ 0 + (p * PageSize - NodeHeader) = p * PageSize - NodeHeader
  BY <1>4, Sizes
<1> QED
  BY <1>4, <1>5 DEF fpx_memnode_allocate, Memory

(* The nodes fpx_palloc looks at are nodes of the pool. *)
LEMMA SearchedIs ==
  ASSUME Shape, Listed(nodes, heap), NEW size \in Nat
  PROVE  /\ Searched(nodes, size) \in Seq(1..MaxNodes)
         /\ ToSet(Searched(nodes, size)) \subseteq DOMAIN heap
<1>1. PICK Q : Q = Seq(1..MaxNodes)
  OBVIOUS
<1>2. PICK a \in Nat : a = SlotIndex(size) + 1 /\ a # 0
  BY Pages
<1>3. PICK ss : ss = SubSeq(nodes, a, MaxPoolSlot)
  OBVIOUS
<1>4. nodes \in Seq(Q) /\ Len(nodes) = MaxPoolSlot
  BY <1>1, Sizes DEF Shape, NodeLists
<1>5. ss \in Seq(Q) /\ Len(ss) \in Nat
      /\ \A i \in 1..Len(ss) : a + i - 1 \in 1..MaxPoolSlot /\ ss[i] = nodes[a + i - 1]
  BY <1>2, <1>3, <1>4, Sizes, SMTT(30)
<1>6. FlattenSeq(ss) \in Seq(1..MaxNodes)
  BY <1>1, <1>5, FlattenType
<1>7. ASSUME NEW x \in ToSet(FlattenSeq(ss)) PROVE x \in DOMAIN heap
  <2>1. ss \in Seq(Seq(1..MaxNodes))
    BY <1>1, <1>5
  <2>2. PICK i \in 1..Len(ss) : x \in ToSet(ss[i])
    BY <1>7, <2>1, FlattenElements
  <2> QED
    BY <1>5, <2>2 DEF Listed
<1>8. Searched(nodes, size) = FlattenSeq(ss)
  BY <1>2, <1>3 DEF Searched
<1> QED
  BY <1>6, <1>7, <1>8

(* ms are the lists ns and node n in one of them. *)
OneMore(ns, ms, index, n) ==
  \A i \in 1..MaxPoolSlot : \A x :
    x \in ToSet(ms[i]) <=> x \in ToSet(ns[i]) \/ (i = index + 1 /\ x = n)

(* The list of that slot is the one that is longer. *)
Longer(ns, ms, index) ==
  \A i \in 1..MaxPoolSlot :
    Len(ms[i]) = IF i = index + 1 THEN Len(ns[i]) + 1 ELSE Len(ns[i])

(* A node put in front of one of the lists. *)
LEMMA RegisteredIs ==
  ASSUME NEW ns \in NodeLists, NEW p \in 0..MaxNodes, NEW n \in 1..MaxNodes, NEW index \in Nat,
         NEW r, r = Registered(ns, p, index, n)
  PROVE  /\ r[1] \in NodeLists /\ r[2] \in 0..MaxNodes
         /\ OneMore(ns, r[1], index, n) /\ Longer(ns, r[1], index)
<1>1. CASE index < MaxPoolSlot
  <2>1. index + 1 \in 1..MaxPoolSlot
    BY <1>1, Sizes
  <2>2. r[1] = [ns EXCEPT ![index + 1] = <<n>> \o ns[index + 1]] /\ r[2] = p
    BY <1>1 DEF Registered
  <2>3. PICK s \in Seq(1..MaxNodes) : s = ns[index + 1]
    BY <2>1 DEF NodeLists
  <2>4. PICK t : t = <<n>> \o s
    OBVIOUS
  <2>5. /\ t \in Seq(1..MaxNodes) /\ Len(t) = Len(s) + 1 /\ Len(s) \in Nat /\ t[1] = n
        /\ \A k \in 1..Len(s) : t[k + 1] = s[k]
        /\ \A k \in 1..Len(t) : k # 1 => k - 1 \in 1..Len(s) /\ t[k] = s[k - 1]
    BY <2>4
  <2>6. ToSet(t) = ToSet(s) \cup {n}
    <3>1. DOMAIN t = 1..Len(t) /\ DOMAIN s = 1..Len(s)
      BY <2>5
    <3>2. \A k \in 1..Len(s) : k + 1 \in 1..Len(t) /\ t[k + 1] = s[k]
      BY <2>5
    <3>3. 1 \in 1..Len(t) /\ t[1] = n
      BY <2>5
    <3>4. \A k \in 1..Len(t) : t[k] = n \/ \E l \in 1..Len(s) : t[k] = s[l]
      BY <2>5
    <3>5. ASSUME NEW x \in ToSet(t) PROVE x \in ToSet(s) \cup {n}
      BY <3>1, <3>4 DEF ToSet
    <3>6. ASSUME NEW x \in ToSet(s) \cup {n} PROVE x \in ToSet(t)
      BY <3>1, <3>2, <3>3 DEF ToSet
    <3> QED
      BY <3>5, <3>6
  <2>7. r[1] = [ns EXCEPT ![index + 1] = t]
    BY <2>2, <2>3, <2>4
  <2> QED
    <3>1. r[1] \in NodeLists
      BY <2>1, <2>5, <2>7 DEF NodeLists
    <3>2. \A i \in 1..MaxPoolSlot : r[1][i] = IF i = index + 1 THEN t ELSE ns[i]
      BY <2>7 DEF NodeLists
    <3>3. OneMore(ns, r[1], index, n)
      BY <2>1, <2>3, <2>6, <3>2 DEF OneMore
    <3>4. Longer(ns, r[1], index)
      BY <2>1, <2>3, <2>5, <3>2 DEF Longer
    <3> QED
      BY <2>2, <3>1, <3>3, <3>4
<1>2. CASE ~(index < MaxPoolSlot)
  <2>1. r[1] = ns /\ r[2] = n
    BY <1>2 DEF Registered
  <2>2. \A i \in 1..MaxPoolSlot : i # index + 1
    BY <1>2, Sizes
  <2> QED
    BY <2>1, <2>2 DEF OneMore, Longer
<1> QED
  BY <1>1, <1>2

(* r is the pool's memory after size bytes were taken from node n. *)
Carved(r, n, size) ==
  /\ r.at.len = size /\ DOMAIN r.heap = DOMAIN heap \cup {n}
  /\ \A k \in DOMAIN heap : k # n => r.heap[k] = heap[k]

(* The node was there, and the lists stay. *)
CarvedOld(r, n, size) ==
  /\ Carved(r, n, size) /\ n \in DOMAIN heap /\ r.nodes = nodes
  /\ r.heap[n].avail + size = heap[n].avail
  /\ r.heap[n].size = heap[n].size /\ r.heap[n].pages = heap[n].pages

(* The node is new, and on the list of its size. *)
CarvedNew(r, n, size) ==
  /\ Carved(r, n, size) /\ n \notin DOMAIN heap
  /\ r.heap[n].avail + size = r.heap[n].size
  /\ r.heap[n].pages = SlotIndex(size) + 1 /\ Longer(nodes, r.nodes, SlotIndex(size))

(* fpx_palloc takes the block from a node with room, or from a new one. *)
LEMMA AllocateIs ==
  ASSUME Shape, Listed(nodes, heap), NEW size \in 0..Word-1, size + NodeHeader < Word,
         SlotIndex(size) <= MaxPoolSlot,
         NEW r, r = Allocate(nodes, parent, heap, size), Cardinality(DOMAIN r.heap) <= MaxNodes
  PROVE  /\ Grown(r)
         /\ SlotIndex(size) # MaxPoolSlot =>
              \A n \in DOMAIN r.heap \ DOMAIN heap : \E i \in 1..MaxPoolSlot : n \in ToSet(r.nodes[i])
         /\ \A i \in 1..MaxPoolSlot : ToSet(nodes[i]) \subseteq ToSet(r.nodes[i])
         /\ \E n : CarvedOld(r, n, size) \/ CarvedNew(r, n, size)
<1>1. PICK found : found = Candidates(nodes, heap, size)
  OBVIOUS
<1>2. PICK n : n = IF found # {} THEN Searched(nodes, size)[Min(found)] ELSE Fresh(DOMAIN heap)
  OBVIOUS
<1>3. PICK m : m = IF found # {} THEN heap[n] ELSE fpx_memnode_allocate(fpx_get_npages(size))
  OBVIOUS
<1>4. PICK lists : lists = IF found # {} THEN <<nodes, parent>>
                           ELSE Registered(nodes, parent, SlotIndex(size), n)
  OBVIOUS
<1>5. /\ r.nodes = lists[1] /\ r.parent = lists[2] /\ r.heap = With(heap, n, Carve(m, size))
      /\ r.at = [node |-> n, off |-> m.first, len |-> size]
  BY <1>1, <1>2, <1>3, <1>4 DEF Allocate
<1>6. DOMAIN r.heap = DOMAIN heap \cup {n} /\ r.heap[n] = Carve(m, size)
      /\ \A k \in DOMAIN heap : k # n => r.heap[k] = heap[k]
  BY <1>5 DEF With
<1>7. /\ IsFiniteSet(DOMAIN heap) /\ DOMAIN heap \subseteq 1..MaxNodes
      /\ \A k \in DOMAIN heap : heap[k] \in Memory
  <2>1. MaxNodes \in Nat
    BY PoolBoundsAssumption
  <2>2. IsFiniteSet(1..MaxNodes)
    BY <2>1, FS_Interval
  <2> QED
    BY <2>2, FS_Subset DEF Shape, IsHeap
<1>8. /\ n \in 1..MaxNodes /\ m \in Memory /\ size <= m.avail
      /\ lists[1] \in NodeLists /\ lists[2] \in 0..MaxNodes
      /\ \A i \in 1..MaxPoolSlot : /\ ToSet(nodes[i]) \subseteq ToSet(lists[1][i])
                                   /\ ToSet(lists[1][i]) \subseteq ToSet(nodes[i]) \cup {n}
      /\ n \in DOMAIN heap => m = heap[n]
      /\ SlotIndex(size) # MaxPoolSlot /\ n \notin DOMAIN heap =>
           \E i \in 1..MaxPoolSlot : n \in ToSet(lists[1][i])
      /\ \/ n \in DOMAIN heap /\ lists[1] = nodes
         \/ /\ n \notin DOMAIN heap /\ m.avail = m.size /\ m.pages = SlotIndex(size) + 1
            /\ Longer(nodes, lists[1], SlotIndex(size))
  <2>1. CASE found # {}
    <3>1. PICK s \in Seq(1..MaxNodes) : s = Searched(nodes, size) /\ ToSet(s) \subseteq DOMAIN heap
      BY SearchedIs
    <3>2. found = {k \in DOMAIN s : heap[s[k]].avail >= size} /\ DOMAIN s \subseteq Nat
      BY <1>1, <3>1 DEF Candidates
    <3>3. Min(found) \in found
      BY <2>1, <3>2, LeastIs
    <3>4. n \in DOMAIN heap /\ heap[n].avail >= size
      BY <1>2, <2>1, <3>1, <3>2, <3>3 DEF ToSet
    <3>5. m = heap[n] /\ lists[1] = nodes /\ lists[2] = parent /\ m \in Memory
      BY <1>3, <1>4, <1>7, <2>1, <3>4
    <3>6. size <= m.avail
      BY <3>4, <3>5 DEF Memory
    <3> QED
      BY <1>7, <3>4, <3>5, <3>6 DEF Shape
  <2>2. CASE found = {}
    <3>1. n \in 1..Cardinality(DOMAIN heap) + 1 /\ n \notin DOMAIN heap
          /\ Cardinality(DOMAIN heap) \in Nat
      BY <1>2, <1>7, <2>2, FreshIs
    <3>2. Cardinality(DOMAIN r.heap) = Cardinality(DOMAIN heap) + 1
      BY <1>6, <1>7, <3>1, FS_AddElement
    <3>3. n \in 1..MaxNodes
      BY <3>1, <3>2, PoolBoundsAssumption
    <3>4. PICK p : p = fpx_get_npages(size)
      OBVIOUS
    <3>5. p \in 1..MaxPoolSlot+1 /\ size + NodeHeader < p * PageSize /\ p * PageSize \in Nat
      <4>1. /\ p \in Nat /\ p # 0 /\ SlotIndex(size) = p - 1 /\ size + NodeHeader < p * PageSize
        BY <3>4, Pages
      <4> QED
        BY <4>1, Sizes
    <3>6. m = fpx_memnode_allocate(p)
      BY <1>3, <2>2, <3>4
    <3>7. /\ m \in Memory /\ m.avail = p * PageSize - NodeHeader
          /\ m.avail = m.size /\ m.pages = p
      BY <3>5, <3>6, NewNode
    <3>8. size <= m.avail
      BY <3>5, <3>7, Sizes
    <3>9. /\ lists[1] \in NodeLists /\ lists[2] \in 0..MaxNodes
          /\ Longer(nodes, lists[1], SlotIndex(size))
          /\ \A i \in 1..MaxPoolSlot : \A x : x \in ToSet(lists[1][i]) <=>
               x \in ToSet(nodes[i]) \/ (i = SlotIndex(size) + 1 /\ x = n)
      <4>1. lists = Registered(nodes, parent, SlotIndex(size), n)
        BY <1>4, <2>2
      <4>2. nodes \in NodeLists /\ parent \in 0..MaxNodes /\ SlotIndex(size) \in Nat
        BY Pages DEF Shape
      <4>3. /\ lists[1] \in NodeLists /\ lists[2] \in 0..MaxNodes
            /\ OneMore(nodes, lists[1], SlotIndex(size), n)
            /\ Longer(nodes, lists[1], SlotIndex(size))
        BY <3>3, <4>1, <4>2, RegisteredIs
      <4> QED
        BY <4>3 DEF OneMore
    <3>10. SlotIndex(size) # MaxPoolSlot => SlotIndex(size) + 1 \in 1..MaxPoolSlot
      <4>1. SlotIndex(size) \in Nat
        BY Pages
      <4> QED
        BY <4>1, Sizes
    <3>11. p = SlotIndex(size) + 1
      BY <3>4, <3>5, Pages
    <3> QED
      BY <3>1, <3>3, <3>7, <3>8, <3>9, <3>10, <3>11
  <2> QED
    BY <2>1, <2>2
<1>9. /\ Carve(m, size) \in Memory /\ Carve(m, size).first = m.first + size
      /\ Carve(m, size).avail + size = m.avail
      /\ Carve(m, size).size = m.size /\ Carve(m, size).pages = m.pages
  BY <1>8, CarveIs
<1>10. m.first \in 0..Word-1
  BY <1>8 DEF Memory
<1>11. IsHeap(r.heap)
  <2>1. \A k \in DOMAIN r.heap : r.heap[k] \in Memory /\ k \in 1..MaxNodes
    BY <1>6, <1>7, <1>8, <1>9
  <2>2. r.heap \in [DOMAIN r.heap -> Memory]
    BY <1>5, <2>1 DEF With
  <2> QED
    BY <2>1, <2>2 DEF IsHeap
<1>12. r.at \in Places
  BY <1>5, <1>8, <1>10 DEF Places
<1>13. Listed(r.nodes, r.heap)
  BY <1>5, <1>6, <1>8 DEF Listed
<1>14. \A k \in DOMAIN heap : heap[k].first <= r.heap[k].first
  <2> SUFFICES ASSUME NEW k \in DOMAIN heap PROVE heap[k].first <= r.heap[k].first
    OBVIOUS
  <2>1. heap[k].first \in 0..Word-1
    BY <1>7 DEF Memory
  <2>2. k = n => r.heap[k].first = heap[k].first + size
    BY <1>6, <1>8, <1>9
  <2>3. k # n => r.heap[k] = heap[k]
    BY <1>6
  <2> QED
    BY <2>1, <2>2, <2>3
<1>15. /\ r.at.node = n /\ r.at.off = m.first /\ r.at.len = size
       /\ r.at.off + r.at.len <= r.heap[r.at.node].first
  BY <1>5, <1>6, <1>9, <1>10
<1>16. Grown(r)
  BY <1>5, <1>6, <1>8, <1>11, <1>12, <1>13, <1>14, <1>15 DEF Grown
<1>17. CarvedOld(r, n, size) \/ CarvedNew(r, n, size)
  <2>1. Carved(r, n, size)
    BY <1>6, <1>15 DEF Carved
  <2>2. CASE n \in DOMAIN heap /\ lists[1] = nodes
    BY <1>5, <1>6, <1>8, <1>9, <2>1, <2>2 DEF CarvedOld
  <2>3. CASE /\ n \notin DOMAIN heap /\ m.avail = m.size /\ m.pages = SlotIndex(size) + 1
             /\ Longer(nodes, lists[1], SlotIndex(size))
    BY <1>5, <1>6, <1>9, <2>1, <2>3 DEF CarvedNew
  <2> QED
    BY <1>8, <2>2, <2>3
<1>18. /\ SlotIndex(size) # MaxPoolSlot =>
            \A k \in DOMAIN r.heap \ DOMAIN heap : \E i \in 1..MaxPoolSlot : k \in ToSet(r.nodes[i])
       /\ \A i \in 1..MaxPoolSlot : ToSet(nodes[i]) \subseteq ToSet(r.nodes[i])
  BY <1>5, <1>6, <1>8
<1> QED
  BY <1>16, <1>17, <1>18

-----------------------------------------------------------------------------
(* Sequences of places: what they share. *)

NoOverlap(a, b) == a.node = b.node => a.off + a.len <= b.off \/ b.off + b.len <= a.off

Free(x, s) == \A k \in 1..Len(s) : NoOverlap(x, s[k])

Own(s) == \A k, l \in 1..Len(s) : k # l => NoOverlap(s[k], s[l])

Apart(s, t) == \A k \in 1..Len(s) : \A l \in 1..Len(t) : NoOverlap(s[k], t[l])

(* A place below first_avail of its node. *)
Taken(x, h) == x.node \in DOMAIN h /\ x.off + x.len <= h[x.node].first

AllTaken(s, h) == \A k \in 1..Len(s) : Taken(s[k], h)

(* t is s with x put somewhere in it. *)
Adds(t, s, x) ==
  /\ Len(s) \in Nat /\ Len(t) = Len(s) + 1
  /\ \E p \in 1..Len(t) :
       /\ t[p] = x
       /\ \A k \in 1..Len(t) : (k < p => t[k] = s[k]) /\ (p < k => t[k] = s[k - 1])

(* Not overlapping is symmetric. *)
LEMMA OverlapSym == ASSUME NEW a, NEW b, NoOverlap(a, b) PROVE NoOverlap(b, a)
  BY DEF NoOverlap

(* A sequence that adds x has x, what was there before, and nothing else. *)
LEMMA AddsIs ==
  ASSUME NEW t, NEW s, NEW x, Adds(t, s, x)
  PROVE  /\ \E p \in 1..Len(t) : t[p] = x /\ \A k \in 1..Len(t) : k # p =>
              \E l \in 1..Len(s) : t[k] = s[l]
         /\ \A k \in 1..Len(s) : \E l \in 1..Len(t) : t[l] = s[k]
<1>1. PICK p \in 1..Len(t) :
        /\ t[p] = x
        /\ \A k \in 1..Len(t) : (k < p => t[k] = s[k]) /\ (p < k => t[k] = s[k - 1])
  BY DEF Adds
<1>2. Len(s) \in Nat /\ Len(t) = Len(s) + 1
  BY DEF Adds
<1>3. ASSUME NEW k \in 1..Len(t), k # p PROVE \E l \in 1..Len(s) : t[k] = s[l]
  <2>1. CASE k < p
    BY <1>1, <1>2, <2>1
  <2>2. CASE p < k
    <3>1. k - 1 \in 1..Len(s) /\ t[k] = s[k - 1]
      BY <1>1, <1>2, <2>2
    <3> QED
      BY <3>1
  <2> QED
    BY <1>2, <1>3, <2>1, <2>2
<1>4. ASSUME NEW k \in 1..Len(s) PROVE \E l \in 1..Len(t) : t[l] = s[k]
  <2>1. CASE k < p
    BY <1>1, <1>2, <2>1
  <2>2. CASE ~(k < p)
    <3>1. k + 1 \in 1..Len(t) /\ p < k + 1 /\ (k + 1) - 1 = k
      BY <1>2, <2>2
    <3>2. t[k + 1] = s[(k + 1) - 1]
      BY <1>1, <3>1
    <3> QED
      BY <3>1, <3>2
  <2> QED
    BY <2>1, <2>2
<1> QED
  BY <1>1, <1>3, <1>4

(* What is free of the longer sequence is free of the shorter one and of   *)
(* x.                                                                      *)
LEMMA AddsFree ==
  ASSUME NEW t, NEW s, NEW x, Adds(t, s, x), NEW y
  PROVE  Free(y, t) <=> Free(y, s) /\ NoOverlap(y, x)
<1>1. PICK p \in 1..Len(t) : t[p] = x /\ \A k \in 1..Len(t) : k # p =>
        \E l \in 1..Len(s) : t[k] = s[l]
  BY AddsIs
<1>2. \A k \in 1..Len(s) : \E l \in 1..Len(t) : t[l] = s[k]
  BY AddsIs
<1>3. ASSUME Free(y, t) PROVE Free(y, s) /\ NoOverlap(y, x)
  BY <1>1, <1>2, <1>3 DEF Free
<1>4. ASSUME Free(y, s), NoOverlap(y, x) PROVE Free(y, t)
  BY <1>1, <1>4 DEF Free
<1> QED
  BY <1>3, <1>4

(* All of the longer sequence is carved if the shorter one and x are. *)
LEMMA AddsTaken ==
  ASSUME NEW t, NEW s, NEW x, Adds(t, s, x), NEW h
  PROVE  AllTaken(t, h) <=> AllTaken(s, h) /\ Taken(x, h)
<1>1. PICK p \in 1..Len(t) : t[p] = x /\ \A k \in 1..Len(t) : k # p =>
        \E l \in 1..Len(s) : t[k] = s[l]
  BY AddsIs
<1>2. \A k \in 1..Len(s) : \E l \in 1..Len(t) : t[l] = s[k]
  BY AddsIs
<1>3. ASSUME AllTaken(t, h) PROVE AllTaken(s, h) /\ Taken(x, h)
  BY <1>1, <1>2, <1>3 DEF AllTaken
<1>4. ASSUME AllTaken(s, h), Taken(x, h) PROVE AllTaken(t, h)
  BY <1>1, <1>4 DEF AllTaken
<1> QED
  BY <1>3, <1>4

(* The longer sequence is apart from another if the shorter one and x are. *)
LEMMA AddsApart ==
  ASSUME NEW t, NEW s, NEW x, Adds(t, s, x), NEW u
  PROVE  Apart(t, u) <=> Apart(s, u) /\ Free(x, u)
<1>1. PICK p \in 1..Len(t) : t[p] = x /\ \A k \in 1..Len(t) : k # p =>
        \E l \in 1..Len(s) : t[k] = s[l]
  BY AddsIs
<1>2. \A k \in 1..Len(s) : \E l \in 1..Len(t) : t[l] = s[k]
  BY AddsIs
<1>3. \A v : Apart(v, u) <=> \A k \in 1..Len(v) : Free(v[k], u)
  BY DEF Apart, Free
<1>4. ASSUME Apart(t, u) PROVE Apart(s, u) /\ Free(x, u)
  BY <1>1, <1>2, <1>3, <1>4
<1>5. ASSUME Apart(s, u), Free(x, u) PROVE Apart(t, u)
  BY <1>1, <1>3, <1>5
<1> QED
  BY <1>4, <1>5

(* Being apart is symmetric. *)
LEMMA ApartSym == ASSUME NEW s, NEW t PROVE Apart(s, t) <=> Apart(t, s)
  BY OverlapSym DEF Apart

(* The longer sequence does not overlap itself if the shorter one does     *)
(* not, and x does not overlap it.                                         *)
LEMMA AddsOwn ==
  ASSUME NEW t, NEW s, NEW x, Adds(t, s, x)
  PROVE  Own(t) <=> Own(s) /\ Free(x, s)
<1>1. PICK p \in 1..Len(t) :
        /\ t[p] = x
        /\ \A k \in 1..Len(t) : (k < p => t[k] = s[k]) /\ (p < k => t[k] = s[k - 1])
  BY DEF Adds
<1>2. Len(s) \in Nat /\ Len(t) = Len(s) + 1
  BY DEF Adds
<1> DEFINE Up(k) == IF k < p THEN k ELSE k + 1
           Down(k) == IF k < p THEN k ELSE k - 1
<1>3. \A k \in 1..Len(s) : Up(k) \in 1..Len(t) /\ Up(k) # p /\ t[Up(k)] = s[k]
  <2> SUFFICES ASSUME NEW k \in 1..Len(s)
               PROVE  Up(k) \in 1..Len(t) /\ Up(k) # p /\ t[Up(k)] = s[k]
    OBVIOUS
  <2>1. Up(k) \in 1..Len(t) /\ Up(k) # p /\ (~(k < p) => p < k + 1 /\ (k + 1) - 1 = k)
    BY <1>2
  <2> QED
    BY <1>1, <2>1
<1>4. \A k \in 1..Len(t) : k # p => Down(k) \in 1..Len(s) /\ t[k] = s[Down(k)]
  <2> SUFFICES ASSUME NEW k \in 1..Len(t), k # p
               PROVE  Down(k) \in 1..Len(s) /\ t[k] = s[Down(k)]
    OBVIOUS
  <2>1. Down(k) \in 1..Len(s) /\ (~(k < p) => p < k)
    BY <1>2
  <2> QED
    BY <1>1, <2>1
<1>5. \A k, l \in 1..Len(s) : k # l => Up(k) # Up(l)
  BY <1>2
<1>6. \A k, l \in 1..Len(t) : k # l /\ k # p /\ l # p => Down(k) # Down(l)
  BY <1>2
<1> HIDE DEF Up, Down
<1>7. ASSUME Own(t) PROVE Own(s) /\ Free(x, s)
  <2>1. Own(s)
    BY <1>3, <1>5, <1>7 DEF Own
  <2>2. Free(x, s)
    BY <1>1, <1>3, <1>7 DEF Own, Free
  <2> QED
    BY <2>1, <2>2
<1>8. ASSUME Own(s), Free(x, s) PROVE Own(t)
  <2> SUFFICES ASSUME NEW k \in 1..Len(t), NEW l \in 1..Len(t), k # l
               PROVE  NoOverlap(t[k], t[l])
    BY DEF Own
  <2>1. CASE k = p
    BY <1>1, <1>4, <1>8, <2>1 DEF Free
  <2>2. CASE l = p
    <3>1. NoOverlap(t[l], t[k])
      BY <1>1, <1>4, <1>8, <2>2 DEF Free
    <3> QED
      BY <3>1, OverlapSym
  <2>3. CASE k # p /\ l # p
    BY <1>4, <1>6, <1>8, <2>3 DEF Own
  <2> QED
    BY <2>1, <2>2, <2>3
<1> QED
  BY <1>7, <1>8

(* The places of blocks b, of reserved records s and of used records c:    *)
(* all of them below first_avail, and no two of them sharing a byte.       *)
Tidy(b, s, c, h) ==
  /\ AllTaken(b, h) /\ AllTaken(s, h) /\ AllTaken(c, h)
  /\ Own(b) /\ Own(s) /\ Own(c) /\ Apart(b, s) /\ Apart(b, c) /\ Apart(s, c)

(* The three lists play the same part in Tidy. *)
LEMMA TidySwap ==
  ASSUME NEW b, NEW s, NEW c, NEW h, Tidy(b, s, c, h)
  PROVE  Tidy(c, s, b, h) /\ Tidy(b, c, s, h)
  BY ApartSym DEF Tidy

(* A record that goes from one list to the other. *)
LEMMA TidyMove ==
  ASSUME NEW b, NEW s, NEW c, NEW h, Tidy(b, s, c, h), NEW x, NEW u, NEW d,
         Adds(s, u, x), Adds(d, c, x)
  PROVE  Tidy(b, u, d, h)
<1>1. AllTaken(u, h) /\ Taken(x, h) /\ AllTaken(d, h)
  BY AddsTaken DEF Tidy
<1>2. Own(u) /\ Free(x, u)
  BY AddsOwn DEF Tidy
<1>3. Apart(u, c) /\ Free(x, c)
  BY AddsApart DEF Tidy
<1>4. Own(d)
  BY <1>3, AddsOwn DEF Tidy
<1>5. Apart(u, b) /\ Free(x, b)
  BY AddsApart, ApartSym DEF Tidy
<1>6. Apart(d, b)
  BY <1>5, AddsApart, ApartSym DEF Tidy
<1>7. Apart(d, u)
  BY <1>2, <1>3, AddsApart, ApartSym
<1> QED
  BY <1>1, <1>2, <1>4, <1>5, <1>6, <1>7, ApartSym DEF Tidy

(* A new block is apart from all the others. *)
LEMMA TidyNew ==
  ASSUME Shape, NEW r, Grown(r), NEW b, NEW s, NEW c, Tidy(b, s, c, heap), NEW u,
         b \in Seq(Places), s \in Seq(Places), c \in Seq(Places),
         Adds(u, b, r.at)
  PROVE  Tidy(u, s, c, r.heap)
<1>1. ASSUME NEW y, Taken(y, heap) PROVE NoOverlap(r.at, y)
  BY <1>1 DEF Taken, NoOverlap, Grown
<1>2. ASSUME NEW y \in Places, Taken(y, heap) PROVE Taken(y, r.heap)
  <2>1. y.node \in DOMAIN heap /\ heap[y.node].first \in Int
    BY <1>2 DEF Taken, Shape, IsHeap, Memory
  <2>2. y.node \in DOMAIN r.heap /\ r.heap[y.node].first \in Int
    BY <2>1 DEF Grown, IsHeap, Memory
  <2>3. heap[y.node].first <= r.heap[y.node].first
    BY <2>1 DEF Grown
  <2>4. y.off + y.len \in Int /\ y.off + y.len <= heap[y.node].first
    BY <1>2 DEF Taken, Places
  <2> QED
    BY <2>1, <2>2, <2>3, <2>4 DEF Taken
<1>3. \A v \in Seq(Places) : AllTaken(v, heap) => AllTaken(v, r.heap) /\ Free(r.at, v)
  <2> SUFFICES ASSUME NEW v \in Seq(Places), AllTaken(v, heap), NEW k \in 1..Len(v)
               PROVE  Taken(v[k], r.heap) /\ NoOverlap(r.at, v[k])
    BY DEF AllTaken, Free
  <2>1. v[k] \in Places /\ Taken(v[k], heap)
    BY DEF AllTaken
  <2> QED
    BY <1>1, <1>2, <2>1
<1>4. /\ AllTaken(b, r.heap) /\ AllTaken(s, r.heap) /\ AllTaken(c, r.heap)
      /\ Free(r.at, b) /\ Free(r.at, s) /\ Free(r.at, c)
  BY <1>3 DEF Tidy
<1>5. Taken(r.at, r.heap)
  BY DEF Grown, Taken
<1>6. AllTaken(u, r.heap)
  BY <1>4, <1>5, AddsTaken
<1>7. Own(u)
  BY <1>4, AddsOwn DEF Tidy
<1>8. Apart(u, s) /\ Apart(u, c)
  BY <1>4, AddsApart DEF Tidy
<1> QED
  BY <1>4, <1>6, <1>7, <1>8 DEF Tidy

(* The operations on sequences that add a place. *)
LEMMA AddsAppend ==
  ASSUME NEW S, NEW s \in Seq(S), NEW x \in S
  PROVE  Adds(Append(s, x), s, x) /\ Append(s, x) \in Seq(S)
<1>1. PICK t \in Seq(S) : t = Append(s, x)
  <2>1. Append(s, x) \in Seq(S)
    OBVIOUS
  <2> QED
    BY <2>1
<1>2. /\ Len(s) \in Nat /\ Len(t) = Len(s) + 1 /\ t[Len(s) + 1] = x
      /\ \A k \in 1..Len(s) : t[k] = s[k]
  BY <1>1
<1>3. PICK p \in 1..Len(t) : p = Len(s) + 1
  BY <1>2
<1>4. \A k \in 1..Len(t) : (k < p => t[k] = s[k]) /\ ~(p < k)
  BY <1>2, <1>3
<1> QED
  BY <1>1, <1>2, <1>3, <1>4 DEF Adds

(* Putting x in front adds x. *)
LEMMA AddsFront ==
  ASSUME NEW S, NEW s \in Seq(S), NEW x \in S
  PROVE  Adds(<<x>> \o s, s, x) /\ <<x>> \o s \in Seq(S)
<1>1. PICK t \in Seq(S) : t = <<x>> \o s
  <2>1. <<x>> \o s \in Seq(S)
    OBVIOUS
  <2> QED
    BY <2>1
<1>2. /\ Len(s) \in Nat /\ Len(t) = Len(s) + 1 /\ t[1] = x
      /\ \A k \in 1..Len(t) : k # 1 => t[k] = s[k - 1]
  BY <1>1
<1>3. PICK p \in 1..Len(t) : p = 1
  BY <1>2
<1>4. \A k \in 1..Len(t) : ~(k < p) /\ (p < k => t[k] = s[k - 1])
  BY <1>2, <1>3
<1> QED
  BY <1>1, <1>2, <1>3, <1>4 DEF Adds

(* A sequence adds its head to its tail. *)
LEMMA AddsHead ==
  ASSUME NEW S, NEW s \in Seq(S), s # <<>>
  PROVE  Adds(s, Tail(s), Head(s)) /\ Tail(s) \in Seq(S) /\ Head(s) \in S
<1>1. PICK t \in Seq(S) : t = Tail(s)
  <2>1. Tail(s) \in Seq(S)
    OBVIOUS
  <2> QED
    BY <2>1
<1>2. /\ Len(t) \in Nat /\ Len(s) = Len(t) + 1 /\ s[1] = Head(s) /\ Head(s) \in S
      /\ \A k \in 1..Len(t) : t[k] = s[k + 1]
  BY <1>1
<1>3. PICK p \in 1..Len(s) : p = 1
  BY <1>2
<1>4. \A k \in 1..Len(s) : ~(k < p) /\ (p < k => s[k] = t[k - 1])
  <2> SUFFICES ASSUME NEW k \in 1..Len(s), 1 < k PROVE s[k] = t[k - 1]
    BY <1>2, <1>3
  <2>1. k - 1 \in 1..Len(t) /\ (k - 1) + 1 = k
    BY <1>2
  <2> QED
    BY <1>2, <2>1
<1> QED
  BY <1>1, <1>2, <1>3, <1>4 DEF Adds

(* A sequence adds its i-th element to what RemoveAt leaves. *)
LEMMA AddsRemoved ==
  ASSUME NEW S, NEW s \in Seq(S), NEW i \in 1..Len(s)
  PROVE  Adds(s, RemoveAt(s, i), s[i]) /\ RemoveAt(s, i) \in Seq(S)
<1>1. PICK n \in Nat : n = Len(s) /\ i \in 1..n /\ i - 1 \in 0..n
  OBVIOUS
<1>2. PICK f \in Seq(S) : f = SubSeq(s, 1, i - 1) /\ Len(f) = i - 1
                         /\ \A k \in 1..(i - 1) : f[k] = s[k]
  <2>1. SubSeq(s, 1, i - 1) \in Seq(S) /\ Len(SubSeq(s, 1, i - 1)) = i - 1
    BY <1>1
  <2>2. \A k \in 1..(i - 1) : SubSeq(s, 1, i - 1)[k] = s[k]
    BY <1>1
  <2> QED
    BY <2>1, <2>2
<1>3. PICK g \in Seq(S) : g = SubSeq(s, i + 1, n) /\ Len(g) = n - i
                         /\ \A k \in 1..(n - i) : g[k] = s[i + k]
  <2>1. SubSeq(s, i + 1, n) \in Seq(S) /\ Len(SubSeq(s, i + 1, n)) = n - i
    BY <1>1
  <2>2. \A k \in 1..(n - i) : SubSeq(s, i + 1, n)[k] = s[i + k]
    BY <1>1
  <2> QED
    BY <2>1, <2>2
<1>4. PICK t \in Seq(S) : t = f \o g
  <2>1. f \o g \in Seq(S)
    OBVIOUS
  <2> QED
    BY <2>1
<1>5. /\ Len(t) = n - 1 /\ \A k \in 1..(i - 1) : t[k] = f[k]
      /\ \A k \in 1..(n - i) : t[(i - 1) + k] = g[k]
  <2>1. /\ Len(t) = Len(f) + Len(g) /\ \A k \in 1..Len(f) : t[k] = f[k]
        /\ \A k \in 1..Len(g) : t[Len(f) + k] = g[k]
    BY <1>4
  <2>2. Len(f) = i - 1 /\ Len(g) = n - i /\ (i - 1) + (n - i) = n - 1
    BY <1>1, <1>2, <1>3
  <2> QED
    BY <2>1, <2>2
<1>6. ASSUME NEW k \in 1..n, i < k PROVE s[k] = t[k - 1]
  <2>1. PICK l \in 1..(n - i) : (i - 1) + l = k - 1 /\ i + l = k
    <3>1. k - i \in 1..(n - i) /\ (i - 1) + (k - i) = k - 1 /\ i + (k - i) = k
      BY <1>1, <1>6
    <3> QED
      BY <3>1
  <2>2. t[(i - 1) + l] = g[l] /\ g[l] = s[i + l]
    BY <1>3, <1>5
  <2> QED
    BY <2>1, <2>2
<1>7. \A k \in 1..n : k < i => s[k] = t[k]
  BY <1>1, <1>2, <1>5
<1>8. Len(t) \in Nat /\ n = Len(t) + 1
  BY <1>1, <1>5
<1>9. t = RemoveAt(s, i)
  BY <1>1, <1>2, <1>3, <1>4 DEF RemoveAt
<1> QED
  BY <1>1, <1>6, <1>7, <1>8, <1>9 DEF Adds

-----------------------------------------------------------------------------
(* Sums. *)

AvailOf(h) == [n \in DOMAIN h |-> h[n].avail]
SizeOf(h) == [n \in DOMAIN h |-> h[n].size]
PagesOf(h) == [n \in DOMAIN h |-> h[n].pages * PageSize]
SlotsOf(ns) == [i \in 1..MaxPoolSlot |-> i * PageSize * Len(ns[i])]
Lens(s) == [i \in DOMAIN s |-> s[i].len]

Bytes(s) == SumFunction(Lens(s))

(* The sums of two functions, the values of which differ at n alone. *)
OneDiffers(f, g, n) ==
  /\ SumFunction(f) \in Nat /\ SumFunction(g) \in Nat
  /\ n \in DOMAIN f => SumFunction(g) + f[n] = SumFunction(f) + g[n]
  /\ n \notin DOMAIN f => SumFunction(g) = SumFunction(f) + g[n]

(* One value of a function that changes, or that is new. *)
LEMMA TotalOne ==
  ASSUME NEW f, NEW g, NEW n, IsFiniteSet(DOMAIN f), DOMAIN g = DOMAIN f \cup {n},
         \A k \in DOMAIN f : f[k] \in Nat, \A k \in DOMAIN g : g[k] \in Nat,
         \A k \in DOMAIN f : k # n => g[k] = f[k]
  PROVE  OneDiffers(f, g, n)
<1>1. PICK S : S = DOMAIN f /\ IsFiniteSet(S) /\ IsFiniteSet(S \cup {n})
  BY FS_AddElement
<1>2. /\ SumFunction(f) = SumFunctionOnSet(f, S)
      /\ SumFunction(g) = SumFunctionOnSet(g, S \cup {n})
  BY <1>1 DEF SumFunction
<1>3. SumFunctionOnSet(f, S) \in Nat
  <2>1. \A k \in S : f[k] \in Nat /\ f[k] = f[k]
    BY <1>1
  <2> QED
    BY <1>1, <2>1, SumAgrees
<1>4. SumFunctionOnSet(g, S \cup {n}) \in Nat
  <2>1. \A k \in S \cup {n} : g[k] \in Nat /\ g[k] = g[k]
    BY <1>1
  <2> QED
    BY <1>1, <2>1, SumAgrees
<1>5. ASSUME n \in S PROVE SumFunctionOnSet(g, S) + f[n] = SumFunctionOnSet(f, S) + g[n]
  <2>1. (\A k \in S : f[k] \in Nat /\ g[k] \in Nat) /\ \A k \in S : k # n => g[k] = f[k]
    BY <1>1
  <2> QED
    BY <1>1, <1>5, <2>1, SumChange
<1>6. ASSUME n \notin S PROVE SumFunctionOnSet(g, S \cup {n}) = SumFunctionOnSet(f, S) + g[n]
  <2>1. (\A k \in S : g[k] \in Nat) /\ g[n] \in Nat
    BY <1>1
  <2>2. SumFunctionOnSet(g, S \cup {n}) = g[n] + SumFunctionOnSet(g, S)
    BY <1>1, <1>6, <2>1, SumAdd
  <2>3. (\A k \in S : f[k] \in Nat) /\ \A k \in S : g[k] = f[k]
    BY <1>1, <1>6
  <2>4. SumFunctionOnSet(f, S) = SumFunctionOnSet(g, S)
    BY <1>1, <2>3, SumAgrees
  <2> QED
    BY <1>3, <2>1, <2>2, <2>4
<1>7. n \in S => S \cup {n} = S
  OBVIOUS
<1> QED
  BY <1>1, <1>2, <1>3, <1>4, <1>5, <1>6, <1>7 DEF OneDiffers

(* What the sums of a pool's memory range over. *)
LEMMA HeapSums ==
  ASSUME NEW h, IsHeap(h)
  PROVE  /\ IsFiniteSet(DOMAIN h)
         /\ DOMAIN AvailOf(h) = DOMAIN h /\ DOMAIN SizeOf(h) = DOMAIN h /\ DOMAIN PagesOf(h) = DOMAIN h
         /\ \A n \in DOMAIN h : /\ AvailOf(h)[n] \in Nat /\ AvailOf(h)[n] = h[n].avail
                                /\ SizeOf(h)[n] \in Nat /\ SizeOf(h)[n] = h[n].size
                                /\ PagesOf(h)[n] \in Nat /\ PagesOf(h)[n] = h[n].pages * PageSize
<1>1. MaxNodes \in Nat /\ IsFiniteSet(1..MaxNodes)
  BY PoolBoundsAssumption, FS_Interval
<1>2. IsFiniteSet(DOMAIN h)
  BY <1>1, FS_Subset DEF IsHeap
<1>3. \A n \in DOMAIN h : h[n].avail \in Nat /\ h[n].size \in Nat /\ h[n].pages \in Nat
  <2>1. \A m \in Memory : m.avail \in Nat /\ m.size \in Nat /\ m.pages \in Nat
    BY Sizes DEF Memory
  <2> QED
    BY <2>1 DEF IsHeap
<1>4. \A n \in DOMAIN h : h[n].pages * PageSize \in Nat
  BY <1>3, Sizes
<1> QED
  BY <1>2, <1>3, <1>4 DEF AvailOf, SizeOf, PagesOf

(* Every node is on the list of its size: the lists tell how much the pool *)
(* took from malloc.                                                       *)
InPages(ns, h) == SumFunction(SlotsOf(ns)) = SumFunction(PagesOf(h))

(* A node more on a list counts there with its pages. *)
LEMMA LongerSum ==
  ASSUME NEW ns \in NodeLists, NEW ms \in NodeLists, NEW index \in Nat, index < MaxPoolSlot,
         Longer(ns, ms, index)
  PROVE  /\ SumFunction(SlotsOf(ns)) \in Nat
         /\ SumFunction(SlotsOf(ms)) = SumFunction(SlotsOf(ns)) + (index + 1) * PageSize
<1>1. PICK i \in 1..MaxPoolSlot : i = index + 1
  BY Sizes
<1>2. PICK f, g : f = SlotsOf(ns) /\ g = SlotsOf(ms)
  OBVIOUS
<1>3. /\ DOMAIN f = 1..MaxPoolSlot /\ DOMAIN g = 1..MaxPoolSlot
      /\ \A k \in 1..MaxPoolSlot : f[k] = k * PageSize * Len(ns[k]) /\ g[k] = k * PageSize * Len(ms[k])
  BY <1>2 DEF SlotsOf
<1>4. \A k \in 1..MaxPoolSlot : Len(ns[k]) \in Nat /\ Len(ms[k]) \in Nat
  BY DEF NodeLists
<1>5. \A k \in 1..MaxPoolSlot : f[k] \in Nat /\ g[k] \in Nat
  <2> SUFFICES ASSUME NEW k \in 1..MaxPoolSlot PROVE f[k] \in Nat /\ g[k] \in Nat
    OBVIOUS
  <2>1. PICK a \in Nat, b \in Nat : a = Len(ns[k]) /\ b = Len(ms[k])
    BY <1>4
  <2>2. PICK c \in Nat : c = k * PageSize
    BY Sizes
  <2> QED
    BY <1>3, <2>1, <2>2
<1>6. \A k \in 1..MaxPoolSlot : k # i => g[k] = f[k]
  BY <1>1, <1>3 DEF Longer
<1>7. g[i] = f[i] + i * PageSize
  <2>1. PICK a \in Nat : a = Len(ns[i]) /\ Len(ms[i]) = a + 1
    BY <1>1, <1>4 DEF Longer
  <2>2. PICK c \in Nat : c = i * PageSize
    BY Sizes
  <2>3. c * (a + 1) = c * a + c
    OBVIOUS
  <2> QED
    BY <1>3, <2>1, <2>2, <2>3
<1>8. IsFiniteSet(DOMAIN f) /\ DOMAIN g = DOMAIN f \cup {i} /\ i \in DOMAIN f
  <2>1. IsFiniteSet(1..MaxPoolSlot)
    BY Sizes, FS_Interval
  <2> QED
    BY <1>3, <2>1
<1>9. /\ SumFunction(f) \in Nat /\ SumFunction(g) \in Nat
      /\ SumFunction(g) + f[i] = SumFunction(f) + g[i]
  <2>1. OneDiffers(f, g, i)
    BY <1>3, <1>5, <1>6, <1>8, TotalOne
  <2> QED
    BY <1>8, <2>1 DEF OneDiffers
<1>10. f[i] \in Nat /\ i * PageSize \in Nat
  BY <1>5, Sizes
<1>11. SumFunction(g) = SumFunction(f) + i * PageSize
  BY <1>7, <1>9, <1>10
<1> QED
  BY <1>1, <1>2, <1>9, <1>11

(* Empty lists count nothing. *)
LEMMA SlotsEmpty ==
  ASSUME NEW ns \in NodeLists, \A i \in 1..MaxPoolSlot : ToSet(ns[i]) = {}
  PROVE  SumFunction(SlotsOf(ns)) = 0
<1>1. \A i \in 1..MaxPoolSlot : Len(ns[i]) = 0
  <2> SUFFICES ASSUME NEW i \in 1..MaxPoolSlot PROVE Len(ns[i]) = 0
    OBVIOUS
  <2>1. PICK t \in Seq(1..MaxNodes) : t = ns[i] /\ ToSet(t) = {}
    BY DEF NodeLists
  <2>2. Len(t) \in Nat /\ DOMAIN t = 1..Len(t)
    OBVIOUS
  <2>3. ~(1 \in 1..Len(t))
    BY <2>1, <2>2 DEF ToSet
  <2> QED
    BY <2>1, <2>2, <2>3
<1>2. PICK f : f = SlotsOf(ns)
  OBVIOUS
<1>3. DOMAIN f = 1..MaxPoolSlot /\ \A i \in 1..MaxPoolSlot : f[i] = 0
  <2>1. \A i \in 1..MaxPoolSlot : i * PageSize \in Nat /\ i * PageSize * 0 = 0
    BY Sizes
  <2> QED
    BY <1>1, <1>2, <2>1 DEF SlotsOf
<1>4. IsFiniteSet(1..MaxPoolSlot)
  BY Sizes, FS_Interval
<1>5. SumFunctionOnSet(f, 1..MaxPoolSlot) = 0
  BY <1>3, <1>4, SumZero
<1> QED
  BY <1>2, <1>3, <1>5 DEF SumFunction

(* Taking a block leaves its length less available, or adds a node with    *)
(* that much less available than it has.                                   *)
LEMMA Weighed ==
  ASSUME Shape, NEW size \in Nat, NEW r, IsHeap(r.heap), r.nodes \in NodeLists, NEW n,
         CarvedOld(r, n, size) \/ CarvedNew(r, n, size)
  PROVE  /\ SumFunction(AvailOf(heap)) \in Nat /\ SumFunction(SizeOf(heap)) \in Nat
         /\ SumFunction(AvailOf(r.heap)) \in Nat /\ SumFunction(SizeOf(r.heap)) \in Nat
         /\ SumFunction(AvailOf(r.heap)) + size + SumFunction(SizeOf(heap))
              = SumFunction(SizeOf(r.heap)) + SumFunction(AvailOf(heap))
         /\ SlotIndex(size) < MaxPoolSlot /\ InPages(nodes, heap) => InPages(r.nodes, r.heap)
<1>1. PICK a, b, c : a = AvailOf(heap) /\ b = SizeOf(heap) /\ c = PagesOf(heap)
  OBVIOUS
<1>2. PICK d, e, f : d = AvailOf(r.heap) /\ e = SizeOf(r.heap) /\ f = PagesOf(r.heap)
  OBVIOUS
<1>3. /\ IsFiniteSet(DOMAIN heap) /\ DOMAIN a = DOMAIN heap /\ DOMAIN b = DOMAIN heap
      /\ DOMAIN c = DOMAIN heap
      /\ \A k \in DOMAIN heap : /\ a[k] \in Nat /\ a[k] = heap[k].avail
                                /\ b[k] \in Nat /\ b[k] = heap[k].size
                                /\ c[k] \in Nat /\ c[k] = heap[k].pages * PageSize
  BY <1>1, HeapSums DEF Shape
<1>4. /\ DOMAIN d = DOMAIN r.heap /\ DOMAIN e = DOMAIN r.heap /\ DOMAIN f = DOMAIN r.heap
      /\ \A k \in DOMAIN r.heap : /\ d[k] \in Nat /\ d[k] = r.heap[k].avail
                                  /\ e[k] \in Nat /\ e[k] = r.heap[k].size
                                  /\ f[k] \in Nat /\ f[k] = r.heap[k].pages * PageSize
  BY <1>2, HeapSums
<1>5. Carved(r, n, size)
  BY DEF CarvedOld, CarvedNew
<1>6. /\ DOMAIN r.heap = DOMAIN heap \cup {n} /\ n \in DOMAIN r.heap
      /\ \A k \in DOMAIN heap : k # n => r.heap[k] = heap[k]
  BY <1>5 DEF Carved
<1>7. \A k \in DOMAIN heap : k # n => d[k] = a[k] /\ e[k] = b[k] /\ f[k] = c[k]
  BY <1>3, <1>4, <1>6
<1>8. /\ SumFunction(a) \in Nat /\ SumFunction(d) \in Nat
      /\ n \in DOMAIN heap => SumFunction(d) + a[n] = SumFunction(a) + d[n]
      /\ n \notin DOMAIN heap => SumFunction(d) = SumFunction(a) + d[n]
  <2>1. /\ IsFiniteSet(DOMAIN a) /\ DOMAIN d = DOMAIN a \cup {n}
        /\ (\A k \in DOMAIN a : a[k] \in Nat) /\ (\A k \in DOMAIN d : d[k] \in Nat)
        /\ \A k \in DOMAIN a : k # n => d[k] = a[k]
    BY <1>3, <1>4, <1>6, <1>7
  <2>2. OneDiffers(a, d, n)
    BY <2>1, TotalOne
  <2> QED
    BY <1>3, <2>2 DEF OneDiffers
<1>9. /\ SumFunction(b) \in Nat /\ SumFunction(e) \in Nat
      /\ n \in DOMAIN heap => SumFunction(e) + b[n] = SumFunction(b) + e[n]
      /\ n \notin DOMAIN heap => SumFunction(e) = SumFunction(b) + e[n]
  <2>1. /\ IsFiniteSet(DOMAIN b) /\ DOMAIN e = DOMAIN b \cup {n}
        /\ (\A k \in DOMAIN b : b[k] \in Nat) /\ (\A k \in DOMAIN e : e[k] \in Nat)
        /\ \A k \in DOMAIN b : k # n => e[k] = b[k]
    BY <1>3, <1>4, <1>6, <1>7
  <2>2. OneDiffers(b, e, n)
    BY <2>1, TotalOne
  <2> QED
    BY <1>3, <2>2 DEF OneDiffers
<1>10. /\ SumFunction(c) \in Nat /\ SumFunction(f) \in Nat
       /\ n \in DOMAIN heap => SumFunction(f) + c[n] = SumFunction(c) + f[n]
       /\ n \notin DOMAIN heap => SumFunction(f) = SumFunction(c) + f[n]
  <2>1. /\ IsFiniteSet(DOMAIN c) /\ DOMAIN f = DOMAIN c \cup {n}
        /\ (\A k \in DOMAIN c : c[k] \in Nat) /\ (\A k \in DOMAIN f : f[k] \in Nat)
        /\ \A k \in DOMAIN c : k # n => f[k] = c[k]
    BY <1>3, <1>4, <1>6, <1>7
  <2>2. OneDiffers(c, f, n)
    BY <2>1, TotalOne
  <2> QED
    BY <1>3, <2>2 DEF OneDiffers
<1>11. d[n] \in Nat /\ e[n] \in Nat /\ f[n] \in Nat
  BY <1>4, <1>6
<1>12. CASE CarvedOld(r, n, size)
  <2>1. n \in DOMAIN heap /\ d[n] + size = a[n] /\ e[n] = b[n] /\ f[n] = c[n] /\ r.nodes = nodes
    BY <1>3, <1>4, <1>6, <1>12 DEF CarvedOld
  <2>2. SumFunction(e) = SumFunction(b) /\ SumFunction(f) = SumFunction(c)
    BY <1>9, <1>10, <1>11, <2>1
  <2>3. SumFunction(d) + size = SumFunction(a)
    BY <1>8, <1>11, <2>1
  <2>4. SumFunction(d) + size + SumFunction(b) = SumFunction(e) + SumFunction(a)
    BY <1>8, <1>9, <2>2, <2>3
  <2>5. InPages(nodes, heap) => InPages(r.nodes, r.heap)
    BY <1>1, <1>2, <2>1, <2>2 DEF InPages
  <2> QED
    BY <1>1, <1>2, <1>8, <1>9, <2>4, <2>5
<1>13. CASE CarvedNew(r, n, size)
  <2>1. /\ n \notin DOMAIN heap /\ d[n] + size = e[n] /\ f[n] = (SlotIndex(size) + 1) * PageSize
        /\ Longer(nodes, r.nodes, SlotIndex(size))
    BY <1>4, <1>6, <1>13 DEF CarvedNew
  <2>2. SumFunction(d) + size + SumFunction(b) = SumFunction(e) + SumFunction(a)
    BY <1>8, <1>9, <1>11, <2>1
  <2>3. ASSUME SlotIndex(size) < MaxPoolSlot, InPages(nodes, heap) PROVE InPages(r.nodes, r.heap)
    <3>1. SumFunction(SlotsOf(r.nodes)) = SumFunction(SlotsOf(nodes)) + f[n]
      <4>1. SlotIndex(size) \in Nat /\ nodes \in NodeLists
        BY Pages DEF Shape
      <4> QED
        BY <2>1, <2>3, <4>1, LongerSum
    <3>2. SumFunction(SlotsOf(nodes)) = SumFunction(c) /\ SumFunction(f) = SumFunction(c) + f[n]
      BY <1>1, <1>10, <2>1, <2>3 DEF InPages
    <3> QED
      BY <1>2, <3>1, <3>2 DEF InPages
  <2> QED
    BY <1>1, <1>2, <1>8, <1>9, <2>2, <2>3
<1> QED
  BY <1>12, <1>13

(* The lengths of a sequence of places are numbers. *)
LEMMA LensAre ==
  ASSUME NEW s \in Seq(Places)
  PROVE  /\ DOMAIN Lens(s) = 1..Len(s) /\ Len(s) \in Nat /\ IsFiniteSet(1..Len(s))
         /\ \A i \in 1..Len(s) : Lens(s)[i] \in Nat /\ Lens(s)[i] = s[i].len
         /\ Bytes(s) = SumFunctionOnSet(Lens(s), 1..Len(s)) /\ Bytes(s) \in Nat
<1>1. Len(s) \in Nat /\ DOMAIN s = 1..Len(s) /\ \A i \in 1..Len(s) : s[i] \in Places
  OBVIOUS
<1>2. \A x \in Places : x.len \in Nat
  BY Sizes DEF Places
<1>3. PICK f : f = Lens(s)
  OBVIOUS
<1>4. DOMAIN f = 1..Len(s) /\ \A i \in 1..Len(s) : f[i] \in Nat /\ f[i] = s[i].len
  BY <1>1, <1>2, <1>3 DEF Lens
<1>5. IsFiniteSet(1..Len(s))
  BY <1>1, FS_Interval
<1>6. Bytes(s) = SumFunctionOnSet(f, 1..Len(s))
  BY <1>3, <1>4 DEF Bytes, SumFunction
<1>7. \A i \in 1..Len(s) : f[i] = f[i]
  OBVIOUS
<1>8. SumFunctionOnSet(f, 1..Len(s)) \in Nat
  BY <1>4, <1>5, <1>7, SumAgrees
<1> QED
  BY <1>1, <1>3, <1>4, <1>5, <1>6, <1>8

(* Nothing takes no bytes. *)
LEMMA BytesEmpty == Bytes(<<>>) = 0
<1>1. <<>> \in Seq(Places) /\ 1..Len(<<>>) = {}
  OBVIOUS
<1>2. Bytes(<<>>) = SumFunctionOnSet(Lens(<<>>), {})
  BY <1>1, LensAre
<1> QED
  BY <1>2, SumEmpty

(* A place more takes its length more. *)
LEMMA AddsBytes ==
  ASSUME NEW s \in Seq(Places), NEW t \in Seq(Places), NEW x, Adds(t, s, x)
  PROVE  Bytes(t) = Bytes(s) + x.len /\ Bytes(s) \in Nat /\ x.len \in Nat
<1>1. PICK p \in 1..Len(t) :
        /\ t[p] = x
        /\ \A k \in 1..Len(t) : (k < p => t[k] = s[k]) /\ (p < k => t[k] = s[k - 1])
  BY DEF Adds
<1>2. Len(s) \in Nat /\ Len(t) = Len(s) + 1
  BY DEF Adds
<1>3. PICK f, g : f = Lens(s) /\ g = Lens(t)
  OBVIOUS
<1>4. /\ IsFiniteSet(1..Len(s)) /\ \A i \in 1..Len(s) : f[i] \in Nat /\ f[i] = s[i].len
      /\ Bytes(s) = SumFunctionOnSet(f, 1..Len(s)) /\ Bytes(s) \in Nat
  BY <1>3, LensAre
<1>5. /\ IsFiniteSet(1..Len(t)) /\ \A i \in 1..Len(t) : g[i] \in Nat /\ g[i] = t[i].len
      /\ Bytes(t) = SumFunctionOnSet(g, 1..Len(t))
  BY <1>3, LensAre
<1>6. PICK m : m = [k \in 1..Len(s) |-> IF k < p THEN k ELSE k + 1]
  OBVIOUS
<1>7. \A k \in 1..Len(s) : m[k] \in 1..Len(t) /\ m[k] # p /\ t[m[k]] = s[k]
  <2> SUFFICES ASSUME NEW k \in 1..Len(s)
               PROVE  m[k] \in 1..Len(t) /\ m[k] # p /\ t[m[k]] = s[k]
    OBVIOUS
  <2>1. CASE k < p
    BY <1>1, <1>2, <1>6, <2>1
  <2>2. CASE ~(k < p)
    <3>1. m[k] = k + 1 /\ k + 1 \in 1..Len(t) /\ p < k + 1 /\ (k + 1) - 1 = k
      BY <1>2, <1>6, <2>2
    <3>2. t[k + 1] = s[(k + 1) - 1]
      BY <1>1, <3>1
    <3> QED
      BY <3>1, <3>2
  <2> QED
    BY <2>1, <2>2
<1>8. \A k, l \in 1..Len(s) : k # l => m[k] # m[l]
  BY <1>2, <1>6
<1>9. ImageOf(m, 1..Len(s)) = (1..Len(t)) \ {p}
  <2>1. ASSUME NEW l \in (1..Len(t)) \ {p} PROVE \E k \in 1..Len(s) : l = m[k]
    <3>1. CASE l < p
      <4>1. l \in 1..Len(s) /\ m[l] = l
        BY <1>2, <1>6, <3>1
      <4> QED
        BY <4>1
    <3>2. CASE ~(l < p)
      <4>1. l - 1 \in 1..Len(s) /\ m[l - 1] = l
        BY <1>2, <1>6, <3>2
      <4> QED
        BY <4>1
    <3> QED
      BY <3>1, <3>2
  <2> QED
    BY <1>7, <2>1 DEF ImageOf
<1>10. \A k \in 1..Len(s) : g[m[k]] \in Nat /\ f[k] = g[m[k]]
  <2> SUFFICES ASSUME NEW k \in 1..Len(s) PROVE g[m[k]] \in Nat /\ f[k] = g[m[k]]
    OBVIOUS
  <2>1. PICK l \in 1..Len(t) : l = m[k] /\ t[l] = s[k]
    BY <1>7
  <2>2. g[l] \in Nat /\ g[l] = t[l].len
    BY <1>5
  <2>3. f[k] = s[k].len
    BY <1>4
  <2> QED
    BY <2>1, <2>2, <2>3
<1>11. SumFunctionOnSet(g, (1..Len(t)) \ {p}) = Bytes(s)
  <2>1. SumFunctionOnSet(g, ImageOf(m, 1..Len(s))) = SumFunctionOnSet(f, 1..Len(s))
    <3>1. Renames(m, 1..Len(s), g, f)
      BY <1>8, <1>10 DEF Renames
    <3> QED
      BY <1>4, <3>1, SumMoved
  <2> QED
    BY <1>4, <1>9, <2>1
<1>12. Bytes(t) = g[p] + SumFunctionOnSet(g, (1..Len(t)) \ {p})
  BY <1>5, SumRemove
<1>13. g[p] = x.len /\ g[p] \in Nat
  BY <1>1, <1>5
<1> QED
  BY <1>4, <1>11, <1>12, <1>13

(* Sequences of places one after the other. *)
LEMMA BytesJoined ==
  ASSUME NEW s \in Seq(Places), NEW t \in Seq(Places)
  PROVE  Bytes(s \o t) = Bytes(s) + Bytes(t)
<1> DEFINE T == {u \in Seq(Places) : Bytes(s \o u) = Bytes(s) + Bytes(u)}
<1>1. <<>> \in T
  <2>1. s \o <<>> = s /\ Bytes(s) \in Nat /\ <<>> \in Seq(Places)
    BY LensAre
  <2> QED
    BY <2>1, BytesEmpty
<1>2. ASSUME NEW u \in Seq(Places), NEW x \in Places, u \in T PROVE Append(u, x) \in T
  <2>1. s \o u \in Seq(Places) /\ s \o Append(u, x) = Append(s \o u, x)
    OBVIOUS
  <2>2. Adds(Append(s \o u, x), s \o u, x) /\ Append(s \o u, x) \in Seq(Places)
    BY <2>1, AddsAppend
  <2>3. Bytes(Append(s \o u, x)) = Bytes(s \o u) + x.len /\ x.len \in Nat
    BY <2>1, <2>2, AddsBytes
  <2>4. Adds(Append(u, x), u, x) /\ Append(u, x) \in Seq(Places)
    BY AddsAppend
  <2>5. Bytes(Append(u, x)) = Bytes(u) + x.len
    BY <2>4, AddsBytes
  <2>6. Bytes(s) \in Nat /\ Bytes(u) \in Nat
    BY LensAre
  <2>7. Bytes(s \o u) = Bytes(s) + Bytes(u)
    BY <1>2
  <2>8. Bytes(s \o Append(u, x)) = Bytes(s) + Bytes(Append(u, x))
    BY <2>1, <2>3, <2>5, <2>6, <2>7
  <2> QED
    BY <2>4, <2>8
<1>3. \A u \in Seq(Places) : u \in T
  <2> HIDE DEF T
  <2> QED
    BY <1>1, <1>2, SeqClosed
<1> QED
  BY <1>3

(* What is available adds up to a number. *)
LEMMA AvailSum == ASSUME NEW h, IsHeap(h) PROVE SumFunction(AvailOf(h)) \in Nat
<1>1. PICK f : f = AvailOf(h)
  OBVIOUS
<1>2. IsFiniteSet(DOMAIN f) /\ \A k \in DOMAIN f : f[k] \in Nat /\ f[k] = f[k]
  BY <1>1, HeapSums
<1>3. SumFunctionOnSet(f, DOMAIN f) \in Nat
  BY <1>2, SumAgrees
<1> QED
  BY <1>1, <1>3 DEF SumFunction

(* What is available and what is in use add up to the memory. *)
Fits(h, b, s, c) ==
  SumFunction(AvailOf(h)) + Bytes(b) + Bytes(s) + Bytes(c) = SumFunction(SizeOf(h))

(* A new block fits. *)
LEMMA FitsNew ==
  ASSUME Shape, NEW size \in Nat, NEW r, Grown(r), NEW n,
         CarvedOld(r, n, size) \/ CarvedNew(r, n, size),
         NEW b \in Seq(Places), NEW s \in Seq(Places), NEW c \in Seq(Places),
         NEW u \in Seq(Places), Adds(u, b, r.at), Fits(heap, b, s, c)
  PROVE  Fits(r.heap, u, s, c)
<1>1. r.at.len = size
  BY DEF CarvedOld, CarvedNew, Carved
<1>2. Bytes(u) = Bytes(b) + size /\ Bytes(b) \in Nat /\ Bytes(s) \in Nat /\ Bytes(c) \in Nat
  BY <1>1, AddsBytes, LensAre
<1>3. /\ SumFunction(AvailOf(heap)) \in Nat /\ SumFunction(SizeOf(heap)) \in Nat
      /\ SumFunction(AvailOf(r.heap)) \in Nat /\ SumFunction(SizeOf(r.heap)) \in Nat
      /\ SumFunction(AvailOf(r.heap)) + size + SumFunction(SizeOf(heap))
           = SumFunction(SizeOf(r.heap)) + SumFunction(AvailOf(heap))
  BY Weighed DEF Grown
<1>4. SumFunction(AvailOf(heap)) + Bytes(b) + Bytes(s) + Bytes(c) = SumFunction(SizeOf(heap))
  BY DEF Fits
<1>5. SumFunction(AvailOf(r.heap)) + Bytes(u) + Bytes(s) + Bytes(c) = SumFunction(SizeOf(r.heap))
  <2>1. PICK x \in Nat, y \in Nat, z \in Nat, w \in Nat :
          /\ x = SumFunction(AvailOf(heap)) /\ y = SumFunction(SizeOf(heap))
          /\ z = SumFunction(AvailOf(r.heap)) /\ w = SumFunction(SizeOf(r.heap))
    BY <1>3
  <2>2. PICK i \in Nat, j \in Nat, k \in Nat : i = Bytes(b) /\ j = Bytes(s) /\ k = Bytes(c)
    BY <1>2
  <2>3. z + size + y = w + x /\ x + i + j + k = y
    BY <1>3, <1>4, <2>1, <2>2
  <2>4. z + (i + size) + j + k = w
    BY <2>3
  <2> QED
    BY <1>2, <2>1, <2>2, <2>4
<1> QED
  BY <1>5 DEF Fits

(* A record that goes from one list to the other takes its bytes along. *)
LEMMA FitsMove ==
  ASSUME NEW h, IsHeap(h), NEW b \in Seq(Places), NEW s \in Seq(Places), NEW c \in Seq(Places),
         NEW u \in Seq(Places), NEW d \in Seq(Places), NEW x, Adds(s, u, x), Adds(d, c, x)
  PROVE  Fits(h, b, s, c) <=> Fits(h, b, u, d)
<1>1. Bytes(s) = Bytes(u) + x.len /\ Bytes(u) \in Nat /\ x.len \in Nat
  BY AddsBytes
<1>2. Bytes(d) = Bytes(c) + x.len /\ Bytes(c) \in Nat
  BY AddsBytes
<1>3. Bytes(b) \in Nat
  BY LensAre
<1>4. SumFunction(AvailOf(h)) \in Nat
  BY AvailSum
<1>5. PICK i \in Nat, j \in Nat, k \in Nat, l \in Nat, a \in Nat :
        i = Bytes(b) /\ j = Bytes(u) /\ k = Bytes(c) /\ l = x.len /\ a = SumFunction(AvailOf(h))
  BY <1>1, <1>2, <1>3, <1>4
<1>6. a + i + (j + l) + k = a + i + j + (k + l)
  OBVIOUS
<1> QED
  BY <1>1, <1>2, <1>5, <1>6 DEF Fits

(* The three lists play the same part in Fits. *)
LEMMA FitsSwap ==
  ASSUME NEW h, IsHeap(h), NEW b \in Seq(Places), NEW s \in Seq(Places), NEW c \in Seq(Places)
  PROVE  Fits(h, b, s, c) <=> Fits(h, c, s, b)
<1>1. Bytes(b) \in Nat /\ Bytes(s) \in Nat /\ Bytes(c) \in Nat /\ SumFunction(AvailOf(h)) \in Nat
  BY LensAre, AvailSum
<1> QED
  BY <1>1 DEF Fits

(* Nothing is in use where all of every node is available. *)
LEMMA FitsEmpty ==
  ASSUME NEW h, IsHeap(h), \A n \in DOMAIN h : h[n].avail = h[n].size
  PROVE  Fits(h, <<>>, <<>>, <<>>)
<1>1. AvailOf(h) = SizeOf(h)
  BY DEF AvailOf, SizeOf
<1>2. SumFunction(AvailOf(h)) \in Nat
  BY AvailSum
<1> QED
  BY <1>1, <1>2, BytesEmpty DEF Fits

-----------------------------------------------------------------------------
(* The records of cleanups. *)

Cleanups == Seq([at : Places, data : Nat])

RecordsOf(c) == [i \in DOMAIN c |-> c[i].at]

(* The records of a list of cleanups are the places of its elements. *)
LEMMA RecordsAre ==
  ASSUME NEW c \in Cleanups
  PROVE  /\ RecordsOf(c) \in Seq(Places) /\ Len(RecordsOf(c)) = Len(c) /\ Len(c) \in Nat
         /\ \A i \in 1..Len(c) : RecordsOf(c)[i] = c[i].at /\ c[i].at \in Places
<1>1. PICK n \in Nat : n = Len(c) /\ DOMAIN c = 1..n /\ \A i \in 1..n : c[i] \in [at : Places, data : Nat]
  <2>1. PICK R : R = [at : Places, data : Nat] /\ c \in Seq(R)
    BY DEF Cleanups
  <2>2. c \in Seq(R)
    BY <2>1
  <2>3. Len(c) \in Nat /\ DOMAIN c = 1..Len(c) /\ \A i \in 1..Len(c) : c[i] \in R
    BY <2>2
  <2> QED
    BY <2>1, <2>3
<1>2. \A i \in 1..n : c[i].at \in Places
  BY <1>1
<1>3. RecordsOf(c) \in [1..n -> Places]
  BY <1>1, <1>2 DEF RecordsOf
<1>4. RecordsOf(c) \in Seq(Places) /\ Len(RecordsOf(c)) = n
  BY <1>3
<1> QED
  BY <1>1, <1>2, <1>4 DEF RecordsOf

(* One cleanup more, one record more. *)
LEMMA AddsRecord ==
  ASSUME NEW c \in Cleanups, NEW d \in Cleanups, NEW x, Adds(d, c, x)
  PROVE  Adds(RecordsOf(d), RecordsOf(c), x.at)
<1>1. /\ Len(c) \in Nat /\ Len(d) = Len(c) + 1
      /\ Len(RecordsOf(c)) = Len(c) /\ Len(RecordsOf(d)) = Len(d)
      /\ \A i \in 1..Len(c) : RecordsOf(c)[i] = c[i].at
      /\ \A i \in 1..Len(d) : RecordsOf(d)[i] = d[i].at
  BY RecordsAre DEF Adds
<1>2. PICK p \in 1..Len(d) :
        /\ d[p] = x
        /\ \A k \in 1..Len(d) : (k < p => d[k] = c[k]) /\ (p < k => d[k] = c[k - 1])
  BY DEF Adds
<1>3. \A k \in 1..Len(d) : (k < p => k \in 1..Len(c)) /\ (p < k => k - 1 \in 1..Len(c))
  BY <1>1
<1>4. \A k \in 1..Len(d) : /\ k < p => RecordsOf(d)[k] = RecordsOf(c)[k]
                           /\ p < k => RecordsOf(d)[k] = RecordsOf(c)[k - 1]
  BY <1>1, <1>2, <1>3
<1>5. RecordsOf(d)[p] = x.at
  BY <1>1, <1>2
<1> QED
  BY <1>1, <1>4, <1>5 DEF Adds

(* Every node is in a list. *)
Reached(ns, h) == \A n \in DOMAIN h : \E i \in 1..MaxPoolSlot : n \in ToSet(ns[i])

(* The blocks malloc gave have a cleanup that frees them. *)
Covered(c, l) == \A b \in l : \E i \in 1..Len(c) : c[i].data = b

(* What a registration changes. *)
LEMMA AddCleanupIs ==
  ASSUME Shape, status = "live", NEW d \in Nat, AddCleanup(d)
  PROVE  /\ nodes' \in NodeLists /\ parent' \in 0..MaxNodes /\ IsHeap(heap')
         /\ Listed(nodes', heap') /\ cleanups' \in Cleanups /\ spare' \in Seq(Places)
         /\ Tidy(blocks, spare, Records, heap) => Tidy(blocks, spare', Records', heap')
         /\ Reached(nodes, heap) => Reached(nodes', heap')
         /\ Covered(cleanups, large) => Covered(cleanups', large \cup {d})
         /\ Fits(heap, blocks, spare, Records) => Fits(heap', blocks, spare', Records')
         /\ InPages(nodes, heap) => InPages(nodes', heap')
<1>1. /\ cleanups \in Cleanups /\ spare \in Seq(Places) /\ blocks \in Seq(Places)
      /\ Listed(nodes, heap) /\ Records = RecordsOf(cleanups) /\ Records \in Seq(Places)
      /\ Records' = RecordsOf(cleanups')
  BY RecordsAre DEF Shape, Cleanups, Records, RecordsOf
<1>2. ASSUME NEW x \in Places, cleanups' = <<[at |-> x, data |-> d]>> \o cleanups
      PROVE  /\ cleanups' \in Cleanups /\ Adds(Records', Records, x)
             /\ Covered(cleanups, large) => Covered(cleanups', large \cup {d})
  <2>1. PICK v \in [at : Places, data : Nat] : v = [at |-> x, data |-> d]
    OBVIOUS
  <2>2. cleanups' = <<v>> \o cleanups
    BY <1>2, <2>1
  <2>3. Adds(cleanups', cleanups, v) /\ cleanups' \in Cleanups
    BY <1>1, <2>2, AddsFront DEF Cleanups
  <2>4. v.at = x /\ v.data = d
    BY <2>1
  <2>5. Adds(Records', Records, x)
    BY <1>1, <2>3, <2>4, AddsRecord
  <2>6. /\ \E p \in 1..Len(cleanups') : cleanups'[p] = v
        /\ \A k \in 1..Len(cleanups) : \E l \in 1..Len(cleanups') : cleanups'[l] = cleanups[k]
    BY <2>3, AddsIs
  <2>7. Covered(cleanups, large) => Covered(cleanups', large \cup {d})
    BY <2>4, <2>6 DEF Covered
  <2> QED
    BY <2>3, <2>5, <2>7
<1>3. CASE spare # <<>>
  <2>1. /\ cleanups' = <<[at |-> Head(spare), data |-> d]>> \o cleanups
        /\ spare' = Tail(spare) /\ UNCHANGED <<nodes, parent, heap>>
    BY <1>3 DEF AddCleanup
  <2>2. Adds(spare, spare', Head(spare)) /\ spare' \in Seq(Places) /\ Head(spare) \in Places
    BY <1>1, <1>3, <2>1, AddsHead
  <2>3. /\ cleanups' \in Cleanups /\ Adds(Records', Records, Head(spare))
        /\ Covered(cleanups, large) => Covered(cleanups', large \cup {d})
    BY <1>2, <2>1, <2>2
  <2>4. Tidy(blocks, spare, Records, heap) => Tidy(blocks, spare', Records', heap)
    BY <2>2, <2>3, TidyMove
  <2>5. Records' \in Seq(Places) /\ IsHeap(heap)
    BY <1>1, <2>3, RecordsAre DEF Shape
  <2>6. Fits(heap, blocks, spare, Records) => Fits(heap, blocks, spare', Records')
    BY <1>1, <2>2, <2>3, <2>5, FitsMove
  <2> QED
    BY <1>1, <2>1, <2>2, <2>3, <2>4, <2>6 DEF Shape
<1>4. CASE spare = <<>>
  <2>1. PICK r : /\ r = Allocate(nodes, parent, heap, CleanupRecord)
                 /\ Cardinality(DOMAIN r.heap) <= MaxNodes
                 /\ nodes' = r.nodes /\ parent' = r.parent /\ heap' = r.heap
                 /\ cleanups' = <<[at |-> r.at, data |-> d]>> \o cleanups /\ spare' = spare
    BY <1>4 DEF AddCleanup
  <2>2. /\ CleanupRecord \in 0..Word-1 /\ CleanupRecord + NodeHeader < Word
        /\ SlotIndex(CleanupRecord) <= MaxPoolSlot /\ SlotIndex(CleanupRecord) # MaxPoolSlot
    BY RecordSize, Sizes
  <2>3. /\ Grown(r)
        /\ \A n \in DOMAIN r.heap \ DOMAIN heap : \E i \in 1..MaxPoolSlot : n \in ToSet(r.nodes[i])
        /\ \A i \in 1..MaxPoolSlot : ToSet(nodes[i]) \subseteq ToSet(r.nodes[i])
        /\ \E n : CarvedOld(r, n, CleanupRecord) \/ CarvedNew(r, n, CleanupRecord)
    BY <1>1, <2>1, <2>2, AllocateIs
  <2>4. r.at \in Places
    BY <2>3 DEF Grown
  <2>5. /\ cleanups' \in Cleanups /\ Adds(Records', Records, r.at)
        /\ Covered(cleanups, large) => Covered(cleanups', large \cup {d})
    BY <1>2, <2>1, <2>4
  <2>6. ASSUME Tidy(blocks, spare, Records, heap) PROVE Tidy(blocks, spare', Records', heap')
    <3>1. Tidy(Records, spare, blocks, heap)
      BY <2>6, TidySwap
    <3>2. Tidy(Records', spare, blocks, r.heap)
      BY <1>1, <2>3, <2>5, <3>1, TidyNew
    <3> QED
      BY <2>1, <3>2, TidySwap
  <2>7. Reached(nodes, heap) => Reached(nodes', heap')
    BY <2>1, <2>3 DEF Reached
  <2>8. PICK k : CarvedOld(r, k, CleanupRecord) \/ CarvedNew(r, k, CleanupRecord)
    BY <2>3
  <2>9. CleanupRecord \in Nat /\ SlotIndex(CleanupRecord) < MaxPoolSlot
    BY <2>2, RecordSize, Sizes
  <2>10. Records' \in Seq(Places) /\ IsHeap(heap) /\ IsHeap(r.heap) /\ r.nodes \in NodeLists
    BY <1>1, <2>3, <2>5, RecordsAre DEF Shape, Grown
  <2>11. ASSUME Fits(heap, blocks, spare, Records) PROVE Fits(heap', blocks, spare', Records')
    <3>1. Fits(heap, Records, spare, blocks)
      BY <1>1, <2>10, <2>11, FitsSwap
    <3>2. Fits(r.heap, Records', spare, blocks)
      BY <1>1, <2>3, <2>5, <2>8, <2>9, <2>10, <3>1, FitsNew
    <3> QED
      BY <1>1, <2>1, <2>10, <3>2, FitsSwap
  <2>12. InPages(nodes, heap) => InPages(nodes', heap')
    BY <2>1, <2>8, <2>9, <2>10, Weighed
  <2> QED
    BY <1>1, <2>1, <2>3, <2>5, <2>6, <2>7, <2>11, <2>12 DEF Grown
<1> QED
  BY <1>3, <1>4

-----------------------------------------------------------------------------
(* The steps. *)

Unused ==
  status = "none" =>
    DOMAIN heap = {} /\ blocks = <<>> /\ spare = <<>> /\ cleanups = <<>> /\ large = {}

Laid == status \in {"none", "live"} => Tidy(blocks, spare, Records, heap)

Accounted ==
  /\ status \in {"none", "live"} => Reached(nodes, heap) /\ Covered(cleanups, large)
  /\ NothingLeaks

Measured == status = "live" => Fits(heap, blocks, spare, Records) /\ InPages(nodes, heap)

(* The sizes that are asked for do not wrap when the header is added. *)
NoneWraps == \A size \in Requests : fpx_align_allocation(size) + NodeHeader < Word

(* No size takes the one slot that is not there, which is the parent's. *)
NoneAtParent ==
  /\ \A size \in Requests : SlotIndex(fpx_align_allocation(size)) # MaxPoolSlot
  /\ \A size \in InitialSizes :
       SlotIndex((fpx_align_allocation(size) + PoolHeader) % Word) # MaxPoolSlot

(* Without blocks and records nothing overlaps. *)
LEMMA TidyEmpty == ASSUME NEW h PROVE Tidy(<<>>, <<>>, <<>>, h)
  BY DEF Tidy, AllTaken, Own, Apart

(* An empty list of cleanups has no records. *)
LEMMA NoRecords == RecordsOf(<<>>) = <<>>
  BY DEF RecordsOf

(* The invariant holds before a pool is created. *)
LEMMA PoolStart == Init => Shape /\ Unused /\ Laid /\ Accounted /\ Measured
<1> SUFFICES ASSUME Init PROVE Shape /\ Unused /\ Laid /\ Accounted /\ Measured
  OBVIOUS
<1> USE DEF Init
<1>1. DOMAIN heap = {} /\ IsHeap(heap)
  BY DEF IsHeap
<1>2. nodes \in NodeLists /\ \A i \in 1..MaxPoolSlot : nodes[i] = <<>>
  BY DEF NodeLists
<1>3. ToSet(<<>>) = {}
  BY DEF ToSet
<1>4. cleanups \in Seq([at : Places, data : Nat]) /\ spare \in Seq(Places) /\ blocks \in Seq(Places)
  OBVIOUS
<1>5. parent \in 0..MaxNodes /\ large \subseteq Nat /\ IsFiniteSet(large)
  BY PoolBoundsAssumption, FS_EmptySet DEF NULL
<1>6. Shape
  BY <1>1, <1>2, <1>3, <1>4, <1>5 DEF Shape, Listed
<1>7. Records = <<>>
  BY NoRecords DEF Records, RecordsOf
<1>8. Laid
  BY <1>7, TidyEmpty DEF Laid
<1>9. Accounted
  BY <1>1 DEF Accounted, Reached, Covered, NothingLeaks
<1>10. Measured
  BY DEF Measured
<1> QED
  BY <1>1, <1>6, <1>8, <1>9, <1>10 DEF Unused

(* fpx_pool_create establishes the invariant. *)
LEMMA CreateKeeps ==
  ASSUME Shape, Unused, NEW size \in InitialSizes, Create(size)
  PROVE  Shape' /\ Unused' /\ Laid' /\ (NoneAtParent => Accounted' /\ Measured')
<1>1. PICK index : index = SlotIndex((fpx_align_allocation(size) + PoolHeader) % Word)
  OBVIOUS
<1>2. PICK m : m = fpx_memnode_allocate(index + 1)
  OBVIOUS
<1>3. PICK rest : rest = m.size - PoolHeader - MutexHeader
  OBVIOUS
<1>4. PICK lists : lists = Registered(nodes, parent, index, 1)
  OBVIOUS
<1>5. /\ status = "none" /\ index <= MaxPoolSlot /\ status' = "live"
      /\ heap' = [n \in {1} |-> [m EXCEPT !.size = rest, !.avail = rest]]
      /\ nodes' = lists[1] /\ parent' = lists[2]
      /\ UNCHANGED <<cleanups, spare, blocks, large>>
  BY <1>1, <1>2, <1>3, <1>4 DEF Create
<1>6. index \in Nat /\ index + 1 \in 1..MaxPoolSlot+1
  <2>1. PICK a \in Nat : a = fpx_align_allocation(size)
    <3>1. size \in 0..Word-1
      BY SizesAssumption
    <3>2. fpx_align_allocation(size) \in 0..Word-1
      BY <3>1, Aligned
    <3> QED
      BY <3>2, Sizes
  <2>2. PICK b \in Nat : b = (a + PoolHeader) % Word
    BY Sizes, Division
  <2>3. index = SlotIndex(b)
    BY <1>1, <2>1, <2>2
  <2>4. index \in Nat
    BY <2>3, Pages
  <2> QED
    BY <1>5, <2>4, Sizes
<1>7. /\ m \in Memory /\ m.first = 0 /\ m.size = (index + 1) * PageSize - NodeHeader
      /\ m.pages = index + 1
      /\ PoolHeader + MutexHeader < (index + 1) * PageSize - NodeHeader
  BY <1>2, <1>6, NewNode
<1>8. /\ [m EXCEPT !.size = rest, !.avail = rest] \in Memory
      /\ [m EXCEPT !.size = rest, !.avail = rest].avail = [m EXCEPT !.size = rest, !.avail = rest].size
      /\ [m EXCEPT !.size = rest, !.avail = rest].pages = index + 1
  <2>1. /\ m.pages \in 1..MaxPoolSlot+1 /\ m.size \in 0..Word-1 /\ m.first \in 0..Word-1
        /\ m = [pages |-> m.pages, size |-> m.size, first |-> m.first, avail |-> m.avail]
    BY <1>7 DEF Memory
  <2>2. rest \in 0..Word-1
    BY <1>3, <1>7, <2>1, Sizes
  <2>3. [m EXCEPT !.size = rest, !.avail = rest] =
          [pages |-> m.pages, size |-> rest, first |-> m.first, avail |-> rest]
    <3>1. PICK a, b, c, d : m = [pages |-> a, size |-> b, first |-> c, avail |-> d]
      BY <2>1
    <3>2. m.pages = a /\ m.first = c
      BY <3>1
    <3>3. [m EXCEPT !.size = rest, !.avail = rest] =
            [pages |-> a, size |-> rest, first |-> c, avail |-> rest]
      <4>1. PICK e : e = [m EXCEPT !.size = rest]
        OBVIOUS
      <4>2. e = [pages |-> a, size |-> rest, first |-> c, avail |-> d]
        BY <3>1, <4>1
      <4>3. [m EXCEPT !.size = rest, !.avail = rest] = [e EXCEPT !.avail = rest]
        BY <4>1
      <4> QED
        BY <4>2, <4>3
    <3> QED
      BY <3>2, <3>3
  <2>4. m.first + rest = rest
    BY <1>7, <2>2, Sizes
  <2> QED
    BY <1>7, <2>1, <2>2, <2>3, <2>4 DEF Memory
<1>9. DOMAIN heap' = {1} /\ IsHeap(heap')
  BY <1>5, <1>8, PoolBoundsAssumption DEF IsHeap
<1>10. /\ nodes' \in NodeLists /\ parent' \in 0..MaxNodes
       /\ OneMore(nodes, nodes', index, 1) /\ Longer(nodes, nodes', index)
  <2>1. 1 \in 1..MaxNodes /\ nodes \in NodeLists /\ parent \in 0..MaxNodes
    BY PoolBoundsAssumption DEF Shape
  <2>2. /\ lists[1] \in NodeLists /\ lists[2] \in 0..MaxNodes
        /\ OneMore(nodes, lists[1], index, 1) /\ Longer(nodes, lists[1], index)
    BY <1>4, <1>6, <2>1, RegisteredIs
  <2> QED
    BY <1>5, <2>2
<1>11. \A i \in 1..MaxPoolSlot : ToSet(nodes[i]) = {}
  BY <1>5 DEF Shape, Unused, Listed
<1>12. Listed(nodes', heap')
  BY <1>9, <1>10, <1>11 DEF Listed, OneMore
<1>13. Shape'
  BY <1>5, <1>9, <1>10, <1>12 DEF Shape
<1>14. blocks' = <<>> /\ spare' = <<>> /\ Records' = <<>> /\ Laid'
  <2>1. blocks' = <<>> /\ spare' = <<>> /\ Records' = <<>>
    BY <1>5, NoRecords DEF Unused, Records, RecordsOf
  <2> QED
    BY <2>1, TidyEmpty DEF Laid
<1>15. NoneAtParent => Accounted'
  <2> SUFFICES ASSUME NoneAtParent PROVE Accounted'
    OBVIOUS
  <2>1. index + 1 \in 1..MaxPoolSlot
    <3>1. index # MaxPoolSlot
      BY <1>1 DEF NoneAtParent
    <3> QED
      BY <1>5, <1>6, <3>1, Sizes
  <2>2. 1 \in ToSet(nodes'[index + 1])
    BY <1>10, <2>1 DEF OneMore
  <2> QED
    BY <1>5, <1>9, <2>1, <2>2 DEF Accounted, Reached, Covered, NothingLeaks, Unused
<1>16. NoneAtParent => Measured'
  <2> SUFFICES ASSUME NoneAtParent
               PROVE  Fits(heap', <<>>, <<>>, <<>>) /\ InPages(nodes', heap')
    BY <1>5, <1>14 DEF Measured
  <2>1. index < MaxPoolSlot
    <3>1. index # MaxPoolSlot
      BY <1>1 DEF NoneAtParent
    <3> QED
      BY <1>5, <1>6, <3>1, Sizes
  <2>2. heap'[1].avail = heap'[1].size /\ heap'[1].pages = index + 1
    BY <1>5, <1>8
  <2>3. Fits(heap', <<>>, <<>>, <<>>)
    BY <1>9, <2>2, FitsEmpty
  <2>4. SumFunction(SlotsOf(nodes)) = 0
    BY <1>11, SlotsEmpty DEF Shape
  <2>5. SumFunction(SlotsOf(nodes')) = (index + 1) * PageSize
    <3>1. SumFunction(SlotsOf(nodes')) = SumFunction(SlotsOf(nodes)) + (index + 1) * PageSize
      BY <1>6, <1>10, <2>1, LongerSum DEF Shape
    <3>2. (index + 1) * PageSize \in Nat
      BY <1>6, Sizes
    <3> QED
      BY <2>4, <3>1, <3>2
  <2>6. SumFunction(PagesOf(heap')) = (index + 1) * PageSize
    <3>1. PICK f : f = PagesOf(heap')
      OBVIOUS
    <3>2. DOMAIN f = {1} /\ f[1] = (index + 1) * PageSize /\ f[1] \in Nat
      BY <1>9, <2>2, <3>1, HeapSums
    <3>3. SumFunctionOnSet(f, {} \cup {1}) = f[1] + SumFunctionOnSet(f, {})
      <4>1. IsFiniteSet({}) /\ 1 \notin {} /\ \A y \in {} : f[y] \in Nat
        BY FS_EmptySet
      <4> QED
        BY <3>2, <4>1, SumAdd
    <3>4. SumFunctionOnSet(f, {}) = 0 /\ {} \cup {1} = {1}
      BY SumEmpty
    <3>5. SumFunction(f) = f[1]
      BY <3>2, <3>3, <3>4 DEF SumFunction
    <3> QED
      BY <3>1, <3>2, <3>5
  <2> QED
    BY <2>3, <2>5, <2>6 DEF InPages
<1> QED
  BY <1>5, <1>13, <1>14, <1>15, <1>16 DEF Unused

(* fpx_palloc from a node keeps the invariant, if no size wraps. *)
LEMMA PallocKeeps ==
  ASSUME NoneWraps, Shape, NEW size \in Requests, Palloc(size)
  PROVE  /\ Shape' /\ Unused' /\ (Laid => Laid')
         /\ NoneAtParent => (Accounted => Accounted') /\ (Measured => Measured')
<1>1. PICK a : a = fpx_align_allocation(size)
  OBVIOUS
<1>2. PICK r : r = Allocate(nodes, parent, heap, a)
  OBVIOUS
<1>3. /\ status = "live" /\ SlotIndex(a) <= MaxPoolSlot /\ Cardinality(DOMAIN r.heap) <= MaxNodes
      /\ nodes' = r.nodes /\ parent' = r.parent /\ heap' = r.heap
      /\ blocks' = Append(blocks, r.at) /\ UNCHANGED <<status, cleanups, spare, large>>
  BY <1>1, <1>2 DEF Palloc
<1>4. a \in 0..Word-1 /\ a + NodeHeader < Word
  <2>1. size \in 0..Word-1
    BY SizesAssumption
  <2> QED
    BY <1>1, <2>1, Aligned DEF NoneWraps
<1>5. /\ Listed(nodes, heap) /\ blocks \in Seq(Places) /\ spare \in Seq(Places)
      /\ Records \in Seq(Places)
  BY <1>3, RecordsAre DEF Shape, Cleanups, Records, RecordsOf
<1>6. /\ Grown(r)
      /\ SlotIndex(a) # MaxPoolSlot =>
           \A n \in DOMAIN r.heap \ DOMAIN heap : \E i \in 1..MaxPoolSlot : n \in ToSet(r.nodes[i])
      /\ \A i \in 1..MaxPoolSlot : ToSet(nodes[i]) \subseteq ToSet(r.nodes[i])
      /\ \E n : CarvedOld(r, n, a) \/ CarvedNew(r, n, a)
  BY <1>2, <1>3, <1>4, <1>5, AllocateIs
<1>7. r.at \in Places
  BY <1>6 DEF Grown
<1>8. Adds(blocks', blocks, r.at) /\ blocks' \in Seq(Places)
  BY <1>3, <1>5, <1>7, AddsAppend
<1>9. Shape'
  BY <1>3, <1>6, <1>8 DEF Shape, Grown
<1>10. Laid => Laid'
  <2> SUFFICES ASSUME Tidy(blocks, spare, Records, heap)
               PROVE  Tidy(blocks', spare, Records, r.heap)
    BY <1>3 DEF Laid, Records
  <2> QED
    BY <1>5, <1>6, <1>8, TidyNew
<1>11. NoneAtParent /\ Accounted => Accounted'
  BY <1>1, <1>3, <1>6 DEF NoneAtParent, Accounted, Reached, Covered, NothingLeaks
<1>12. NoneAtParent /\ Measured => Measured'
  <2> SUFFICES ASSUME NoneAtParent, Fits(heap, blocks, spare, Records), InPages(nodes, heap)
               PROVE  Fits(r.heap, blocks', spare, Records) /\ InPages(r.nodes, r.heap)
    BY <1>3 DEF Measured, Records
  <2>1. a \in Nat /\ SlotIndex(a) < MaxPoolSlot
    <3>1. SlotIndex(a) # MaxPoolSlot
      BY <1>1 DEF NoneAtParent
    <3>2. a \in Nat
      BY <1>4, Sizes
    <3>3. SlotIndex(a) \in Nat
      BY <3>2, Pages
    <3> QED
      BY <1>3, <3>1, <3>2, <3>3, Sizes
  <2>2. PICK n : CarvedOld(r, n, a) \/ CarvedNew(r, n, a)
    BY <1>6
  <2>3. Fits(r.heap, blocks', spare, Records)
    BY <1>5, <1>6, <1>8, <2>1, <2>2, FitsNew
  <2>4. IsHeap(r.heap) /\ r.nodes \in NodeLists
    BY <1>6 DEF Grown
  <2>5. InPages(r.nodes, r.heap)
    BY <2>1, <2>2, <2>4, Weighed
  <2> QED
    BY <2>3, <2>5
<1> QED
  BY <1>3, <1>9, <1>10, <1>11, <1>12 DEF Unused

(* fpx_pool_cleanup_add keeps the invariant. *)
LEMMA CleanupAddKeeps ==
  ASSUME Shape, CleanupAdd
  PROVE  /\ Shape' /\ Unused' /\ (Laid => Laid')
         /\ (Accounted => Accounted') /\ (Measured => Measured')
<1>1. status = "live" /\ AddCleanup(0) /\ UNCHANGED <<status, blocks, large>>
  BY DEF CleanupAdd
<1>2. /\ nodes' \in NodeLists /\ parent' \in 0..MaxNodes /\ IsHeap(heap')
      /\ Listed(nodes', heap') /\ cleanups' \in Cleanups /\ spare' \in Seq(Places)
      /\ Tidy(blocks, spare, Records, heap) => Tidy(blocks, spare', Records', heap')
      /\ Reached(nodes, heap) => Reached(nodes', heap')
      /\ Covered(cleanups, large) => Covered(cleanups', large \cup {0})
      /\ Fits(heap, blocks, spare, Records) => Fits(heap', blocks, spare', Records')
      /\ InPages(nodes, heap) => InPages(nodes', heap')
  BY <1>1, AddCleanupIs
<1>3. Shape'
  BY <1>1, <1>2 DEF Shape, Cleanups
<1>4. Laid => Laid'
  BY <1>1, <1>2 DEF Laid
<1>5. Accounted => Accounted'
  BY <1>1, <1>2 DEF Accounted, Covered, NothingLeaks
<1>6. Measured => Measured'
  BY <1>1, <1>2 DEF Measured
<1> QED
  BY <1>1, <1>3, <1>4, <1>5, <1>6 DEF Unused

(* fpx_palloc by malloc, with its cleanup, keeps the invariant. *)
LEMMA PallocLargeKeeps ==
  ASSUME Shape, NEW size \in Requests, PallocLarge(size)
  PROVE  /\ Shape' /\ Unused' /\ (Laid => Laid')
         /\ (Accounted => Accounted') /\ (Measured => Measured')
<1>1. PICK b : b = Fresh(large)
  OBVIOUS
<1>2. status = "live" /\ large' = large \cup {b} /\ AddCleanup(b) /\ UNCHANGED <<status, blocks>>
  BY <1>1 DEF PallocLarge
<1>3. b \in Nat
  BY <1>1, FreshIs DEF Shape
<1>4. /\ nodes' \in NodeLists /\ parent' \in 0..MaxNodes /\ IsHeap(heap')
      /\ Listed(nodes', heap') /\ cleanups' \in Cleanups /\ spare' \in Seq(Places)
      /\ Tidy(blocks, spare, Records, heap) => Tidy(blocks, spare', Records', heap')
      /\ Reached(nodes, heap) => Reached(nodes', heap')
      /\ Covered(cleanups, large) => Covered(cleanups', large \cup {b})
      /\ Fits(heap, blocks, spare, Records) => Fits(heap', blocks, spare', Records')
      /\ InPages(nodes, heap) => InPages(nodes', heap')
  BY <1>2, <1>3, AddCleanupIs
<1>5. large' \subseteq Nat /\ IsFiniteSet(large')
  BY <1>2, <1>3, FS_AddElement DEF Shape
<1>6. Shape'
  BY <1>2, <1>4, <1>5 DEF Shape, Cleanups
<1>7. Laid => Laid'
  BY <1>2, <1>4 DEF Laid
<1>8. Accounted => Accounted'
  BY <1>2, <1>4 DEF Accounted, NothingLeaks
<1>9. Measured => Measured'
  BY <1>2, <1>4 DEF Measured
<1> QED
  BY <1>2, <1>6, <1>7, <1>8, <1>9 DEF Unused

(* Running or removing one cleanup keeps the invariant. *)
LEMMA RunOrRemoveKeeps ==
  ASSUME Shape, NEW i \in DOMAIN cleanups, CleanupRunOrRemove(i)
  PROVE  /\ Shape' /\ Unused' /\ (Laid => Laid')
         /\ (Accounted => Accounted') /\ (Measured => Measured')
<1>1. /\ status = "live" /\ cleanups' = RemoveAt(cleanups, i)
      /\ spare' = <<cleanups[i].at>> \o spare /\ large' = large \ {cleanups[i].data}
      /\ UNCHANGED <<status, nodes, parent, heap, blocks>>
  BY DEF CleanupRunOrRemove
<1>2. cleanups \in Cleanups /\ i \in 1..Len(cleanups)
  BY DEF Shape, Cleanups
<1>3. PICK x : x = cleanups[i] /\ x.at \in Places
  BY <1>2, RecordsAre
<1>4. Adds(cleanups, cleanups', x) /\ cleanups' \in Cleanups
  BY <1>1, <1>2, <1>3, AddsRemoved DEF Cleanups
<1>5. Adds(Records, Records', x.at)
  BY <1>2, <1>4, AddsRecord DEF Records, RecordsOf
<1>6. Adds(spare', spare, x.at) /\ spare' \in Seq(Places)
  <2>1. spare \in Seq(Places) /\ spare' = <<x.at>> \o spare
    BY <1>1, <1>3 DEF Shape
  <2> QED
    BY <1>3, <2>1, AddsFront
<1>7. large' \subseteq Nat /\ IsFiniteSet(large')
  BY <1>1, FS_Subset DEF Shape
<1>8. Shape'
  BY <1>1, <1>4, <1>6, <1>7 DEF Shape, Cleanups
<1>9. Laid => Laid'
  <2> SUFFICES ASSUME Tidy(blocks, spare, Records, heap)
               PROVE  Tidy(blocks, spare', Records', heap)
    BY <1>1 DEF Laid
  <2>1. Tidy(blocks, Records, spare, heap)
    BY TidySwap
  <2>2. Tidy(blocks, Records', spare', heap)
    BY <1>5, <1>6, <2>1, TidyMove
  <2> QED
    BY <2>2, TidySwap
<1>10. Accounted => Accounted'
  <2>1. PICK p \in 1..Len(cleanups) : cleanups[p] = x /\ \A k \in 1..Len(cleanups) : k # p =>
          \E l \in 1..Len(cleanups') : cleanups[k] = cleanups'[l]
    BY <1>4, AddsIs
  <2>2. Covered(cleanups, large) => Covered(cleanups', large')
    <3> SUFFICES ASSUME Covered(cleanups, large), NEW b \in large, b # x.data
                 PROVE  \E l \in 1..Len(cleanups') : cleanups'[l].data = b
      BY <1>1, <1>3 DEF Covered
    <3>1. PICK k \in 1..Len(cleanups) : cleanups[k].data = b
      BY DEF Covered
    <3>2. PICK l \in 1..Len(cleanups') : cleanups[k] = cleanups'[l]
      BY <2>1, <3>1
    <3> QED
      BY <3>1, <3>2
  <2> QED
    BY <1>1, <2>2 DEF Accounted, NothingLeaks
<1>11. Measured => Measured'
  <2> SUFFICES ASSUME Fits(heap, blocks, spare, Records)
               PROVE  Fits(heap, blocks, spare', Records')
    BY <1>1 DEF Measured
  <2>1. /\ Records \in Seq(Places) /\ Records' \in Seq(Places) /\ IsHeap(heap)
        /\ blocks \in Seq(Places) /\ spare \in Seq(Places)
    BY <1>2, <1>4, RecordsAre DEF Shape, Records, RecordsOf
  <2> QED
    BY <1>5, <1>6, <2>1, FitsMove
<1> QED
  BY <1>1, <1>8, <1>9, <1>10, <1>11 DEF Unused

(* fpx_pool_cleanup_run_all frees every large block that has a cleanup. *)
LEMMA RunAllIs ==
  ASSUME Shape, RunAllCleanups
  PROVE  /\ spare' \in Seq(Places) /\ cleanups' \in Cleanups /\ cleanups' = <<>>
         /\ large' \subseteq Nat /\ IsFiniteSet(large')
         /\ Covered(cleanups, large) => large' = {}
         /\ cleanups = <<>> /\ spare = <<>> => spare' = <<>>
<1>1. /\ spare' = Reverse(Records) \o spare /\ cleanups' = <<>>
      /\ large' = large \ {cleanups[i].data : i \in DOMAIN cleanups}
  BY DEF RunAllCleanups
<1>2. Records \in Seq(Places) /\ spare \in Seq(Places)
  BY RecordsAre DEF Shape, Cleanups, Records, RecordsOf
<1>3. Reverse(Records) \in Seq(Places)
  <2>1. PICK n \in Nat : n = Len(Records) /\ Records \in [1..n -> Places]
    <3>1. Len(Records) \in Nat /\ Records \in [1..Len(Records) -> Places]
      BY <1>2
    <3> QED
      BY <3>1
  <2>2. \A k \in 1..n : (n - k) + 1 \in 1..n
    OBVIOUS
  <2>3. Reverse(Records) \in [1..n -> Places]
    BY <2>1, <2>2 DEF Reverse
  <2> QED
    BY <2>3
<1>4. spare' \in Seq(Places)
  BY <1>1, <1>2, <1>3
<1>5. cleanups' \in Cleanups
  BY <1>1 DEF Cleanups
<1>6. large' \subseteq Nat /\ IsFiniteSet(large')
  BY <1>1, FS_Subset DEF Shape
<1>7. Covered(cleanups, large) => large' = {}
  <2>1. DOMAIN cleanups = 1..Len(cleanups)
    BY DEF Shape
  <2> QED
    BY <1>1, <2>1 DEF Covered
<1>8. cleanups = <<>> /\ spare = <<>> => spare' = <<>>
  <2> SUFFICES ASSUME cleanups = <<>>, spare = <<>> PROVE spare' = <<>>
    OBVIOUS
  <2>1. Records = <<>>
    BY NoRecords DEF Records, RecordsOf
  <2>2. Reverse(<<>>) = <<>>
    BY DEF Reverse
  <2> QED
    BY <1>1, <2>1, <2>2
<1> QED
  BY <1>1, <1>4, <1>5, <1>6, <1>7, <1>8

(* The nodes of the lists are the nodes of the pool. *)
LEMMA EveryNodeRegistered ==
  ASSUME Shape, status = "live", Reached(nodes, heap)
  PROVE  RegisteredNodes = DOMAIN heap
<1>1. PICK Q : Q = Seq(1..MaxNodes)
  OBVIOUS
<1>2. nodes \in Seq(Q) /\ Len(nodes) = MaxPoolSlot
  BY <1>1, Sizes DEF Shape, NodeLists
<1>3. nodes \in Seq(Seq(1..MaxNodes))
  BY <1>1, <1>2
<1>4. \A n : n \in RegisteredNodes <=> \E i \in 1..MaxPoolSlot : n \in ToSet(nodes[i])
  <2> SUFFICES ASSUME NEW n
               PROVE  n \in ToSet(FlattenSeq(nodes)) <=> \E i \in 1..Len(nodes) : n \in ToSet(nodes[i])
    BY <1>2 DEF RegisteredNodes
  <2> QED
    BY <1>3, FlattenElements
<1>5. \A i \in 1..MaxPoolSlot : ToSet(nodes[i]) \subseteq DOMAIN heap
  BY DEF Shape, Listed
<1> QED
  BY <1>4, <1>5 DEF Reached

(* fpx_pool_clear keeps the invariant, its layout if there are no records. *)
LEMMA ClearKeeps ==
  ASSUME Shape, Clear
  PROVE  /\ Shape' /\ Unused' /\ (~ClearsRecords /\ Laid => Laid') /\ (Accounted => Accounted')
         /\ ~ClearsRecords /\ Accounted /\ Measured => Measured'
<1>1. /\ status = "live" /\ RunAllCleanups /\ blocks' = <<>> /\ UNCHANGED <<status, nodes, parent>>
      /\ ClearsRecords \/ (cleanups = <<>> /\ spare = <<>>)
      /\ heap' = [n \in DOMAIN heap |->
                    IF n \in RegisteredNodes THEN ResetNode(heap[n]) ELSE heap[n]]
  BY DEF Clear
<1>2. /\ spare' \in Seq(Places) /\ cleanups' \in Cleanups /\ cleanups' = <<>>
      /\ large' \subseteq Nat /\ IsFiniteSet(large')
      /\ Covered(cleanups, large) => large' = {}
      /\ cleanups = <<>> /\ spare = <<>> => spare' = <<>>
  BY <1>1, RunAllIs
<1>3. \A m \in Memory : /\ ResetNode(m) \in Memory /\ ResetNode(m).avail = ResetNode(m).size
                        /\ ResetNode(m).pages = m.pages
  <2> SUFFICES ASSUME NEW m \in Memory
               PROVE  /\ ResetNode(m) \in Memory /\ ResetNode(m).avail = ResetNode(m).size
                      /\ ResetNode(m).pages = m.pages
    OBVIOUS
  <2>1. /\ m.pages \in 1..MaxPoolSlot+1 /\ m.size \in 0..Word-1
        /\ m = [pages |-> m.pages, size |-> m.size, first |-> m.first, avail |-> m.avail]
    BY DEF Memory
  <2>2. ResetNode(m) = [pages |-> m.pages, size |-> m.size, first |-> 0, avail |-> m.size]
    <3>1. PICK a, b, c, d : m = [pages |-> a, size |-> b, first |-> c, avail |-> d]
      BY <2>1
    <3>2. m.pages = a /\ m.size = b
      BY <3>1
    <3>3. ResetNode(m) = [m EXCEPT !.first = 0, !.avail = b]
      BY <3>2 DEF ResetNode
    <3>4. [m EXCEPT !.first = 0, !.avail = b] = [pages |-> a, size |-> b, first |-> 0, avail |-> b]
      <4>1. PICK e : e = [m EXCEPT !.first = 0]
        OBVIOUS
      <4>2. e = [pages |-> a, size |-> b, first |-> 0, avail |-> d]
        BY <3>1, <4>1
      <4>3. [m EXCEPT !.first = 0, !.avail = b] = [e EXCEPT !.avail = b]
        BY <4>1
      <4> QED
        BY <4>2, <4>3
    <3> QED
      BY <3>2, <3>3, <3>4
  <2>3. 0 \in 0..Word-1 /\ 0 + m.size = m.size
    BY <2>1, Sizes
  <2> QED
    BY <2>1, <2>2, <2>3 DEF Memory
<1>4. DOMAIN heap' = DOMAIN heap /\ IsHeap(heap')
  BY <1>1, <1>3 DEF Shape, IsHeap
<1>5. Listed(nodes', heap')
  BY <1>1, <1>4 DEF Shape, Listed
<1>6. Shape'
  BY <1>1, <1>2, <1>4, <1>5 DEF Shape, Cleanups
<1>7. ~ClearsRecords => Laid'
  <2> SUFFICES ASSUME ~ClearsRecords PROVE Laid'
    OBVIOUS
  <2>1. spare' = <<>> /\ blocks' = <<>> /\ Records' = <<>>
    BY <1>1, <1>2, NoRecords DEF Records, RecordsOf
  <2> QED
    BY <2>1, TidyEmpty DEF Laid
<1>8. Accounted => Accounted'
  BY <1>1, <1>2, <1>4 DEF Accounted, Reached, Covered, NothingLeaks
<1>9. ~ClearsRecords /\ Accounted /\ Measured => Measured'
  <2> SUFFICES ASSUME ~ClearsRecords, Accounted, InPages(nodes, heap) PROVE Measured'
    BY <1>1 DEF Measured
  <2>1. spare' = <<>> /\ blocks' = <<>> /\ Records' = <<>>
    BY <1>1, <1>2, NoRecords DEF Records, RecordsOf
  <2>2. \A n \in DOMAIN heap : n \in RegisteredNodes
    BY <1>1, EveryNodeRegistered DEF Accounted
  <2>3. \A n \in DOMAIN heap : heap'[n] = ResetNode(heap[n]) /\ heap[n] \in Memory
    BY <1>1, <2>2 DEF Shape, IsHeap
  <2>4. \A n \in DOMAIN heap : heap'[n].avail = heap'[n].size /\ heap'[n].pages = heap[n].pages
    BY <1>3, <2>3
  <2>5. Fits(heap', <<>>, <<>>, <<>>)
    BY <1>4, <2>4, FitsEmpty
  <2>6. PagesOf(heap') = PagesOf(heap)
    BY <1>4, <2>4 DEF PagesOf
  <2>7. InPages(nodes', heap')
    BY <1>1, <2>6 DEF InPages
  <2> QED
    BY <2>1, <2>5, <2>7 DEF Measured
<1> QED
  BY <1>1, <1>6, <1>7, <1>8, <1>9 DEF Unused

(* fpx_pool_destroy keeps the invariant. *)
LEMMA DestroyKeeps ==
  ASSUME Shape, Destroy
  PROVE  Shape' /\ Unused' /\ Laid' /\ (Accounted => Accounted')
<1>1. /\ status = "live" /\ RunAllCleanups /\ blocks' = <<>> /\ UNCHANGED <<nodes, parent>>
      /\ status' \in {"destroyed", "crashed"}
      /\ status' = "destroyed" => heap' = [n \in DOMAIN heap \ Freed(MaxPoolSlot) |-> heap[n]]
      /\ \E gone : heap' = [n \in DOMAIN heap \ gone |-> heap[n]]
  BY DEF Destroy
<1>2. /\ spare' \in Seq(Places) /\ cleanups' \in Cleanups /\ cleanups' = <<>>
      /\ large' \subseteq Nat /\ IsFiniteSet(large')
      /\ Covered(cleanups, large) => large' = {}
  BY <1>1, RunAllIs
<1>3. IsHeap(heap')
  BY <1>1 DEF Shape, IsHeap
<1>4. Shape'
  BY <1>1, <1>2, <1>3 DEF Shape, Cleanups
<1>5. Accounted => Accounted'
  <2> SUFFICES ASSUME Accounted, status' = "destroyed" PROVE DOMAIN heap' = {} /\ large' = {}
    BY <1>1 DEF Accounted, NothingLeaks
  <2>1. large' = {}
    BY <1>1, <1>2 DEF Accounted
  <2>2. PICK Q : Q = Seq(1..MaxNodes)
    OBVIOUS
  <2>3. nodes \in Seq(Q) /\ Len(nodes) = MaxPoolSlot
    BY <2>2, Sizes DEF Shape, NodeLists
  <2>4. SubSeq(nodes, 1, MaxPoolSlot) = nodes
    BY <2>3, Sizes
  <2>5. \A n \in DOMAIN heap : n \in Freed(MaxPoolSlot)
    <3> SUFFICES ASSUME NEW n \in DOMAIN heap PROVE n \in ToSet(FlattenSeq(nodes))
      BY <2>4 DEF Freed
    <3>1. PICK i \in 1..MaxPoolSlot : n \in ToSet(nodes[i])
      BY <1>1 DEF Accounted, Reached
    <3>2. nodes \in Seq(Seq(1..MaxNodes))
      BY <2>2, <2>3
    <3> QED
      BY <2>3, <3>1, <3>2, FlattenElements
  <2> QED
    BY <1>1, <2>1, <2>5
<1> QED
  BY <1>1, <1>4, <1>5 DEF Unused, Laid

(* One lemma for all of them: the memory stays laid out if records are     *)
(* never cleared, and accounted for if no size takes the parent's place.   *)
LEMMA PoolStep ==
  ASSUME NoneWraps, Shape, Unused, [Next]_vars
  PROVE  /\ Shape' /\ Unused'
         /\ ~ClearsRecords /\ Laid => Laid'
         /\ NoneAtParent /\ Accounted => Accounted'
         /\ ~ClearsRecords /\ NoneAtParent /\ Accounted /\ Measured => Measured'
<1> DEFINE Kept == /\ Shape' /\ Unused'
                   /\ ~ClearsRecords /\ Laid => Laid'
                   /\ NoneAtParent /\ Accounted => Accounted'
                   /\ ~ClearsRecords /\ NoneAtParent /\ Accounted /\ Measured => Measured'
<1> SUFFICES Kept
  OBVIOUS
<1>1. ASSUME NEW size \in InitialSizes, Create(size) PROVE Kept
  BY <1>1, CreateKeeps
<1>2. ASSUME NEW size \in Requests, Palloc(size) PROVE Kept
  BY <1>2, PallocKeeps
<1>3. ASSUME NEW size \in Requests, PallocLarge(size) PROVE Kept
  BY <1>3, PallocLargeKeeps
<1>4. ASSUME NEW i \in DOMAIN cleanups, CleanupRunOrRemove(i) PROVE Kept
  BY <1>4, RunOrRemoveKeeps
<1>5. CASE CleanupAdd
  BY <1>5, CleanupAddKeeps
<1>6. CASE CleanupOutOfMemory
  BY <1>6 DEF CleanupOutOfMemory, Shape, Unused, Laid, Accounted, NothingLeaks, Measured
<1>7. CASE Clear
  BY <1>7, ClearKeeps
<1>8. CASE Destroy
  <2>1. Measured'
    BY <1>8 DEF Destroy, Measured
  <2> QED
    BY <1>8, <2>1, DestroyKeeps
<1>9. CASE UNCHANGED vars
  BY <1>9 DEF vars, Shape, Unused, Laid, Records, Accounted, NothingLeaks, Measured
<1> HIDE DEF Kept
<1> QED
  BY <1>1, <1>2, <1>3, <1>4, <1>5, <1>6, <1>7, <1>8, <1>9 DEF Next, Gone

(* The types of the pool's state: in particular first_avail never passes   *)
(* the end of a node and size_avail never wraps, whatever is cleared.      *)
THEOREM Typing == ASSUME NoneWraps PROVE Spec => []TypeOK
<1>1. Init => Shape /\ Unused
  BY PoolStart
<1>2. (Shape /\ Unused) /\ [Next]_vars => (Shape /\ Unused)'
  BY PoolStep
<1>3. Shape /\ Unused => TypeOK
  <2> SUFFICES ASSUME Shape PROVE TypeOK
    OBVIOUS
  <2>1. /\ status \in {"none", "live", "destroyed", "crashed"} /\ parent \in 0..MaxNodes
        /\ DOMAIN heap \subseteq 1..MaxNodes
    BY DEF Shape, IsHeap
  <2>2. DOMAIN nodes = 1..MaxPoolSlot /\ \A i \in DOMAIN nodes : ToSet(nodes[i]) \subseteq 1..MaxNodes
    <3>1. nodes \in NodeLists
      BY DEF Shape
    <3>2. DOMAIN nodes = 1..MaxPoolSlot /\ \A i \in 1..MaxPoolSlot : nodes[i] \in Seq(1..MaxNodes)
      BY <3>1 DEF NodeLists
    <3>3. PICK N : N = 1..MaxNodes
      OBVIOUS
    <3>4. \A s \in Seq(N) : ToSet(s) \subseteq N
      BY DEF ToSet
    <3> QED
      BY <3>2, <3>3, <3>4
  <2>3. \A n \in DOMAIN heap : /\ heap[n].pages \in 1..MaxPoolSlot+1 /\ heap[n].size \in 0..Word-1
                              /\ heap[n].first \in 0..heap[n].size /\ heap[n].avail \in 0..heap[n].size
    <3>1. \A n \in DOMAIN heap : heap[n] \in Memory
      BY DEF Shape, IsHeap
    <3>2. \A m \in Memory : /\ m.pages \in 1..MaxPoolSlot+1 /\ m.size \in 0..Word-1
                            /\ m.first \in 0..m.size /\ m.avail \in 0..m.size
      BY Sizes DEF Memory
    <3> QED
      BY <3>1, <3>2
  <2>4. \A i \in DOMAIN cleanups : cleanups[i].at \in Places
    <3>1. cleanups \in Cleanups /\ DOMAIN cleanups = 1..Len(cleanups)
      BY DEF Shape, Cleanups
    <3> QED
      BY <3>1, RecordsAre
  <2>5. ToSet(spare) \subseteq Places /\ ToSet(blocks) \subseteq Places
    BY DEF Shape, ToSet
  <2> QED
    BY <2>1, <2>2, <2>3, <2>4, <2>5 DEF TypeOK
<1> QED
  BY <1>1, <1>2, <1>3, PTL DEF Spec

(* Sequences of places one after the other. *)
LEMMA Joined ==
  ASSUME NEW s \in Seq(Places), NEW t \in Seq(Places), NEW u, u = s \o t, NEW h
  PROVE  /\ u \in Seq(Places)
         /\ AllTaken(s, h) /\ AllTaken(t, h) => AllTaken(u, h)
         /\ \A v : Apart(s, v) /\ Apart(t, v) => Apart(u, v)
         /\ Own(s) /\ Own(t) /\ Apart(s, t) => Own(u)
<1>1. /\ u \in Seq(Places) /\ Len(u) = Len(s) + Len(t) /\ Len(s) \in Nat /\ Len(t) \in Nat
      /\ \A k \in 1..Len(s) : u[k] = s[k]
      /\ \A k \in 1..Len(t) : u[Len(s) + k] = t[k]
  OBVIOUS
<1>2. \A k \in 1..Len(u) : \/ k \in 1..Len(s) /\ u[k] = s[k]
                           \/ k - Len(s) \in 1..Len(t) /\ u[k] = t[k - Len(s)]
  <2>1. ASSUME NEW k \in 1..Len(u), k \notin 1..Len(s)
        PROVE  k - Len(s) \in 1..Len(t) /\ u[k] = t[k - Len(s)]
    <3>1. k - Len(s) \in 1..Len(t) /\ Len(s) + (k - Len(s)) = k
      BY <1>1, <2>1
    <3> QED
      BY <1>1, <3>1
  <2>2. ASSUME NEW k \in 1..Len(u), k \in 1..Len(s) PROVE u[k] = s[k]
    BY <1>1, <2>2
  <2>3. ASSUME NEW k \in 1..Len(u)
        PROVE  \/ k \in 1..Len(s) /\ u[k] = s[k]
               \/ k - Len(s) \in 1..Len(t) /\ u[k] = t[k - Len(s)]
    BY <2>1, <2>2, <2>3
  <2> QED
    BY <1>1, <2>3
<1>3. AllTaken(s, h) /\ AllTaken(t, h) => AllTaken(u, h)
  BY <1>2 DEF AllTaken
<1>4. \A v : Apart(s, v) /\ Apart(t, v) => Apart(u, v)
  BY <1>2 DEF Apart
<1>5. ASSUME Own(s), Own(t), Apart(s, t) PROVE Own(u)
  <2> SUFFICES ASSUME NEW k \in 1..Len(u), NEW l \in 1..Len(u), k # l
               PROVE  NoOverlap(u[k], u[l])
    BY DEF Own
  <2>1. CASE k \in 1..Len(s) /\ u[k] = s[k]
    <3>1. CASE l \in 1..Len(s) /\ u[l] = s[l]
      BY <1>5, <2>1, <3>1 DEF Own
    <3>2. CASE l - Len(s) \in 1..Len(t) /\ u[l] = t[l - Len(s)]
      BY <1>5, <2>1, <3>2 DEF Apart
    <3> QED
      BY <1>2, <3>1, <3>2
  <2>2. CASE k - Len(s) \in 1..Len(t) /\ u[k] = t[k - Len(s)]
    <3>1. CASE l \in 1..Len(s) /\ u[l] = s[l]
      <4>1. NoOverlap(u[l], u[k])
        BY <1>5, <2>2, <3>1 DEF Apart
      <4> QED
        BY <4>1, OverlapSym
    <3>2. CASE l - Len(s) \in 1..Len(t) /\ u[l] = t[l - Len(s)]
      <4>1. k - Len(s) # l - Len(s)
        BY <1>1
      <4> QED
        BY <1>5, <2>2, <3>2, <4>1 DEF Own
    <3> QED
      BY <1>2, <3>1, <3>2
  <2> QED
    BY <1>2, <2>1, <2>2
<1> QED
  BY <1>1, <1>3, <1>4, <1>5

(* No two blocks share a byte, and none runs past its node: neither with   *)
(* another block nor with a cleanup record, used or reserved.  The theorem *)
(* is about pools that are cleared only without records; the others break  *)
(* it, as the records reserved by a clear lie in memory it gives away.     *)
THEOREM NoByteShared == ASSUME NoneWraps, ~ClearsRecords PROVE Spec => []MemoryDisjoint
<1>1. Init => Shape /\ Unused /\ Laid
  BY PoolStart
<1>2. (Shape /\ Unused /\ Laid) /\ [Next]_vars => (Shape /\ Unused /\ Laid)'
  BY PoolStep
<1>3. Shape /\ Unused /\ Laid => MemoryDisjoint
  <2> SUFFICES ASSUME Shape, Laid, status = "live"
               PROVE  \A i \in DOMAIN InUse :
                        /\ InUse[i].off + InUse[i].len <= heap[InUse[i].node].size
                        /\ \A j \in DOMAIN InUse \ {i} : NoOverlap(InUse[i], InUse[j])
    BY DEF MemoryDisjoint, NoOverlap
  <2>1. /\ blocks \in Seq(Places) /\ spare \in Seq(Places) /\ Records \in Seq(Places)
        /\ Tidy(blocks, spare, Records, heap)
    BY RecordsAre DEF Shape, Cleanups, Records, RecordsOf, Laid
  <2>2. InUse = (blocks \o spare) \o Records
    BY DEF InUse
  <2>3. PICK u : u = blocks \o spare
    OBVIOUS
  <2>4. /\ u \in Seq(Places) /\ AllTaken(u, heap) /\ Own(u) /\ Apart(u, Records)
    BY <2>1, <2>3, Joined DEF Tidy
  <2>5. InUse \in Seq(Places) /\ AllTaken(InUse, heap) /\ Own(InUse)
    <3>1. InUse = u \o Records
      BY <2>2, <2>3
    <3> QED
      BY <2>1, <2>4, <3>1, Joined DEF Tidy
  <2>6. DOMAIN InUse = 1..Len(InUse) /\ \A i \in 1..Len(InUse) : InUse[i] \in Places
    BY <2>5
  <2>7. ASSUME NEW x \in Places, Taken(x, heap) PROVE x.off + x.len <= heap[x.node].size
    <3>1. heap[x.node] \in Memory /\ x.off + x.len <= heap[x.node].first /\ x.off + x.len \in Int
      BY <2>7 DEF Taken, Shape, IsHeap, Places
    <3>2. heap[x.node].first \in Int /\ heap[x.node].size \in Int
          /\ heap[x.node].first <= heap[x.node].size
      BY <3>1, Sizes DEF Memory
    <3> QED
      BY <3>1, <3>2
  <2> QED
    BY <2>5, <2>6, <2>7 DEF AllTaken, Own
<1> QED
  BY <1>1, <1>2, <1>3, PTL DEF Spec

(* A pool that has been destroyed has given back every node and every      *)
(* large block.  The theorem is about the sizes that do not take the       *)
(* parent's place in the pool, where a node is lost.                       *)
THEOREM AllGivenBack == ASSUME NoneWraps, NoneAtParent PROVE Spec => []NothingLeaks
<1>1. Init => Shape /\ Unused /\ Accounted
  BY PoolStart
<1>2. (Shape /\ Unused /\ Accounted) /\ [Next]_vars => (Shape /\ Unused /\ Accounted)'
  BY PoolStep
<1>3. Shape /\ Unused /\ Accounted => NothingLeaks
  BY DEF Accounted
<1> QED
  BY <1>1, <1>2, <1>3, PTL DEF Spec

(* The sizes a pool reports add up: what is free and what the blocks and   *)
(* records take is all of its memory, and every node is on the list of its *)
(* size.  The theorem is about pools that are cleared only without         *)
(* records and sizes that do not take the parent's place: a clear gives    *)
(* the bytes of reserved records out again, and a node stored over parent  *)
(* is in no list.                                                          *)
THEOREM SizesAddUp ==
  ASSUME NoneWraps, ~ClearsRecords, NoneAtParent PROVE Spec => []SizesExact
<1>1. Init => Shape /\ Unused /\ Accounted /\ Measured
  BY PoolStart
<1>2. (Shape /\ Unused /\ Accounted /\ Measured) /\ [Next]_vars
        => (Shape /\ Unused /\ Accounted /\ Measured)'
  BY PoolStep
<1>3. Shape /\ Unused /\ Accounted /\ Measured => SizesExact
  <2> SUFFICES ASSUME Shape, Accounted, Measured, status = "live" PROVE SizesExact
    BY DEF SizesExact
  <2>1. RegisteredNodes = DOMAIN heap
    BY EveryNodeRegistered DEF Accounted
  <2>2. fpx_pool_get_free_size = SumFunction(AvailOf(heap))
    <3>1. DOMAIN AvailOf(heap) = DOMAIN heap
      BY DEF AvailOf
    <3> QED
      BY <2>1, <3>1 DEF fpx_pool_get_free_size, SumFunction, AvailOf
  <2>3. /\ blocks \in Seq(Places) /\ spare \in Seq(Places) /\ Records \in Seq(Places)
        /\ blocks \o spare \in Seq(Places) /\ InUse = (blocks \o spare) \o Records
    <3>1. blocks \in Seq(Places) /\ spare \in Seq(Places) /\ Records \in Seq(Places)
      BY RecordsAre DEF Shape, Cleanups, Records, RecordsOf
    <3>2. blocks \o spare \in Seq(Places)
      BY <3>1
    <3>3. InUse = (blocks \o spare) \o Records
      BY DEF InUse
    <3> QED
      BY <3>1, <3>2, <3>3
  <2>4. Bytes(InUse) = Bytes(blocks \o spare) + Bytes(Records)
    BY <2>3, BytesJoined
  <2>5. Bytes(blocks \o spare) = Bytes(blocks) + Bytes(spare)
    BY <2>3, BytesJoined
  <2>6. /\ Bytes(blocks) \in Nat /\ Bytes(spare) \in Nat /\ Bytes(Records) \in Nat
        /\ SumFunction(AvailOf(heap)) \in Nat
    BY <2>3, LensAre, AvailSum DEF Shape
  <2>7. SumFunction(AvailOf(heap)) + Bytes(blocks) + Bytes(spare) + Bytes(Records)
          = SumFunction(SizeOf(heap))
    BY DEF Measured, Fits
  <2>8. fpx_pool_get_free_size + Bytes(InUse) = SumFunction(SizeOf(heap))
    BY <2>2, <2>4, <2>5, <2>6, <2>7
  <2>9. fpx_pool_get_total_size = SumFunction(PagesOf(heap))
    BY DEF Measured, InPages, fpx_pool_get_total_size, SlotsOf
  <2> QED
    BY <2>8, <2>9 DEF SizesExact, Bytes, Lens, SizeOf, PagesOf
<1> QED
  BY <1>1, <1>2, <1>3, PTL DEF Spec
=============================================================================
