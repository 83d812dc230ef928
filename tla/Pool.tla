-------------------------------- MODULE Pool --------------------------------
(***************************************************************************)
(* The memory pool of src/src/system/pool.c, used by one thread: memory    *)
(* nodes kept in lists by size, blocks carved from them, large blocks      *)
(* passed to malloc, and cleanup records that are themselves carved from   *)
(* the pool.  Addresses are a node and an offset from its `begin'; sizes   *)
(* are bytes, and size_t arithmetic wraps at Word.                         *)
(*                                                                         *)
(* A definition Name_Fault is Name with a fault put in; PROJECT.json tells *)
(* which property each of them breaks.  The specification uses none.       *)
(***************************************************************************)
EXTENDS Naturals, Sequences, FiniteSets, SequencesExt

CONSTANTS
  Word,          \* SIZE_MAX + 1
  AlignSize,     \* FPX_ALIGN_SIZE
  PageSize,      \* FPX_PAGE_SIZE
  MaxPoolSlot,   \* FPX_MAX_POOL_SLOT
  NodeHeader,    \* FPX_SIZEOF_MEMNODE_T_ALIGN
  PoolHeader,    \* FPX_SIZEOF_MEMPOOL_T_ALIGN
  MutexHeader,   \* FPX_SIZEOF_MUTEX_T_ALIGN
  CleanupSize,   \* sizeof(fpx_cleanup_node_t)
  InitialSizes,  \* sizes fpx_pool_create is called with
  Requests,      \* sizes fpx_palloc is called with
  MallocFails,   \* whether malloc may fail
  ClearsRecords, \* whether the program clears a pool that holds cleanup records
  MaxNodes,      \* bound: memory nodes
  MaxBlocks,     \* bound: blocks in use
  MaxCleanups,   \* bound: cleanups registered at a time
  MaxClears      \* bound: calls of fpx_pool_clear

MinAlloc == 2 * AlignSize

ASSUME SizesAssumption ==
  /\ \A x \in {Word, AlignSize, PageSize, MaxPoolSlot, NodeHeader, PoolHeader,
               MutexHeader, CleanupSize} : x \in Nat \ {0}
  /\ \A x \in {Word, PageSize, NodeHeader, PoolHeader, MutexHeader} : x % AlignSize = 0
  /\ NodeHeader + PoolHeader + MutexHeader < PageSize
  /\ NodeHeader + CleanupSize + AlignSize <= PageSize
  /\ (MaxPoolSlot + 2) * PageSize <= Word
  /\ MallocFails \in BOOLEAN /\ ClearsRecords \in BOOLEAN
  /\ InitialSizes \subseteq 0..Word-1 /\ Requests \subseteq 0..Word-1
ASSUME PoolBoundsAssumption ==
  MaxNodes \in Nat \ {0} /\ MaxBlocks \in Nat /\ MaxCleanups \in Nat /\ MaxClears \in Nat

VARIABLES
  status,    \* "none", "live", "destroyed" or "crashed"
  nodes,     \* pool->nodes: node ids by slot, slot 0 first
  parent,    \* pool->parent, which is also what nodes[MaxPoolSlot] denotes
  heap,      \* the memory nodes that are allocated, by id
  cleanups,  \* pool->cleanups: where each record lives and what it is for
  spare,     \* pool->free_cleanups: where each reserved record lives
  blocks,    \* history: blocks handed out by fpx_palloc and still in use
  large,     \* history: blocks handed out by malloc and not freed
  clears     \* calls of fpx_pool_clear so far

vars == <<status, nodes, parent, heap, cleanups, spare, blocks, large, clears>>

NULL == 0

-----------------------------------------------------------------------------
(* Sizes *)

fpx_align_default(p) ==
  LET q == (p + AlignSize - 1) % Word IN q - (q % AlignSize)

fpx_align_allocation(size) ==
  LET aligned == fpx_align_default(size)
  IN  CASE aligned < size -> 0
        [] aligned >= size /\ aligned < MinAlloc -> MinAlloc
        [] OTHER -> aligned

fpx_get_npages_NoHeader(size) ==
  IF size < PageSize THEN 1 ELSE size \div PageSize + 1

fpx_get_npages(size) ==
  LET total == (size + NodeHeader) % Word
  IN  IF total < PageSize THEN 1 ELSE total \div PageSize + 1

SlotIndex(size) == fpx_get_npages(size) - 1

-----------------------------------------------------------------------------
(* Memory nodes *)

(* fpx_memnode_allocate: a node of so many pages, its header taken off. *)
fpx_memnode_allocate(npages) ==
  [pages |-> npages, size |-> npages * PageSize - NodeHeader,
   first |-> 0, avail |-> npages * PageSize - NodeHeader]

(* What malloc gives next, when the pointers in used are taken. *)
Fresh(used) == CHOOSE n \in 1..Cardinality(used) + 1 : n \notin used

With(f, x, v) == [y \in DOMAIN f \cup {x} |-> IF y = x THEN v ELSE f[y]]

(* Taking size bytes from the front of what is left of a node. *)
Carve_KeepAvail(node, size) == [node EXCEPT !.first = @ + size]

Carve(node, size) ==
  [node EXCEPT !.first = @ + size, !.avail = (@ + Word - size) % Word]

(* The nodes fpx_palloc looks at, in this order, and those it may use. *)
Searched(ns, size) == FlattenSeq(SubSeq(ns, SlotIndex(size) + 1, MaxPoolSlot))

Candidates_AnyRoom(ns, h, size) ==
  {k \in DOMAIN Searched(ns, size) : h[Searched(ns, size)[k]].size >= size}

Candidates(ns, h, size) ==
  {k \in DOMAIN Searched(ns, size) : h[Searched(ns, size)[k]].avail >= size}

(* Registering a node at nodes[index]: index MaxPoolSlot is the parent. *)
Registered(ns, p, index, n) ==
  IF index < MaxPoolSlot
    THEN <<[ns EXCEPT ![index + 1] = <<n>> \o @], p>>
    ELSE <<ns, n>>

(* The locked part of fpx_palloc1: the first candidate, or a new node.     *)
(* The result is the memory after it and the block's place.                *)
Allocate(ns, p, h, size) ==
  LET found == Candidates(ns, h, size)
      n == IF found # {} THEN Searched(ns, size)[Min(found)] ELSE Fresh(DOMAIN h)
      node == IF found # {} THEN h[n] ELSE fpx_memnode_allocate(fpx_get_npages(size))
      lists == IF found # {} THEN <<ns, p>> ELSE Registered(ns, p, SlotIndex(size), n)
  IN  [nodes |-> lists[1], parent |-> lists[2], heap |-> With(h, n, Carve(node, size)),
       at |-> [node |-> n, off |-> node.first, len |-> size]]

(* The room fpx_pool_cleanup_add1 takes for a record it cannot reuse. *)
CleanupRecord == fpx_align_allocation(CleanupSize)

-----------------------------------------------------------------------------
Init ==
  /\ status = "none" /\ clears = 0
  /\ nodes = [i \in 1..MaxPoolSlot |-> <<>>] /\ parent = NULL
  /\ heap = <<>> /\ cleanups = <<>> /\ spare = <<>>
  /\ blocks = <<>> /\ large = {}

(* fpx_pool_create without a parent: the pool and its mutex live at the    *)
(* start of the first node.  A size that is out of range is refused.       *)
Create(size) ==
  LET aligned == fpx_align_allocation(size)
      index == SlotIndex((aligned + PoolHeader) % Word)
      node == fpx_memnode_allocate(index + 1)
      rest == node.size - PoolHeader - MutexHeader
      lists == Registered(nodes, parent, index, 1)
  IN  /\ status = "none" /\ aligned # 0 /\ index <= MaxPoolSlot
      /\ status' = "live"
      /\ heap' = [n \in {1} |-> [node EXCEPT !.size = rest, !.avail = rest]]
      /\ nodes' = lists[1] /\ parent' = lists[2]
      /\ UNCHANGED <<cleanups, spare, blocks, large, clears>>

(* fpx_palloc1 within the slots of the pool.  A size whose alignment       *)
(* wraps, or a failed malloc, returns NULL and changes nothing.            *)
Palloc(size) ==
  LET aligned == fpx_align_allocation(size)
      r == Allocate(nodes, parent, heap, aligned)
  IN  /\ status = "live" /\ aligned # 0 /\ SlotIndex(aligned) <= MaxPoolSlot
      /\ Len(blocks) < MaxBlocks /\ Cardinality(DOMAIN r.heap) <= MaxNodes
      /\ nodes' = r.nodes /\ parent' = r.parent /\ heap' = r.heap
      /\ blocks' = Append(blocks, r.at)
      /\ UNCHANGED <<status, cleanups, spare, large, clears>>

(* fpx_pool_cleanup_add1: a reserved record is used before a new one. *)
AddCleanup(data) ==
  IF spare # <<>>
    THEN /\ cleanups' = <<[at |-> Head(spare), data |-> data]>> \o cleanups
         /\ spare' = Tail(spare)
         /\ UNCHANGED <<nodes, parent, heap>>
    ELSE LET r == Allocate(nodes, parent, heap, CleanupRecord)
         IN  /\ Cardinality(DOMAIN r.heap) <= MaxNodes
             /\ nodes' = r.nodes /\ parent' = r.parent /\ heap' = r.heap
             /\ cleanups' = <<[at |-> r.at, data |-> data]>> \o cleanups
             /\ UNCHANGED spare

(* Cleanups of the program are for data 0, those of fpx_palloc1 for the    *)
(* block to free.                                                          *)
CleanupAdd ==
  /\ status = "live" /\ Len(cleanups) < MaxCleanups
  /\ AddCleanup(0)
  /\ UNCHANGED <<status, blocks, large, clears>>

(* fpx_palloc1 beyond the slots: malloc, and a cleanup that frees it. *)
PallocLarge(size) ==
  LET aligned == fpx_align_allocation(size)
      b == Fresh(large)
  IN  /\ status = "live" /\ aligned # 0 /\ SlotIndex(aligned) > MaxPoolSlot
      /\ Len(cleanups) < MaxCleanups
      /\ large' = large \cup {b}
      /\ AddCleanup(b)
      /\ UNCHANGED <<status, blocks, clears>>

(* fpx_pool_cleanup_add1 does not test what fpx_palloc gave it for a new    *)
(* record: without memory for one it writes through NULL.                  *)
CleanupOutOfMemory ==
  /\ status = "live" /\ MallocFails
  /\ spare = <<>> /\ Candidates(nodes, heap, CleanupRecord) = {}
  /\ status' = "crashed"
  /\ UNCHANGED <<nodes, parent, heap, cleanups, spare, blocks, large, clears>>

(* fpx_pool_cleanup_run1 and fpx_pool_cleanup_remove1 on a cleanup that is *)
(* registered: the first record for that data is reserved.  A large block  *)
(* is freed by the one and left to the program by the other.               *)
CleanupRunOrRemove(i) ==
  /\ status = "live"
  /\ \A j \in 1..i-1 : cleanups[j].data # cleanups[i].data
  /\ cleanups' = RemoveAt(cleanups, i)
  /\ spare' = <<cleanups[i].at>> \o spare
  /\ large' = large \ {cleanups[i].data}
  /\ UNCHANGED <<status, nodes, parent, heap, blocks, clears>>

(* Where the records of the registered cleanups live. *)
Records == [i \in DOMAIN cleanups |-> cleanups[i].at]

(* fpx_pool_cleanup_run_all: last registered first; every record is kept.  *)
(* The handlers of fpx_palloc1 free the large blocks.                      *)
RunAllCleanups_KeepLarge ==
  /\ spare' = Reverse(Records) \o spare
  /\ cleanups' = <<>>
  /\ UNCHANGED large

RunAllCleanups ==
  /\ spare' = Reverse(Records) \o spare
  /\ cleanups' = <<>>
  /\ large' = large \ {cleanups[i].data : i \in DOMAIN cleanups}

RegisteredNodes == ToSet(FlattenSeq(nodes))

(* fpx_pool_clear: the blocks are no longer in use. *)
ResetNode(node) == [node EXCEPT !.first = 0, !.avail = node.size]

Clear ==
  /\ status = "live" /\ clears < MaxClears
  /\ ClearsRecords \/ (cleanups = <<>> /\ spare = <<>>)
  /\ clears' = clears + 1
  /\ RunAllCleanups
  /\ heap' = [n \in DOMAIN heap |->
                IF n \in RegisteredNodes THEN ResetNode(heap[n]) ELSE heap[n]]
  /\ blocks' = <<>>
  /\ UNCHANGED <<status, nodes, parent>>

(* fpx_pool_destroy: the slots are emptied in order.  Node 1 holds the     *)
(* pool itself, so the slots after node 1's are read from freed memory:    *)
(* they are still there, or the access faults.                             *)
Freed(last) == ToSet(FlattenSeq(SubSeq(nodes, 1, last)))

Destroy ==
  /\ status = "live"
  /\ RunAllCleanups
  /\ \/ /\ status' = "destroyed"
        /\ heap' = [n \in DOMAIN heap \ Freed(MaxPoolSlot) |-> heap[n]]
     \/ \E home \in 1..MaxPoolSlot-1 :
          /\ 1 \in ToSet(nodes[home])
          /\ status' = "crashed"
          /\ heap' = [n \in DOMAIN heap \ Freed(home) |-> heap[n]]
  /\ blocks' = <<>>
  /\ UNCHANGED <<nodes, parent, clears>>

(* A pool that has been destroyed, or lost in a fault, does nothing more. *)
Gone == status \in {"destroyed", "crashed"} /\ UNCHANGED vars

Next ==
  \/ \E size \in InitialSizes : Create(size)
  \/ \E size \in Requests : Palloc(size) \/ PallocLarge(size)
  \/ \E i \in DOMAIN cleanups : CleanupRunOrRemove(i)
  \/ CleanupAdd \/ CleanupOutOfMemory \/ Clear \/ Destroy \/ Gone

Spec == Init /\ [][Next]_vars

-----------------------------------------------------------------------------
(* The sizes fpx_pool_get_free_size and fpx_pool_get_total_size report. *)
fpx_pool_get_free_size ==
  SumFunctionOnSet([n \in DOMAIN heap |-> heap[n].avail], RegisteredNodes)

fpx_pool_get_total_size ==
  SumFunction([i \in 1..MaxPoolSlot |-> i * PageSize * Len(nodes[i])])

(* Properties *)

Places == [node : 1..MaxNodes, off : 0..Word-1, len : 0..Word-1]

(* The types of the variables. *)
TypeOK ==
  /\ status \in {"none", "live", "destroyed", "crashed"}
  /\ DOMAIN nodes = 1..MaxPoolSlot /\ \A i \in DOMAIN nodes : ToSet(nodes[i]) \subseteq 1..MaxNodes
  /\ parent \in 0..MaxNodes
  /\ DOMAIN heap \subseteq 1..MaxNodes
  /\ \A n \in DOMAIN heap :
       /\ heap[n].pages \in 1..MaxPoolSlot+1 /\ heap[n].size \in 0..Word-1
       /\ heap[n].first \in 0..heap[n].size /\ heap[n].avail \in 0..heap[n].size
  /\ \A i \in DOMAIN cleanups : cleanups[i].at \in Places
  /\ ToSet(spare) \subseteq Places
  /\ ToSet(blocks) \subseteq Places

(* The memory of the pool that is spoken for. *)
InUse == blocks \o spare \o Records

(* No two blocks share a byte, and no block runs past its node: neither    *)
(* with another block nor with a cleanup record, used or reserved          *)
(* (pool.c:142 "Reserve node").                                            *)
MemoryDisjoint ==
  status = "live" =>
    \A i \in DOMAIN InUse :
      LET a == InUse[i] IN
      /\ a.off + a.len <= heap[a.node].size
      /\ \A j \in DOMAIN InUse \ {i} :
           LET b == InUse[j] IN
           a.node = b.node => a.off + a.len <= b.off \/ b.off + b.len <= a.off

(* The sizes a pool reports add up: fpx_pool_get_free_size is exactly what *)
(* the blocks and cleanup records in use leave over, and                   *)
(* fpx_pool_get_total_size is what the pool took from malloc: every node   *)
(* is on the list of its size (pool.c:15-21).                              *)
SizesExact ==
  status = "live" =>
    /\ fpx_pool_get_free_size + SumFunction([i \in DOMAIN InUse |-> InUse[i].len])
         = SumFunction([n \in DOMAIN heap |-> heap[n].size])
    /\ fpx_pool_get_total_size
         = SumFunction([n \in DOMAIN heap |-> heap[n].pages * PageSize])

(* A destroyed pool has given back every node and every large block        *)
(* (pool.c:281-285 "stored in the pool for further deallocation").         *)
NothingLeaks == status = "destroyed" => DOMAIN heap = {} /\ large = {}
=============================================================================
