----------------------------- MODULE PoolThreads -----------------------------
(***************************************************************************)
(* Threads that share one pool of src/src/system/pool.c built with         *)
(* FPX_POOL_THREAD_SAFETY: blocks are carved and cleanup records linked    *)
(* under the pool's recursive mutex, which fpx_pool_cleanup_run1 and       *)
(* fpx_pool_cleanup_remove1 take only after reading the head of the list.  *)
(* Sizes are left to module Pool: a block is one unit and its address the  *)
(* number of the unit.  Clearing and destroying are for the pool's owner   *)
(* alone and are modelled there too.                                       *)
(*                                                                         *)
(* A definition Name_Fault is Name with a fault put in; PROJECT.json tells *)
(* which property each of them breaks.  The specification uses none.       *)
(***************************************************************************)
EXTENDS Naturals, Sequences, FiniteSets, Sync

CONSTANTS
  Threads,
  NoThread,    \* the holder of a free mutex
  Data,        \* what cleanups are registered for; each is registered once
  NULL,        \* the null pointer
  MaxCalls     \* bound: calls each thread makes

(* A call takes at most two blocks. *)
Blocks == 1 .. 2 * MaxCalls * Cardinality(Threads)

ASSUME PoolThreadsAssumption ==
  /\ IsFiniteSet(Threads) /\ NoThread \notin Threads
  /\ NULL \notin Data /\ NULL \notin Blocks
  /\ MaxCalls \in Nat

VARIABLES
  mutex,          \* pool->mutex: who holds it and how many times
  cleanups,       \* pool->cleanups
  free_cleanups,  \* pool->free_cleanups
  next, data,     \* the fields of the cleanup records, by address
  first,          \* node->first_avail
  crashed,        \* whether a wild pointer has ended the program
  pc,             \* where each thread is in a call
  op,             \* the call: "palloc", "large", "add", "run" or "remove"
  want,           \* its argument data
  node, prev,     \* its local pointers; mem is kept in node, and prev is NULL
                  \* while it has not been set
  calls,          \* calls each thread has begun
  given,          \* history: blocks and records in the order they were given
  linked,         \* history: data whose cleanup has been linked
  settled,        \* history: data whose cleanup has been run or removed
  careful         \* history: every call so far was Disciplined

lists == <<cleanups, free_cleanups, next, data>>
locals == <<op, want, node, prev>>
history == <<linked, settled>>
vars == <<mutex, lists, first, crashed, pc, locals, calls, given, history, careful>>

Init ==
  /\ mutex = [holder |-> NoThread, depth |-> 0]
  /\ cleanups = NULL /\ free_cleanups = NULL
  /\ next = [b \in Blocks |-> NULL] /\ data = [b \in Blocks |-> NULL]
  /\ first = 1 /\ crashed = FALSE
  /\ pc = [t \in Threads |-> "idle"] /\ op = [t \in Threads |-> "add"]
  /\ want = [t \in Threads |-> NULL]
  /\ node = [t \in Threads |-> NULL] /\ prev = [t \in Threads |-> NULL]
  /\ calls = [t \in Threads |-> 0]
  /\ given = <<>> /\ linked = {} /\ settled = {} /\ careful = TRUE

Goto(t, where) == pc' = [pc EXCEPT ![t] = where]

-----------------------------------------------------------------------------
(* Entering a call. *)

Finding == {"run", "remove"}
Idle(t) == pc[t] = "idle"
Others(t) == Threads \ {t}

Alone(t) == \A u \in Others(t) : Idle(u)
Undisturbed(t) == \A u \in Others(t) : ~ (op[u] \in Finding /\ ~Idle(u))

(* How a careful program calls: it runs and removes only cleanups that are *)
(* registered, and only while no other thread is inside a call.            *)
Disciplined(t, name, d) ==
  /\ Undisturbed(t)
  /\ name \in Finding => Alone(t) /\ d \in linked \ settled

(* Data whose registration some thread has begun. *)
Begun == linked \cup {want[t] : t \in {u \in Threads : ~Idle(u)}}

Begin(t, name, d) ==
  /\ Idle(t) /\ calls[t] < MaxCalls /\ ~crashed
  /\ calls' = [calls EXCEPT ![t] = @ + 1]
  /\ op' = [op EXCEPT ![t] = name]
  /\ want' = [want EXCEPT ![t] = d]
  /\ careful' = (careful /\ Disciplined(t, name, d))
  /\ UNCHANGED <<mutex, lists, first, crashed, prev, given, history>>

(* fpx_palloc1 of a size that fits the slots. *)
CallPalloc(t) ==
  /\ Begin(t, "palloc", NULL)
  /\ Goto(t, "lock")
  /\ UNCHANGED node

(* fpx_palloc1 of a size that wraps: the mutex is unlocked, not locked. *)
CallPallocRefused(t) ==
  /\ Begin(t, "palloc", NULL)
  /\ Goto(t, "unlock")
  /\ UNCHANGED node

(* fpx_pool_cleanup_add1, from the program or from fpx_palloc1 for a large *)
(* block.                                                                  *)
CallAdd(t, name, d) ==
  /\ d \notin Begun
  /\ Begin(t, name, d)
  /\ Goto(t, "lock")
  /\ UNCHANGED node

(* fpx_pool_cleanup_run1 and fpx_pool_cleanup_remove1: the head is read    *)
(* before the mutex is locked.                                             *)
CallFind(t, name, d) ==
  /\ Begin(t, name, d)
  /\ node' = [node EXCEPT ![t] = cleanups]
  /\ Goto(t, "lock")

-----------------------------------------------------------------------------
(* The mutex. *)

Body(t) ==
  CASE op[t] = "palloc" -> "read_first"
    [] op[t] \in {"add", "large"} -> "pick"
    [] OTHER -> "walk"

Lock_NoWait(t) ==
  /\ pc[t] = "lock"
  /\ Goto(t, Body(t))
  /\ UNCHANGED <<mutex, lists, first, crashed, locals, calls, given, history>>

Lock(t) ==
  /\ pc[t] = "lock"
  /\ fpx_mutex_lock_recursive(mutex, t, NoThread)
  /\ Goto(t, Body(t))
  /\ UNCHANGED <<lists, first, crashed, locals, calls, given, history>>

(* fpx_palloc1 of a large block unlocks once more after the cleanup_add. *)
Unlock_Missing(t) ==
  /\ pc[t] = "unlock"
  /\ Goto(t, "idle")
  /\ UNCHANGED <<mutex, lists, first, crashed, locals, calls, given, history>>

Unlock(t) ==
  /\ pc[t] = "unlock"
  /\ fpx_mutex_unlock_recursive(mutex, t, NoThread)
  /\ IF op[t] = "large"
       THEN op' = [op EXCEPT ![t] = "palloc"] /\ UNCHANGED pc
       ELSE Goto(t, "idle") /\ UNCHANGED op
  /\ UNCHANGED <<lists, first, crashed, want, node, prev, calls, given, history>>

-----------------------------------------------------------------------------
(* The bodies, which run with the mutex held. *)

(* mem = node->first_avail *)
ReadFirst(t) ==
  /\ pc[t] = "read_first"
  /\ node' = [node EXCEPT ![t] = first]
  /\ Goto(t, "advance")
  /\ UNCHANGED <<mutex, lists, first, crashed, op, want, prev, calls, given, history>>

(* node->first_avail += align_size *)
Advance(t) ==
  /\ pc[t] = "advance"
  /\ first' = first + 1
  /\ given' = Append(given, node[t])
  /\ Goto(t, "unlock")
  /\ UNCHANGED <<mutex, lists, crashed, locals, calls, history>>

(* A reserved record, or a new one: the fpx_palloc inside locks the mutex  *)
(* once more and unlocks it.                                               *)
Pick(t) ==
  /\ pc[t] = "pick"
  /\ IF free_cleanups # NULL
       THEN /\ node' = [node EXCEPT ![t] = free_cleanups]
            /\ free_cleanups' = next[free_cleanups]
            /\ UNCHANGED <<first, given>>
       ELSE /\ node' = [node EXCEPT ![t] = first]
            /\ first' = first + 1
            /\ given' = Append(given, first)
            /\ UNCHANGED free_cleanups
  /\ Goto(t, "link")
  /\ UNCHANGED <<mutex, cleanups, next, data, crashed, op, want, prev, calls, history>>

Link_LoseRest(t) ==
  /\ pc[t] = "link"
  /\ data' = [data EXCEPT ![node[t]] = want[t]]
  /\ cleanups' = node[t]
  /\ linked' = linked \cup {want[t]}
  /\ Goto(t, "unlock")
  /\ UNCHANGED <<mutex, free_cleanups, next, first, crashed, locals, calls, given, settled>>

Link(t) ==
  /\ pc[t] = "link"
  /\ data' = [data EXCEPT ![node[t]] = want[t]]
  /\ next' = [next EXCEPT ![node[t]] = cleanups]
  /\ cleanups' = node[t]
  /\ linked' = linked \cup {want[t]}
  /\ Goto(t, "unlock")
  /\ UNCHANGED <<mutex, free_cleanups, first, crashed, locals, calls, given, settled>>

(* One turn of the search.  "Not found" returns with the mutex held. *)
NotFound(t) ==
  /\ node[t] = NULL
  /\ prev' = [prev EXCEPT ![t] = NULL]
  /\ Goto(t, "idle")
  /\ UNCHANGED <<node, settled>>

Found(t) ==
  /\ node[t] # NULL /\ data[node[t]] = want[t]
  /\ settled' = settled \cup {want[t]}
  /\ Goto(t, "unlink")
  /\ UNCHANGED <<node, prev>>

Step(t) ==
  /\ node[t] # NULL /\ data[node[t]] # want[t]
  /\ prev' = [prev EXCEPT ![t] = node[t]]
  /\ node' = [node EXCEPT ![t] = next[node[t]]]
  /\ UNCHANGED <<pc, settled>>

Walk(t) ==
  /\ pc[t] = "walk"
  /\ NotFound(t) \/ Found(t) \/ Step(t)
  /\ UNCHANGED <<mutex, lists, first, crashed, op, want, calls, given, linked>>

(* Taking the record out of the list.  If it is the one the search began   *)
(* at and no longer the head, `prev' was never set: the write through it   *)
(* faults, or goes astray.                                                 *)
Unlink(t) ==
  /\ pc[t] = "unlink"
  /\ \/ /\ cleanups = node[t]
        /\ cleanups' = next[node[t]]
        /\ UNCHANGED <<next, crashed>>
     \/ /\ cleanups # node[t] /\ prev[t] # NULL
        /\ next' = [next EXCEPT ![prev[t]] = next[node[t]]]
        /\ UNCHANGED <<cleanups, crashed>>
     \/ /\ cleanups # node[t] /\ prev[t] = NULL
        /\ crashed' \in BOOLEAN
        /\ UNCHANGED <<cleanups, next>>
  /\ Goto(t, "reserve")
  /\ UNCHANGED <<mutex, free_cleanups, data, first, locals, calls, given, history>>

Reserve(t) ==
  /\ pc[t] = "reserve"
  /\ next' = [next EXCEPT ![node[t]] = free_cleanups]
  /\ free_cleanups' = node[t]
  /\ prev' = [prev EXCEPT ![t] = NULL]
  /\ Goto(t, "unlock")
  /\ UNCHANGED <<mutex, cleanups, data, first, crashed, op, want, node, calls, given, history>>

-----------------------------------------------------------------------------
InCall(t) ==
  /\ ~crashed /\ UNCHANGED careful
  /\ \/ Lock(t) \/ Unlock(t) \/ ReadFirst(t) \/ Advance(t) \/ Pick(t)
     \/ Link(t) \/ Walk(t) \/ Unlink(t) \/ Reserve(t)

Call(t) ==
  \/ CallPalloc(t) \/ CallPallocRefused(t)
  \/ \E d \in Data, name \in {"add", "large"} : CallAdd(t, name, d)
  \/ \E d \in Data, name \in Finding : CallFind(t, name, d)

(* Every call of the bounded program has returned, or it has crashed. *)
Finished ==
  /\ crashed \/ \A t \in Threads : Idle(t)
  /\ UNCHANGED vars

Next == (\E t \in Threads : Call(t) \/ InCall(t)) \/ Finished

Spec == Init /\ [][Next]_vars

(* Every thread runs; calls are the program's choice.  Calls are bounded,  *)
(* so weak fairness is enough for the mutex.                               *)
FairSpec == Spec /\ \A t \in Threads : WF_vars(InCall(t))

-----------------------------------------------------------------------------
(* Properties *)

(* The record k steps down a list. *)
Follow(r, k) ==
  LET f[i \in 0..k] == IF i = 0 THEN r ELSE IF f[i-1] = NULL THEN NULL ELSE next[f[i-1]]
  IN  f[k]

Records(r) == {Follow(r, k) : k \in 0..Cardinality(Blocks)} \ {NULL}

(* The types of the variables. *)
TypeOK ==
  /\ mutex \in [holder : Threads \cup {NoThread}, depth : 0..2 * MaxCalls]
  /\ cleanups \in Blocks \cup {NULL} /\ free_cleanups \in Blocks \cup {NULL}
  /\ next \in [Blocks -> Blocks \cup {NULL}] /\ data \in [Blocks -> Data \cup {NULL}]
  /\ first \in Nat \ {0} /\ crashed \in BOOLEAN
  /\ pc \in [Threads -> {"idle", "lock", "unlock", "read_first", "advance", "pick",
                         "link", "walk", "unlink", "reserve"}]
  /\ op \in [Threads -> {"palloc", "large", "add"} \cup Finding]
  /\ want \in [Threads -> Data \cup {NULL}]
  /\ node \in [Threads -> Blocks \cup {NULL}] /\ prev \in [Threads -> Blocks \cup {NULL}]
  /\ calls \in [Threads -> 0..MaxCalls]
  /\ given \in Seq(Blocks) /\ linked \subseteq Data /\ settled \subseteq Data
  /\ careful \in BOOLEAN

(* No block is given to two callers, be it memory or a cleanup record      *)
(* (pool.c:302-306 and 371).                                               *)
BlocksDistinct == \A i, j \in 1..Len(given) : i # j => given[i] # given[j]

(* A thread that carves a block or changes a list holds the mutex: the     *)
(* unlocks of fpx_palloc1 without a lock (pool.c:332, 339) and the missing *)
(* ones of run1 and remove1 never let a second thread in.                  *)
OneInside ==
  \A t \in Threads :
    pc[t] \in {"read_first", "advance", "pick", "link", "walk", "unlink", "reserve"}
      => mutex.holder = t

(* While nobody is inside the pool, the cleanups in its list are those     *)
(* that were registered and neither run nor removed, and no record is in   *)
(* the list and reserved at the same time (pool.c:416 "Reserve node").  It *)
(* holds as long as the program is careful: the head of the list is read   *)
(* outside of the mutex (pool.c:389).                                      *)
ListIntact ==
  careful /\ mutex.holder = NoThread =>
    /\ {data[r] : r \in Records(cleanups)} = linked \ settled
    /\ Records(cleanups) \cap Records(free_cleanups) = {}
    /\ Follow(cleanups, Cardinality(Blocks)) = NULL

(* A thread outside the pool's functions does not hold the mutex, as long  *)
(* as the program is careful: a search without success returns with it     *)
(* (pool.c:404).                                                           *)
LockGivenBack == careful => \A t \in Threads : Idle(t) => mutex.holder # t

(* A call on the pool returns, whatever the other threads do, unless the   *)
(* program is careless.                                                    *)
CallsReturn == \A t \in Threads : ~Idle(t) ~> Idle(t) \/ ~careful
=============================================================================
