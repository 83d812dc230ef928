-------------------------- MODULE PoolThreadsProofs --------------------------
(***************************************************************************)
(* What holds of a pool shared by any number of threads.  However they use *)
(* it: the mutex keeps them apart (OneInside) although some calls unlock   *)
(* it without a lock and some keep it, so no block is given twice          *)
(* (BlocksDistinct), and every variable keeps its type (TypeOK).  If they  *)
(* run and remove cleanups only when registered and while no other thread  *)
(* is inside (careful): the lists of cleanups and of reserved records stay *)
(* apart, finite and exact (ListIntact), and no call keeps the mutex       *)
(* (LockGivenBack).                                                        *)
(***************************************************************************)
EXTENDS PoolThreads, Integers, DataInduction, FiniteSetTheorems

InBody == {"read_first", "advance", "pick", "link", "walk", "unlink", "reserve"}

(* The parts of the state the argument is about. *)
Shape ==
  /\ mutex \in [holder : Threads \cup {NoThread}, depth : Int]
  /\ pc \in [Threads -> {"idle", "lock", "unlock"} \cup InBody]
  /\ op \in [Threads -> {"palloc", "large", "add"} \cup Finding]
  /\ DOMAIN node = Threads
  /\ first \in Nat

(* Everything given out lies below first_avail, and first_avail is what a  *)
(* thread that is about to advance it has read.                            *)
Below ==
  /\ given \in Seq(Nat)
  /\ \A i \in 1..Len(given) : given[i] < first
  /\ \A t \in Threads : pc[t] = "advance" => node[t] = first

IInv == Shape /\ OneInside /\ Below /\ BlocksDistinct

(* The initial state: nobody is inside and nothing has been given. *)
LEMMA InitInv == Init => IInv
  BY PoolThreadsAssumption DEF Init, IInv, Shape, InBody, Finding, OneInside, Below, BlocksDistinct

(* Entering a call gives nothing out and enters no body. *)
LEMMA BeginInv ==
  ASSUME IInv, NEW t \in Threads, NEW where \in {"lock", "unlock"}, pc[t] = "idle",
         Goto(t, where), UNCHANGED <<mutex, first, given>>,
         op' \in [Threads -> {"palloc", "large", "add"} \cup Finding],
         DOMAIN node' = Threads, \A u \in Threads \ {t} : node'[u] = node[u]
  PROVE  IInv'
<1>1. Shape' BY DEF IInv, Shape, Goto
<1>2. \A u \in Threads : pc'[u] = IF u = t THEN where ELSE pc[u]
  BY DEF IInv, Shape, Goto
<1>3. OneInside' BY <1>2 DEF IInv, OneInside
<1>4. Below' BY <1>2 DEF IInv, Below
<1>5. BlocksDistinct' BY DEF IInv, BlocksDistinct
<1> QED BY <1>1, <1>3, <1>4, <1>5 DEF IInv

(* A step inside a body, or out of one, that gives nothing out. *)
LEMMA BodyInv ==
  ASSUME IInv, NEW t \in Threads, pc[t] \in InBody,
         NEW where \in InBody \cup {"idle", "unlock"},
         Goto(t, where), UNCHANGED <<mutex, op, first, given>>,
         where = "advance" => node'[t] = first,
         DOMAIN node' = Threads, \A u \in Threads \ {t} : node'[u] = node[u]
  PROVE  IInv'
<1>1. Shape' BY DEF IInv, Shape, Goto
<1>2. \A u \in Threads : pc'[u] = IF u = t THEN where ELSE pc[u]
  BY DEF IInv, Shape, Goto
<1>3. mutex.holder = t BY DEF IInv, OneInside, InBody
<1>4. OneInside' BY <1>2, <1>3 DEF IInv, OneInside
<1>5. Below' BY <1>2 DEF IInv, Below
<1>6. BlocksDistinct' BY DEF IInv, BlocksDistinct
<1> QED BY <1>1, <1>4, <1>5, <1>6 DEF IInv

(* A step inside a body that gives out the block at first_avail: nobody    *)
(* else is inside, so nobody else has read it.                             *)
LEMMA GiveInv ==
  ASSUME IInv, NEW t \in Threads, pc[t] \in InBody,
         NEW where \in {"link", "unlock"},
         Goto(t, where), UNCHANGED <<mutex, op>>,
         given' = Append(given, first), first' = first + 1,
         DOMAIN node' = Threads
  PROVE  IInv'
<1>1. Shape' BY DEF IInv, Shape, Goto, InBody
<1>2. \A u \in Threads : pc'[u] = IF u = t THEN where ELSE pc[u]
  BY DEF IInv, Shape, Goto
<1>3. mutex.holder = t BY DEF IInv, OneInside, InBody
<1>4. OneInside' BY <1>2, <1>3 DEF IInv, OneInside
<1>5. \A u \in Threads : pc'[u] # "advance"
  BY <1>2, <1>3 DEF IInv, OneInside
<1>6. /\ given' \in Seq(Nat) /\ Len(given') = Len(given) + 1
      /\ \A i \in 1..Len(given) : given'[i] = given[i]
      /\ given'[Len(given) + 1] = first /\ Len(given) \in Nat
  BY DEF IInv, Shape, Below
<1>7. Below' BY <1>5, <1>6 DEF IInv, Shape, Below
<1>8. BlocksDistinct'
  <2> SUFFICES ASSUME NEW i \in 1..Len(given'), NEW j \in 1..Len(given'), i # j
               PROVE  given'[i] # given'[j]
    BY DEF BlocksDistinct
  <2>1. CASE i <= Len(given) /\ j <= Len(given)
    BY <1>6, <2>1 DEF IInv, BlocksDistinct
  <2>2. CASE i = Len(given) + 1 /\ j <= Len(given)
    BY <1>6, <2>2 DEF IInv, Shape, Below
  <2>3. CASE j = Len(given) + 1 /\ i <= Len(given)
    BY <1>6, <2>3 DEF IInv, Shape, Below
  <2> QED BY <1>6, <2>1, <2>2, <2>3
<1> QED BY <1>1, <1>4, <1>7, <1>8 DEF IInv

(* Locking: the thread that enters a body is the holder, and there was     *)
(* none or it was the same.                                                *)
LEMMA LockInv ==
  ASSUME IInv, NEW t \in Threads, Lock(t)
  PROVE  IInv'
<1>1. Body(t) \in {"read_first", "pick", "walk"} BY DEF Body
<1>2. /\ mutex.holder \in {t, NoThread}
      /\ mutex' = [holder |-> t, depth |-> mutex.depth + 1]
      /\ pc' = [pc EXCEPT ![t] = Body(t)]
      /\ UNCHANGED <<op, node, first, given>>
  BY DEF Lock, Goto, fpx_mutex_lock_recursive, locals
<1>3. mutex'.holder = t BY <1>2
<1>4. Shape' BY <1>1, <1>2 DEF IInv, Shape, InBody
<1>5. \A u \in Threads : pc'[u] = IF u = t THEN Body(t) ELSE pc[u]
  BY <1>2 DEF IInv, Shape
<1>6. OneInside'
  BY <1>2, <1>3, <1>5, PoolThreadsAssumption DEF IInv, OneInside
<1>7. Below' BY <1>1, <1>2, <1>5 DEF IInv, Below
<1>8. BlocksDistinct' BY <1>2 DEF IInv, BlocksDistinct
<1> QED BY <1>4, <1>6, <1>7, <1>8 DEF IInv

(* Unlocking, with the lock or without: a thread that is inside is the     *)
(* holder, and an unlock by another thread does not touch its mutex.       *)
LEMMA UnlockInv ==
  ASSUME IInv, NEW t \in Threads, Unlock(t)
  PROVE  IInv'
<1>1. /\ pc[t] = "unlock"
      /\ UNCHANGED <<node, first, given>>
      /\ pc' = pc \/ pc' = [pc EXCEPT ![t] = "idle"]
      /\ op' = op \/ op' = [op EXCEPT ![t] = "palloc"]
  BY DEF Unlock, Goto
<1>2. \/ mutex' = mutex
      \/ mutex.holder = t /\ mutex' = [holder |-> NoThread, depth |-> 0]
      \/ mutex.holder = t /\ mutex' = [mutex EXCEPT !.depth = @ - 1]
  BY DEF Unlock, fpx_mutex_unlock_recursive
<1>3. mutex' \in [holder : Threads \cup {NoThread}, depth : Int]
  BY <1>2 DEF IInv, Shape
<1>4. mutex.holder # t => mutex'.holder = mutex.holder
  BY <1>2
<1>5. Shape' BY <1>1, <1>3 DEF IInv, Shape, InBody
<1>6. \A u \in Threads : pc'[u] \in InBody => pc'[u] = pc[u] /\ u # t
  BY <1>1 DEF IInv, Shape, InBody
<1>7. OneInside'
  <2> SUFFICES ASSUME NEW u \in Threads, pc'[u] \in InBody
               PROVE  mutex'.holder = u
    BY DEF OneInside, InBody
  <2>1. mutex.holder = u /\ u # t BY <1>6 DEF IInv, OneInside, InBody
  <2> QED BY <2>1, <1>4
<1>8. Below' BY <1>1, <1>6 DEF IInv, Below, InBody
<1>9. BlocksDistinct' BY <1>1 DEF IInv, BlocksDistinct
<1> QED BY <1>5, <1>7, <1>8, <1>9 DEF IInv

(* Every step keeps the invariant. *)
LEMMA NextInv == IInv /\ [Next]_vars => IInv'
<1> SUFFICES ASSUME IInv, [Next]_vars PROVE IInv'
  OBVIOUS
<1>1. CASE UNCHANGED vars
  BY <1>1 DEF vars, lists, locals, IInv, Shape, OneInside, Below, BlocksDistinct
<1>2. ASSUME NEW t \in Threads, Call(t) PROVE IInv'
  <2>1. ASSUME NEW name \in {"palloc", "large", "add"} \cup Finding, NEW d,
               NEW where \in {"lock", "unlock"},
               Begin(t, name, d), Goto(t, where),
               UNCHANGED node \/ node' = [node EXCEPT ![t] = cleanups]
        PROVE  IInv'
    <3>1. pc[t] = "idle" /\ UNCHANGED <<mutex, first, given>> /\ op' = [op EXCEPT ![t] = name]
      BY <2>1 DEF Begin, Idle
    <3>2. op' \in [Threads -> {"palloc", "large", "add"} \cup Finding]
      BY <3>1 DEF IInv, Shape
    <3>3. DOMAIN node' = Threads /\ \A u \in Threads \ {t} : node'[u] = node[u]
      BY <2>1 DEF IInv, Shape
    <3> QED BY <2>1, <3>1, <3>2, <3>3, BeginInv
  <2>2. CASE CallPalloc(t) BY <2>1, <2>2 DEF CallPalloc
  <2>3. CASE CallPallocRefused(t) BY <2>1, <2>3 DEF CallPallocRefused
  <2>4. ASSUME NEW d \in Data, NEW name \in {"add", "large"}, CallAdd(t, name, d) PROVE IInv'
    BY <2>1, <2>4 DEF CallAdd
  <2>5. ASSUME NEW d \in Data, NEW name \in Finding, CallFind(t, name, d) PROVE IInv'
    BY <2>1, <2>5 DEF CallFind
  <2> QED BY <1>2, <2>2, <2>3, <2>4, <2>5 DEF Call
<1>3. ASSUME NEW t \in Threads, InCall(t) PROVE IInv'
  <2>1. CASE Lock(t) BY <2>1, LockInv
  <2>2. CASE Unlock(t) BY <2>2, UnlockInv
  <2>3. CASE ReadFirst(t)
    <3>1. DOMAIN node' = Threads /\ node'[t] = first
          /\ \A u \in Threads \ {t} : node'[u] = node[u]
      BY <2>3 DEF ReadFirst, IInv, Shape
    <3> QED BY <2>3, <3>1, BodyInv DEF ReadFirst, InBody
  <2>4. CASE Advance(t)
    <3>1. node[t] = first BY <2>4 DEF Advance, IInv, Below
    <3>2. DOMAIN node' = Threads BY <2>4 DEF Advance, locals, IInv, Shape
    <3> QED BY <2>4, <3>1, <3>2, GiveInv DEF Advance, locals, InBody
  <2>5. CASE Pick(t)
    <3>1. pc[t] \in InBody /\ Goto(t, "link") /\ UNCHANGED <<mutex, op>>
      BY <2>5 DEF Pick, InBody
    <3>2. DOMAIN node' = Threads /\ \A u \in Threads \ {t} : node'[u] = node[u]
      BY <2>5 DEF Pick, IInv, Shape
    <3>3. CASE UNCHANGED <<first, given>>
      BY <3>1, <3>2, <3>3, BodyInv DEF InBody
    <3>4. CASE first' = first + 1 /\ given' = Append(given, first)
      BY <3>1, <3>2, <3>4, GiveInv
    <3> QED BY <2>5, <3>3, <3>4 DEF Pick
  <2>6. CASE Link(t)
    <3>1. DOMAIN node' = Threads /\ node' = node BY <2>6 DEF Link, locals, IInv, Shape
    <3> QED BY <2>6, <3>1, BodyInv DEF Link, locals, InBody
  <2>7. CASE Walk(t)
    <3>1. pc[t] = "walk" /\ UNCHANGED <<mutex, op, first, given>> BY <2>7 DEF Walk
    <3>2. pc[t] \in InBody BY <3>1 DEF InBody
    <3>3. CASE NotFound(t)
      <4>1. DOMAIN node' = Threads /\ node' = node BY <3>3 DEF NotFound, IInv, Shape
      <4> QED BY <3>1, <3>2, <3>3, <4>1, BodyInv DEF NotFound
    <3>4. CASE Found(t)
      <4>1. DOMAIN node' = Threads /\ node' = node BY <3>4 DEF Found, IInv, Shape
      <4> QED BY <3>1, <3>2, <3>4, <4>1, BodyInv DEF Found, InBody
    <3>5. CASE Step(t)
      <4>1. DOMAIN node' = Threads /\ \A u \in Threads \ {t} : node'[u] = node[u]
        BY <3>5 DEF Step, IInv, Shape
      <4>2. Goto(t, "walk") BY <3>1, <3>5 DEF Step, Goto, IInv, Shape
      <4> QED BY <3>1, <3>2, <4>1, <4>2, BodyInv DEF InBody
    <3> QED BY <2>7, <3>3, <3>4, <3>5 DEF Walk
  <2>8. CASE Unlink(t)
    <3>1. DOMAIN node' = Threads /\ node' = node BY <2>8 DEF Unlink, locals, IInv, Shape
    <3> QED BY <2>8, <3>1, BodyInv DEF Unlink, locals, InBody
  <2>9. CASE Reserve(t)
    <3>1. DOMAIN node' = Threads /\ node' = node BY <2>9 DEF Reserve, IInv, Shape
    <3> QED BY <2>9, <3>1, BodyInv DEF Reserve, InBody
  <2> QED BY <1>3, <2>1, <2>2, <2>3, <2>4, <2>5, <2>6, <2>7, <2>8, <2>9 DEF InCall
<1> QED BY <1>1, <1>2, <1>3 DEF Next, Finished

(* However many threads use a pool and whatever they call, the thread that *)
(* carves a block or changes a list of the pool holds its mutex.           *)
THEOREM OneThreadInside == Spec => []OneInside
<1>1. IInv => OneInside BY DEF IInv
<1> QED BY InitInv, NextInv, <1>1, PTL DEF Spec

(* No block and no cleanup record of the pool is given out twice. *)
THEOREM NoBlockGivenTwice == Spec => []BlocksDistinct
<1>1. IInv => BlocksDistinct BY DEF IInv
<1> QED BY InitInv, NextInv, <1>1, PTL DEF Spec

-----------------------------------------------------------------------------
(* The types.  Blocks run out only when the calls do: a call takes at most *)
(* one, so the blocks given are no more than the calls that have got past  *)
(* the point where they take theirs.                                       *)

Giving == {"lock", "read_first", "advance", "pick"}

Adding == {"add", "large"}

Spent ==
  {p \in Threads \X (1..MaxCalls) :
     p[2] < calls[p[1]] \/ (p[2] = calls[p[1]] /\ pc[p[1]] \notin Giving)}

Counted ==
  /\ first = Len(given) + 1 /\ Len(given) <= Cardinality(Spent)
  /\ \A t \in Threads : ~Idle(t) => calls[t] > 0

(* A thread holds the mutex no more often than it has called. *)
Depth ==
  /\ mutex.holder = NoThread => mutex.depth = 0
  /\ \A t \in Threads : mutex.holder = t =>
       /\ mutex.depth > 0
       /\ mutex.depth <= IF pc[t] = "lock" THEN calls[t] - 1 ELSE calls[t]

(* Only registrations link a record and only searches walk the list. *)
Kinds ==
  \A t \in Threads :
    /\ pc[t] \in {"pick", "link"} => op[t] \in Adding
    /\ pc[t] \in {"walk", "unlink", "reserve"} => op[t] \in Finding
    /\ ~Idle(t) /\ op[t] \in Adding \cup Finding => want[t] \in Data
    /\ pc[t] = "unlink" => node[t] # NULL

TInv == TypeOK /\ Counted /\ Depth /\ Kinds

(* There are two blocks for every call the threads can make. *)
LEMMA SpentIs ==
  \E k \in Nat :
           /\ IsFiniteSet(Threads \X (1..MaxCalls))
           /\ Cardinality(Threads \X (1..MaxCalls)) = k
           /\ Blocks = 1..(2 * k)
<1>1. PICK m \in Nat, n \in Nat : m = MaxCalls /\ n = Cardinality(Threads)
  BY PoolThreadsAssumption, FS_CardinalityType
<1>2. IsFiniteSet(1..m) /\ Cardinality(1..m) = m
  <2>1. IsFiniteSet(1..m) /\ Cardinality(1..m) = IF 1 > m THEN 0 ELSE m - 1 + 1
    BY FS_Interval
  <2> QED
    BY <2>1
<1>3. /\ IsFiniteSet(Threads \X (1..m))
      /\ Cardinality(Threads \X (1..m)) = n * m
  <2>1. IsFiniteSet(Threads)
    BY PoolThreadsAssumption
  <2>2. /\ IsFiniteSet(Threads \X (1..m))
        /\ Cardinality(Threads \X (1..m)) = Cardinality(Threads) * Cardinality(1..m)
    BY <1>2, <2>1, FS_Product
  <2> QED
    BY <1>1, <1>2, <2>2
<1>4. n * m \in Nat /\ 2 * m * n = 2 * (n * m)
  OBVIOUS
<1> QED
  BY <1>1, <1>3, <1>4 DEF Blocks

(* The calls that are past taking a block only become more. *)
LEMMA SpentGrows ==
  ASSUME Spent \subseteq Spent'
  PROVE  /\ Cardinality(Spent) \in Nat /\ Cardinality(Spent') \in Nat
         /\ Cardinality(Spent) <= Cardinality(Spent')
<1>1. PICK S : S = Threads \X (1..MaxCalls) /\ IsFiniteSet(S)
  BY SpentIs
<1>2. Spent \subseteq S /\ Spent' \subseteq S
  BY <1>1 DEF Spent
<1>3. IsFiniteSet(Spent) /\ IsFiniteSet(Spent')
  BY <1>1, <1>2, FS_Subset
<1>4. Cardinality(Spent) <= Cardinality(Spent')
  BY <1>3, FS_Subset
<1> QED
  BY <1>3, <1>4, FS_CardinalityType

(* A thread that has still to take a block finds one. *)
LEMMA RoomLeft ==
  ASSUME TInv, NEW t \in Threads, pc[t] \in Giving
  PROVE  /\ first \in Blocks
         /\ <<t, calls[t]>> \in Threads \X (1..MaxCalls) /\ <<t, calls[t]>> \notin Spent
<1>1. calls[t] \in 1..MaxCalls
  <2>1. calls[t] \in 0..MaxCalls /\ MaxCalls \in Nat
    BY PoolThreadsAssumption DEF TInv, TypeOK
  <2>2. calls[t] > 0
    BY DEF TInv, Counted, Giving, Idle
  <2> QED
    BY <2>1, <2>2
<1>2. <<t, calls[t]>> \in Threads \X (1..MaxCalls)
  BY <1>1
<1>3. <<t, calls[t]>> \notin Spent
  BY <1>1 DEF Spent
<1>4. PICK k \in Nat : /\ IsFiniteSet(Threads \X (1..MaxCalls))
                       /\ Cardinality(Threads \X (1..MaxCalls)) = k
                       /\ Blocks = 1..(2 * k)
  BY SpentIs
<1>5. Spent \cup {<<t, calls[t]>>} \subseteq Threads \X (1..MaxCalls)
  BY <1>2 DEF Spent
<1>6. PICK S, x, U : S = Spent /\ x = <<t, calls[t]>> /\ U = Threads \X (1..MaxCalls)
  OBVIOUS
<1>7. IsFiniteSet(S)
  BY <1>4, <1>5, <1>6, FS_Subset
<1>8. Cardinality(S \cup {x}) = Cardinality(S) + 1 /\ Cardinality(S) \in Nat
  BY <1>3, <1>6, <1>7, FS_AddElement, FS_CardinalityType
<1>9. Cardinality(S \cup {x}) <= k
  BY <1>4, <1>5, <1>6, FS_Subset
<1>10. Len(given) \in Nat /\ Len(given) <= Cardinality(S) /\ first = Len(given) + 1
  BY <1>6 DEF TInv, TypeOK, Counted
<1>11. first \in 1..(2 * k)
  BY <1>8, <1>9, <1>10
<1> QED
  BY <1>2, <1>3, <1>4, <1>11

(* A step within a call that takes no block. *)
LEMMA CountedKept ==
  ASSUME TInv, NEW t \in Threads, NEW where, ~Idle(t), Goto(t, where),
         where \in Giving => pc[t] \in Giving, UNCHANGED <<calls, first, given>>
  PROVE  Counted'
<1>1. \A u \in Threads : pc'[u] = IF u = t THEN where ELSE pc[u]
  BY DEF TInv, TypeOK, Goto
<1>2. Spent \subseteq Spent'
  BY <1>1 DEF Spent
<1>3. Len(given) \in Nat
  BY DEF TInv, TypeOK
<1> QED
  BY <1>1, <1>2, <1>3, SpentGrows DEF TInv, Counted, Idle

(* A step that takes a block makes its call one of those counted. *)
LEMMA CountedGiven ==
  ASSUME TInv, NEW t \in Threads, NEW where, pc[t] \in Giving, Goto(t, where),
         where \notin Giving, UNCHANGED calls, first' = first + 1,
         NEW b, given' = Append(given, b)
  PROVE  Counted'
<1>1. \A u \in Threads : pc'[u] = IF u = t THEN where ELSE pc[u]
  BY DEF TInv, TypeOK, Goto
<1>2. <<t, calls[t]>> \notin Spent /\ <<t, calls[t]>> \in Threads \X (1..MaxCalls)
  BY RoomLeft
<1>3. Spent \subseteq Spent'
  BY <1>1 DEF Spent
<1>4. <<t, calls[t]>> \in Spent'
  BY <1>1, <1>2 DEF Spent
<1>5. PICK S, V, x : S = Spent /\ V = Spent' /\ x = <<t, calls[t]>>
  OBVIOUS
<1>6. IsFiniteSet(V) /\ IsFiniteSet(S)
  <2>1. Spent \subseteq Threads \X (1..MaxCalls) /\ Spent' \subseteq Threads \X (1..MaxCalls)
    BY DEF Spent
  <2> QED
    BY <1>5, <2>1, SpentIs, FS_Subset
<1>7. Cardinality(S \cup {x}) = Cardinality(S) + 1
  BY <1>2, <1>5, <1>6, FS_AddElement
<1>8. Cardinality(S \cup {x}) <= Cardinality(V)
  <2>1. S \cup {x} \subseteq V
    BY <1>3, <1>4, <1>5
  <2> QED
    BY <1>6, <2>1, FS_Subset
<1>9. Len(given) \in Nat /\ Len(given') = Len(given) + 1
  BY DEF TInv, TypeOK
<1>10. Cardinality(S) \in Nat /\ Cardinality(V) \in Nat
  BY <1>6, FS_CardinalityType
<1>11. first' = Len(given') + 1 /\ Len(given') <= Cardinality(Spent')
  BY <1>5, <1>7, <1>8, <1>9, <1>10 DEF TInv, Counted
<1>12. \A u \in Threads : ~Idle(u)' => calls'[u] > 0
  BY <1>1 DEF TInv, Counted, Idle, Giving
<1> QED
  BY <1>11, <1>12 DEF Counted

(* A thread enters a call. *)
LEMMA CountedBegun ==
  ASSUME TInv, NEW t \in Threads, NEW where \in {"lock", "unlock"}, Idle(t),
         Goto(t, where), calls[t] < MaxCalls,
         calls' = [calls EXCEPT ![t] = @ + 1], UNCHANGED <<first, given>>
  PROVE  Counted' /\ calls' \in [Threads -> 0..MaxCalls]
<1>1. \A u \in Threads : pc'[u] = IF u = t THEN where ELSE pc[u]
  BY DEF TInv, TypeOK, Goto
<1>2. calls[t] \in Nat /\ calls[t] + 1 \in 0..MaxCalls
  BY PoolThreadsAssumption DEF TInv, TypeOK
<1>3. calls' \in [Threads -> 0..MaxCalls]
  BY <1>2 DEF TInv, TypeOK
<1>4. \A u \in Threads : calls'[u] = IF u = t THEN calls[u] + 1 ELSE calls[u]
  BY DEF TInv, TypeOK
<1>5. \A u \in Threads : calls[u] \in Nat
  BY DEF TInv, TypeOK
<1>6. Spent \subseteq Spent'
  BY <1>1, <1>4, <1>5 DEF Spent
<1>7. Len(given) \in Nat
  BY DEF TInv, TypeOK
<1>8. \A u \in Threads : ~Idle(u)' => calls'[u] > 0
  BY <1>1, <1>4, <1>5 DEF TInv, Counted, Idle
<1> QED
  BY <1>3, <1>6, <1>7, <1>8, SpentGrows DEF TInv, Counted

(* The start. *)
LEMMA TypesInit == Init => TInv
<1> SUFFICES ASSUME Init PROVE TInv
  OBVIOUS
<1> USE PoolThreadsAssumption DEF Init
<1>1. TypeOK
  <2>1. mutex \in [holder : Threads \cup {NoThread}, depth : 0..2 * MaxCalls]
    OBVIOUS
  <2>2. /\ cleanups \in Blocks \cup {NULL} /\ free_cleanups \in Blocks \cup {NULL}
        /\ next \in [Blocks -> Blocks \cup {NULL}] /\ data \in [Blocks -> Data \cup {NULL}]
        /\ want \in [Threads -> Data \cup {NULL}]
        /\ node \in [Threads -> Blocks \cup {NULL}] /\ prev \in [Threads -> Blocks \cup {NULL}]
    OBVIOUS
  <2>3. given \in Seq(Blocks) /\ linked \subseteq Data /\ settled \subseteq Data
    OBVIOUS
  <2>4. first \in Nat \ {0} /\ calls \in [Threads -> 0..MaxCalls]
    OBVIOUS
  <2>5. /\ pc \in [Threads -> {"idle", "lock", "unlock", "read_first", "advance", "pick",
                              "link", "walk", "unlink", "reserve"}]
        /\ op \in [Threads -> {"palloc", "large", "add"} \cup Finding]
    BY DEF Finding
  <2>6. crashed \in BOOLEAN
    BY Zenon
  <2> QED
    BY <2>1, <2>2, <2>3, <2>4, <2>5, <2>6, Zenon DEF TypeOK
<1>2. Cardinality(Spent) \in Nat
  <2>1. Spent \subseteq Threads \X (1..MaxCalls)
    BY DEF Spent
  <2> QED
    BY <2>1, SpentIs, FS_Subset, FS_CardinalityType
<1>3. Counted
  BY <1>2 DEF Counted, Idle
<1>4. Depth
  BY DEF Depth
<1>5. Kinds
  BY DEF Kinds, Idle
<1> QED
  BY <1>1, <1>3, <1>4, <1>5 DEF TInv

(* Entering a call. *)
LEMMA TypesBegin ==
  ASSUME TInv, NEW t \in Threads, NEW name \in {"palloc", "large", "add"} \cup Finding, NEW d,
         NEW where \in {"lock", "unlock"}, Begin(t, name, d), Goto(t, where),
         d \in Data \/ (d = NULL /\ name = "palloc"),
         UNCHANGED node \/ node' = [node EXCEPT ![t] = cleanups]
  PROVE  TInv'
<1>1. /\ Idle(t) /\ calls[t] < MaxCalls /\ calls' = [calls EXCEPT ![t] = @ + 1]
      /\ op' = [op EXCEPT ![t] = name] /\ want' = [want EXCEPT ![t] = d]
      /\ UNCHANGED <<mutex, lists, first, crashed, prev, given, history>>
  BY DEF Begin
<1>2. Counted' /\ calls' \in [Threads -> 0..MaxCalls]
  BY <1>1, CountedBegun
<1>3. \A u \in Threads : /\ pc'[u] = IF u = t THEN where ELSE pc[u]
                         /\ op'[u] = IF u = t THEN name ELSE op[u]
                         /\ want'[u] = IF u = t THEN d ELSE want[u]
                         /\ calls'[u] = IF u = t THEN calls[u] + 1 ELSE calls[u]
                         /\ calls[u] \in Nat
  BY <1>1 DEF TInv, TypeOK, Goto
<1>4. TypeOK'
  <2>0. pc \in [Threads -> {"idle", "lock", "unlock", "read_first", "advance", "pick",
                            "link", "walk", "unlink", "reserve"}]
    BY DEF TInv, TypeOK
  <2>1. pc' \in [Threads -> {"idle", "lock", "unlock", "read_first", "advance", "pick",
                             "link", "walk", "unlink", "reserve"}]
    BY <2>0 DEF Goto
  <2>2. /\ op' \in [Threads -> {"palloc", "large", "add"} \cup Finding]
        /\ want' \in [Threads -> Data \cup {NULL}]
        /\ node' \in [Threads -> Blocks \cup {NULL}]
    <3>1. /\ op \in [Threads -> {"palloc", "large", "add"} \cup Finding]
          /\ want \in [Threads -> Data \cup {NULL}]
          /\ node \in [Threads -> Blocks \cup {NULL}] /\ cleanups \in Blocks \cup {NULL}
      BY DEF TInv, TypeOK
    <3>2. op' \in [Threads -> {"palloc", "large", "add"} \cup Finding]
      BY <1>1, <3>1
    <3>3. want' \in [Threads -> Data \cup {NULL}]
      BY <1>1, <3>1
    <3>4. node' \in [Threads -> Blocks \cup {NULL}]
      BY <3>1
    <3> QED
      BY <3>2, <3>3, <3>4
  <2>3. careful' \in BOOLEAN
    BY Zenon DEF Begin
  <2> QED
    BY <1>1, <1>2, <2>1, <2>2, <2>3 DEF TInv, TypeOK, lists, history
<1>5. Depth'
  <2>1. UNCHANGED mutex
    BY <1>1
  <2>2. ASSUME NEW u \in Threads, mutex.holder = u
        PROVE  mutex.depth > 0 /\ mutex.depth <= IF pc'[u] = "lock" THEN calls'[u] - 1 ELSE calls'[u]
    <3>1. /\ mutex.depth > 0 /\ mutex.depth \in Nat
          /\ mutex.depth <= IF pc[u] = "lock" THEN calls[u] - 1 ELSE calls[u]
      BY <2>2 DEF TInv, Depth, TypeOK
    <3>2. u = t => pc[u] # "lock"
      BY <1>1 DEF Idle
    <3> QED
      BY <1>3, <3>1, <3>2
  <2> QED
    BY <2>1, <2>2 DEF TInv, Depth
<1>6. Kinds'
  <2>1. \A u \in Threads : u # t => node'[u] = node[u]
    BY DEF TInv, TypeOK
  <2> QED
    BY <1>3, <2>1, PoolThreadsAssumption DEF TInv, Kinds, Idle, Adding, Finding
<1> QED
  BY <1>2, <1>4, <1>5, <1>6 DEF TInv

(* A step within a call that leaves the mutex and the call alone. *)
LEMMA TypesWithin ==
  ASSUME TInv, NEW t \in Threads, pc[t] \in InBody, Counted', TypeOK',
         NEW where \in InBody \cup {"idle", "unlock"}, Goto(t, where),
         where \in {"pick", "link"} => pc[t] \in {"pick", "link"},
         where \in {"walk", "unlink", "reserve"} => pc[t] \in {"walk", "unlink", "reserve"},
         UNCHANGED <<mutex, op, want, calls>>,
         \A u \in Threads : u # t => node'[u] = node[u], where = "unlink" => node'[t] # NULL
  PROVE  TInv'
<1>1. \A u \in Threads : pc'[u] = IF u = t THEN where ELSE pc[u]
  BY DEF TInv, TypeOK, Goto
<1>2. Depth'
  BY <1>1 DEF TInv, Depth, InBody
<1>3. Kinds'
  BY <1>1 DEF TInv, Kinds, Idle, InBody
<1> QED
  BY <1>2, <1>3 DEF TInv

(* Locking and unlocking. *)
LEMMA TypesLock ==
  ASSUME TInv, NEW t \in Threads, Lock(t), careful' \in BOOLEAN
  PROVE  TInv'
<1>1. /\ pc[t] = "lock" /\ mutex.holder \in {t, NoThread}
      /\ mutex' = [holder |-> t, depth |-> mutex.depth + 1]
      /\ Goto(t, Body(t))
      /\ UNCHANGED <<lists, first, crashed, locals, calls, given, history>>
  BY DEF Lock, fpx_mutex_lock_recursive
<1>2. /\ Body(t) \in {"read_first", "pick", "walk"}
      /\ Body(t) = "pick" => op[t] \in Adding
      /\ Body(t) = "walk" => op[t] \in Finding
  <2>1. op[t] \in {"palloc", "large", "add"} \cup Finding
    BY DEF TInv, TypeOK
  <2> QED
    BY <2>1 DEF Body, Adding, Finding
<1>3. \A u \in Threads : pc'[u] = IF u = t THEN Body(t) ELSE pc[u]
  BY <1>1 DEF TInv, TypeOK, Goto
<1>4. Counted'
  BY <1>1, <1>2, CountedKept DEF Giving, Idle, locals
<1>5. mutex.depth \in Nat /\ mutex.depth + 1 <= calls[t] /\ calls[t] \in 0..MaxCalls /\ calls[t] > 0
  <2>1. mutex.depth \in Nat /\ calls[t] \in 0..MaxCalls /\ calls[t] > 0
    BY <1>1 DEF TInv, TypeOK, Counted, Idle
  <2> QED
    BY <1>1, <2>1, PoolThreadsAssumption DEF TInv, Depth
<1>6. mutex' \in [holder : Threads \cup {NoThread}, depth : 0..2 * MaxCalls]
  <2>1. mutex.depth + 1 \in 0..2 * MaxCalls
    BY <1>5, PoolThreadsAssumption
  <2> QED
    BY <1>1, <2>1
<1>7. TypeOK'
  <2>1. pc' \in [Threads -> {"idle", "lock", "unlock", "read_first", "advance", "pick",
                             "link", "walk", "unlink", "reserve"}]
    BY <1>1, <1>2 DEF TInv, TypeOK, Goto
  <2> QED
    BY <1>1, <1>6, <2>1 DEF TInv, TypeOK, lists, locals, history
<1>8. Depth'
  <2>1. mutex'.holder = t /\ mutex'.depth = mutex.depth + 1 /\ t # NoThread
    BY <1>1, PoolThreadsAssumption
  <2>2. mutex'.depth > 0 /\ mutex'.depth <= IF pc'[t] = "lock" THEN calls'[t] - 1 ELSE calls'[t]
    BY <1>1, <1>2, <1>3, <1>5, <2>1
  <2> QED
    BY <2>1, <2>2 DEF Depth
<1>9. Kinds'
  BY <1>1, <1>2, <1>3 DEF TInv, Kinds, Idle, locals
<1> QED
  BY <1>4, <1>7, <1>8, <1>9 DEF TInv

(* Unlocking keeps the types. *)
LEMMA TypesUnlock ==
  ASSUME TInv, NEW t \in Threads, Unlock(t), careful' \in BOOLEAN
  PROVE  TInv'
<1>1. /\ pc[t] = "unlock"
      /\ \/ mutex' = mutex /\ mutex.holder # t
         \/ mutex.holder = t /\ mutex' = [holder |-> NoThread, depth |-> 0]
         \/ mutex.holder = t /\ mutex.depth # 1 /\ mutex' = [mutex EXCEPT !.depth = @ - 1]
      /\ \/ op[t] = "large" /\ op' = [op EXCEPT ![t] = "palloc"] /\ UNCHANGED pc
         \/ Goto(t, "idle") /\ UNCHANGED op
      /\ UNCHANGED <<lists, first, crashed, want, node, prev, calls, given, history>>
  BY DEF Unlock, fpx_mutex_unlock_recursive
<1>2. PICK where \in {"idle", "unlock"} : Goto(t, where)
  BY <1>1 DEF Goto, TInv, TypeOK
<1>3. \A u \in Threads : pc'[u] = IF u = t THEN where ELSE pc[u]
  BY <1>2 DEF TInv, TypeOK, Goto
<1>4. Counted'
  BY <1>1, <1>2, CountedKept DEF Giving, Idle
<1>5. mutex' \in [holder : Threads \cup {NoThread}, depth : 0..2 * MaxCalls] /\ Depth'
  <2>1. mutex \in [holder : Threads \cup {NoThread}, depth : 0..2 * MaxCalls]
    BY DEF TInv, TypeOK
  <2>2. \A u \in Threads : pc'[u] = "lock" <=> pc[u] = "lock"
    BY <1>1, <1>3
  <2>3. CASE mutex' = mutex
    BY <1>1, <2>1, <2>2, <2>3 DEF TInv, Depth
  <2>4. CASE mutex' = [holder |-> NoThread, depth |-> 0]
    BY <2>4, PoolThreadsAssumption DEF Depth
  <2>5. CASE mutex.holder = t /\ mutex.depth # 1 /\ mutex' = [mutex EXCEPT !.depth = @ - 1]
    <3>1. PICK d \in 0..2 * MaxCalls : d = mutex.depth
      BY <2>1
    <3>2. d > 0 /\ d <= calls[t] /\ calls[t] \in Nat
      BY <1>1, <2>5, <3>1 DEF TInv, Depth, TypeOK
    <3>3. mutex' = [holder |-> t, depth |-> d - 1] /\ d - 1 \in 0..2 * MaxCalls /\ d - 1 > 0
      BY <2>1, <2>5, <3>1, <3>2, PoolThreadsAssumption
    <3>4. d - 1 <= calls[t] /\ pc'[t] # "lock" /\ t # NoThread
      BY <1>3, <3>2, PoolThreadsAssumption
    <3>5. mutex'.holder = t /\ mutex'.depth = d - 1
      BY <3>3
    <3>6. Depth'
      BY <1>1, <3>3, <3>4, <3>5 DEF Depth
    <3> QED
      BY <3>3, <3>6
  <2> QED
    BY <1>1, <2>3, <2>4, <2>5
<1>6. TypeOK'
  <2>1. /\ pc' \in [Threads -> {"idle", "lock", "unlock", "read_first", "advance", "pick",
                                "link", "walk", "unlink", "reserve"}]
        /\ op' \in [Threads -> {"palloc", "large", "add"} \cup Finding]
    BY <1>1 DEF TInv, TypeOK, Goto
  <2> QED
    BY <1>1, <1>5, <2>1 DEF TInv, TypeOK, lists, history
<1>7. Kinds'
  <2>1. \A u \in Threads : op'[u] = op[u] \/ op'[u] = "palloc"
    BY <1>1 DEF TInv, TypeOK
  <2>2. \A u \in Threads : pc'[u] = pc[u] \/ pc'[u] = "idle"
    BY <1>1, <1>3
  <2>3. \A u \in Threads : pc'[u] # "unlock" => op'[u] = op[u] \/ pc'[u] = "idle"
    BY <1>1, <1>3 DEF TInv, TypeOK
  <2>4. UNCHANGED <<want, node>>
    BY <1>1
  <2> QED
    BY <2>1, <2>2, <2>3, <2>4 DEF TInv, Kinds, Idle, Adding, Finding
<1> QED
  BY <1>4, <1>5, <1>6, <1>7 DEF TInv

(* The bodies of the calls. *)
LEMMA TypesBody ==
  ASSUME TInv, IInv, NEW t \in Threads,
         ReadFirst(t) \/ Advance(t) \/ Pick(t) \/ Link(t) \/ Walk(t) \/ Unlink(t) \/ Reserve(t),
         careful' \in BOOLEAN
  PROVE  TInv'
<1> DEFINE Places == {"idle", "lock", "unlock", "read_first", "advance", "pick",
                      "link", "walk", "unlink", "reserve"}
<1>1. ASSUME NEW where \in Places, Goto(t, where) PROVE pc' \in [Threads -> Places]
  BY <1>1 DEF TInv, TypeOK, Goto
<1>2. first \in Nat \ {0} /\ first + 1 \in Nat \ {0} /\ node[t] \in Blocks \cup {NULL}
  BY DEF TInv, TypeOK
<1>0. \A u \in Threads : u # t => node'[u] = node[u]
  BY DEF TInv, TypeOK, ReadFirst, Advance, Pick, Link, Walk, NotFound, Found, Step, Unlink, Reserve, locals
<1>3. CASE ReadFirst(t)
  <2>1. /\ pc[t] = "read_first" /\ node' = [node EXCEPT ![t] = first] /\ Goto(t, "advance")
        /\ UNCHANGED <<mutex, lists, first, crashed, op, want, prev, calls, given, history>>
    BY <1>3 DEF ReadFirst
  <2>2. first \in Blocks
    BY <2>1, RoomLeft DEF Giving
  <2>3. TypeOK'
    <3>1. pc' \in [Threads -> Places] /\ node' \in [Threads -> Blocks \cup {NULL}]
      BY <1>1, <2>1, <2>2 DEF TInv, TypeOK
    <3> QED
      BY <2>1, <3>1 DEF TInv, TypeOK, lists, history
  <2>4. Counted'
    BY <2>1, CountedKept DEF Giving, Idle
  <2> QED
    BY <2>1, <2>3, <2>4, <1>0, TypesWithin DEF InBody
<1>4. CASE Advance(t)
  <2>1. /\ pc[t] = "advance" /\ first' = first + 1 /\ given' = Append(given, node[t])
        /\ Goto(t, "unlock")
        /\ UNCHANGED <<mutex, lists, crashed, locals, calls, history>>
    BY <1>4 DEF Advance
  <2>2. node[t] \in Blocks
    <3>1. node[t] = first
      BY <2>1, PoolThreadsAssumption DEF IInv, Below
    <3> QED
      BY <2>1, <3>1, RoomLeft DEF Giving
  <2>3. TypeOK'
    <3>1. pc' \in [Threads -> Places] /\ given' \in Seq(Blocks) /\ first' \in Nat \ {0}
      BY <1>1, <1>2, <2>1, <2>2 DEF TInv, TypeOK
    <3> QED
      BY <2>1, <3>1 DEF TInv, TypeOK, lists, locals, history
  <2>4. Counted'
    BY <2>1, CountedGiven DEF Giving
  <2> QED
    BY <2>1, <2>3, <2>4, <1>0, TypesWithin DEF InBody, locals
<1>5. CASE Pick(t)
  <2>1. /\ pc[t] = "pick" /\ Goto(t, "link")
        /\ UNCHANGED <<mutex, cleanups, next, data, crashed, op, want, prev, calls, history>>
    BY <1>5 DEF Pick
  <2>2. pc' \in [Threads -> Places]
    BY <1>1, <2>1
  <2>3. CASE free_cleanups # NULL
    <3>1. /\ node' = [node EXCEPT ![t] = free_cleanups] /\ free_cleanups' = next[free_cleanups]
          /\ UNCHANGED <<first, given>>
      BY <1>5, <2>3 DEF Pick
    <3>2. free_cleanups' \in Blocks \cup {NULL} /\ node' \in [Threads -> Blocks \cup {NULL}]
      BY <2>3, <3>1 DEF TInv, TypeOK
    <3>3. TypeOK'
      BY <2>1, <2>2, <3>1, <3>2 DEF TInv, TypeOK, history
    <3>4. Counted'
      BY <2>1, <3>1, CountedKept DEF Giving, Idle
    <3> QED
      BY <2>1, <3>3, <3>4, <1>0, TypesWithin DEF InBody
  <2>4. CASE free_cleanups = NULL
    <3>1. /\ node' = [node EXCEPT ![t] = first] /\ first' = first + 1
          /\ given' = Append(given, first) /\ UNCHANGED free_cleanups
      BY <1>5, <2>4 DEF Pick
    <3>2. first \in Blocks
      BY <2>1, RoomLeft DEF Giving
    <3>3. node' \in [Threads -> Blocks \cup {NULL}] /\ given' \in Seq(Blocks) /\ first' \in Nat \ {0}
      BY <1>2, <3>1, <3>2 DEF TInv, TypeOK
    <3>4. TypeOK'
      BY <2>1, <2>2, <3>1, <3>3 DEF TInv, TypeOK, history
    <3>5. Counted'
      BY <2>1, <3>1, CountedGiven DEF Giving
    <3> QED
      BY <2>1, <3>4, <3>5, <1>0, TypesWithin DEF InBody
  <2> QED
    BY <2>3, <2>4
<1>6. CASE Link(t)
  <2>1. /\ pc[t] = "link" /\ data' = [data EXCEPT ![node[t]] = want[t]]
        /\ next' = [next EXCEPT ![node[t]] = cleanups] /\ cleanups' = node[t]
        /\ linked' = linked \cup {want[t]} /\ Goto(t, "unlock")
        /\ UNCHANGED <<mutex, free_cleanups, first, crashed, locals, calls, given, settled>>
    BY <1>6 DEF Link
  <2>2. want[t] \in Data
    BY <2>1 DEF TInv, Kinds, Idle
  <2>3. TypeOK'
    <3>1. pc' \in [Threads -> Places]
      BY <1>1, <2>1
    <3>2. /\ next' \in [Blocks -> Blocks \cup {NULL}] /\ data' \in [Blocks -> Data \cup {NULL}]
          /\ cleanups' \in Blocks \cup {NULL} /\ linked' \subseteq Data
      BY <1>2, <2>1, <2>2 DEF TInv, TypeOK
    <3> QED
      BY <2>1, <3>1, <3>2 DEF TInv, TypeOK, locals
  <2>4. Counted'
    BY <2>1, CountedKept DEF Giving, Idle
  <2> QED
    BY <2>1, <2>3, <2>4, <1>0, TypesWithin DEF InBody, locals
<1>7. CASE Walk(t)
  <2>1. /\ pc[t] = "walk"
        /\ UNCHANGED <<mutex, lists, first, crashed, op, want, calls, given, linked>>
    BY <1>7 DEF Walk
  <2>2. PICK where \in {"idle", "unlink", "walk"} : Goto(t, where)
    BY <1>7, <2>1 DEF Walk, NotFound, Found, Step, Goto, TInv, TypeOK
  <2>3. want[t] \in Data
    BY <2>1 DEF TInv, Kinds, Idle
  <2>4. TypeOK'
    <3>1. pc' \in [Threads -> Places]
      BY <1>1, <2>2
    <3>2. /\ node' \in [Threads -> Blocks \cup {NULL}] /\ prev' \in [Threads -> Blocks \cup {NULL}]
          /\ settled' \subseteq Data
      BY <1>2, <1>7, <2>3 DEF Walk, NotFound, Found, Step, TInv, TypeOK
    <3> QED
      BY <2>1, <3>1, <3>2 DEF TInv, TypeOK, lists
  <2>5. Counted'
    BY <2>1, <2>2, CountedKept DEF Giving, Idle
  <2>6. where = "unlink" => node'[t] # NULL
    BY <1>7, <2>1, <2>2 DEF Walk, NotFound, Found, Step, Goto, TInv, TypeOK
  <2> QED
    BY <2>1, <2>2, <2>4, <2>5, <2>6, <1>0, TypesWithin DEF InBody
<1>8. CASE Unlink(t)
  <2>1. /\ pc[t] = "unlink" /\ Goto(t, "reserve")
        /\ UNCHANGED <<mutex, free_cleanups, data, first, locals, calls, given, history>>
    BY <1>8 DEF Unlink
  <2>2. next[node[t]] \in Blocks \cup {NULL}
    BY <1>2, <2>1 DEF TInv, TypeOK, Kinds
  <2>3. TypeOK'
    <3>1. pc' \in [Threads -> Places]
      BY <1>1, <2>1
    <3>2. cleanups' \in Blocks \cup {NULL} /\ next' \in [Blocks -> Blocks \cup {NULL}]
      BY <1>8, <2>2 DEF Unlink, TInv, TypeOK
    <3>3. crashed' \in BOOLEAN
      BY <1>8, Zenon DEF Unlink, TInv, TypeOK
    <3> QED
      BY <2>1, <3>1, <3>2, <3>3 DEF TInv, TypeOK, locals, history
  <2>4. Counted'
    BY <2>1, CountedKept DEF Giving, Idle
  <2> QED
    BY <2>1, <2>3, <2>4, <1>0, TypesWithin DEF InBody, locals
<1>9. CASE Reserve(t)
  <2>1. /\ pc[t] = "reserve" /\ next' = [next EXCEPT ![node[t]] = free_cleanups]
        /\ free_cleanups' = node[t] /\ prev' = [prev EXCEPT ![t] = NULL] /\ Goto(t, "unlock")
        /\ UNCHANGED <<mutex, cleanups, data, first, crashed, op, want, node, calls, given, history>>
    BY <1>9 DEF Reserve
  <2>2. TypeOK'
    <3>1. pc' \in [Threads -> Places]
      BY <1>1, <2>1
    <3>2. /\ next' \in [Blocks -> Blocks \cup {NULL}] /\ free_cleanups' \in Blocks \cup {NULL}
          /\ prev' \in [Threads -> Blocks \cup {NULL}]
      BY <1>2, <2>1 DEF TInv, TypeOK
    <3> QED
      BY <2>1, <3>1, <3>2 DEF TInv, TypeOK, history
  <2>3. Counted'
    BY <2>1, CountedKept DEF Giving, Idle
  <2> QED
    BY <2>1, <2>2, <2>3, <1>0, TypesWithin DEF InBody
<1> QED
  BY <1>3, <1>4, <1>5, <1>6, <1>7, <1>8, <1>9

(* Every step keeps the types. *)
LEMMA TypesStep == IInv /\ TInv /\ [Next]_vars => TInv'
<1> SUFFICES ASSUME IInv, TInv, [Next]_vars PROVE TInv'
  OBVIOUS
<1>1. CASE UNCHANGED vars
  BY <1>1 DEF vars, lists, locals, history, TInv, TypeOK, Counted, Spent, Depth, Kinds, Idle
<1>2. ASSUME NEW t \in Threads, Call(t) PROVE TInv'
  <2>1. CASE CallPalloc(t)
    BY <2>1, TypesBegin DEF CallPalloc
  <2>2. CASE CallPallocRefused(t)
    BY <2>2, TypesBegin DEF CallPallocRefused
  <2>3. ASSUME NEW d \in Data, NEW name \in {"add", "large"}, CallAdd(t, name, d) PROVE TInv'
    BY <2>3, TypesBegin DEF CallAdd
  <2>4. ASSUME NEW d \in Data, NEW name \in Finding, CallFind(t, name, d) PROVE TInv'
    BY <2>4, TypesBegin DEF CallFind
  <2> QED
    BY <1>2, <2>1, <2>2, <2>3, <2>4 DEF Call
<1>3. ASSUME NEW t \in Threads, InCall(t) PROVE TInv'
  <2>1. careful' \in BOOLEAN
    BY <1>3 DEF InCall, TInv, TypeOK
  <2> QED
    BY <1>3, <2>1, TypesLock, TypesUnlock, TypesBody DEF InCall
<1> QED
  BY <1>1, <1>2, <1>3 DEF Next, Finished

(* The types of the pool's state, for every use: in particular the mutex   *)
(* is never held more often than its holder has called, and the blocks     *)
(* never run out although records are allocated for cleanups as well.      *)
THEOREM Typing == Spec => []TypeOK
<1>1. IInv /\ TInv => TypeOK
  BY DEF TInv
<1> QED
  BY InitInv, NextInv, TypesInit, TypesStep, <1>1, PTL DEF Spec

-----------------------------------------------------------------------------
(* The lists, where cleanups are run and removed only when registered and  *)
(* while no other thread is inside: s is the list of cleanups and f the    *)
(* list of reserved records.                                               *)

At(s, i) == IF i \in 1..Len(s) THEN s[i] ELSE NULL

Elements(s) == {s[i] : i \in 1..Len(s)}

(* The records from r on by the pointers n are those of s, all below b and *)
(* none twice.                                                             *)
ChainIn(r, s, n, b) ==
  /\ s \in Seq(Blocks)
  /\ r = At(s, 1)
  /\ \A i \in 1..Len(s) : n[s[i]] = At(s, i + 1) /\ s[i] < b
  /\ \A i, j \in 1..Len(s) : s[i] = s[j] => i = j

Chain(r, s) == ChainIn(r, s, next, first)

(* What has just been run, or is about to go. *)
Leaving == {want[t] : t \in {u \in Threads : pc[u] = "unlink"}}

DataOf(s) == {data[s[i]] : i \in 1..Len(s)}

(* The list holds what is registered, each cleanup once, and for a moment  *)
(* the one that is leaving.                                                *)
Registered(s) ==
  /\ \A i, j \in 1..Len(s) : data[s[i]] = data[s[j]] => i = j
  /\ DataOf(s) = (linked \ settled) \cup Leaving

(* A record that is being linked or reserved is in no list. *)
Loose(t, s, f) ==
  pc[t] \in {"link", "reserve"} =>
    node[t] \in Blocks /\ node[t] < first /\ node[t] \notin Elements(s) \cup Elements(f)

(* A search is at record i, with the one before in prev, and what it looks *)
(* for lies ahead.                                                         *)
Searching(t, s) ==
  pc[t] \in {"lock", "walk", "unlink"} /\ op[t] \in Finding =>
    \E i \in 1..Len(s) :
      /\ node[t] = s[i] /\ prev[t] = At(s, i - 1)
      /\ pc[t] = "unlink" => data[s[i]] = want[t] /\ want[t] \in settled
      /\ pc[t] # "unlink" =>
            want[t] \in linked \ settled /\ \E j \in i..Len(s) : data[s[j]] = want[t]

NoPrev(t) == pc[t] \notin {"walk", "unlink", "reserve"} => prev[t] = NULL

Lists(s, f) ==
  /\ Chain(cleanups, s) /\ Chain(free_cleanups, f) /\ Elements(s) \cap Elements(f) = {}
  /\ Registered(s)
  /\ \A t \in Threads : Loose(t, s, f) /\ Searching(t, s) /\ NoPrev(t)

(* A search is alone in the pool. *)
Solitary ==
  \A t \in Threads : op[t] \in Finding /\ ~Idle(t) => \A u \in Threads \ {t} : Idle(u)

Registering(t) == pc[t] \in {"lock", "pick", "link"} /\ op[t] \in Adding

(* What is being registered is not registered yet, by anyone. *)
Once ==
  /\ settled \subseteq linked
  /\ \A t \in Threads : Registering(t) =>
       /\ want[t] \notin linked
       /\ \A u \in Threads \ {t} : Registering(u) => want[u] # want[t]

(* The holder of the mutex is inside, or about to give it back. *)
Held ==
  \A t \in Threads : mutex.holder = t => mutex.depth = 1 /\ pc[t] \in InBody \cup {"unlock"}

LInv == Solitary /\ Once /\ Held /\ \E s, f : Lists(s, f)

-----------------------------------------------------------------------------
(* Lists as sequences. *)

Push(x, s) == [i \in 1..(Len(s) + 1) |-> IF i = 1 THEN x ELSE s[i - 1]]

Drop(s, i) == [k \in 1..(Len(s) - 1) |-> IF k < i THEN s[k] ELSE s[k + 1]]

(* What a sequence with x in front holds. *)
LEMMA PushIs ==
  ASSUME NEW s \in Seq(Blocks), NEW x \in Blocks
  PROVE  /\ Push(x, s) \in Seq(Blocks) /\ Len(s) \in Nat /\ Len(Push(x, s)) = Len(s) + 1
         /\ Push(x, s)[1] = x
         /\ \A i \in 1..Len(s) : Push(x, s)[i + 1] = s[i]
         /\ \A i \in 1..(Len(s) + 1) : i # 1 => i - 1 \in 1..Len(s) /\ Push(x, s)[i] = s[i - 1]
         /\ Elements(Push(x, s)) = Elements(s) \cup {x}
<1>1. PICK n \in Nat : n = Len(s) /\ s \in [1..n -> Blocks]
  OBVIOUS
<1>2. Push(x, s) \in [1..(n + 1) -> Blocks]
  BY <1>1 DEF Push
<1>3. Push(x, s) \in Seq(Blocks) /\ Len(Push(x, s)) = n + 1
  BY <1>2
<1>4. /\ Push(x, s)[1] = x
      /\ \A i \in 1..n : Push(x, s)[i + 1] = s[i]
      /\ \A i \in 1..(n + 1) : i # 1 => i - 1 \in 1..n /\ Push(x, s)[i] = s[i - 1]
  BY <1>1 DEF Push
<1>5. Elements(Push(x, s)) = Elements(s) \cup {x}
  <2>1. ASSUME NEW y \in Elements(Push(x, s)) PROVE y \in Elements(s) \cup {x}
    <3>1. PICK i \in 1..(n + 1) : y = Push(x, s)[i]
      BY <1>3 DEF Elements
    <3> QED
      BY <1>1, <1>4, <3>1 DEF Elements
  <2>2. x \in Elements(Push(x, s))
    BY <1>3, <1>4 DEF Elements
  <2>3. ASSUME NEW y \in Elements(s) PROVE y \in Elements(Push(x, s))
    <3>1. PICK i \in 1..n : y = s[i]
      BY <1>1 DEF Elements
    <3>2. i + 1 \in 1..(n + 1) /\ y = Push(x, s)[i + 1]
      BY <1>4, <3>1
    <3> QED
      BY <1>3, <3>2 DEF Elements
  <2> QED
    BY <2>1, <2>2, <2>3
<1> QED
  BY <1>1, <1>3, <1>4, <1>5

(* What a sequence without its i-th element holds. *)
LEMMA DropIs ==
  ASSUME NEW s \in Seq(Blocks), NEW i \in 1..Len(s),
         \A j, k \in 1..Len(s) : s[j] = s[k] => j = k
  PROVE  /\ Drop(s, i) \in Seq(Blocks) /\ Len(s) \in Nat /\ Len(Drop(s, i)) = Len(s) - 1
         /\ Len(s) - 1 \in Nat
         /\ \A k \in 1..(Len(s) - 1) :
              Drop(s, i)[k] = s[IF k < i THEN k ELSE k + 1]
         /\ Elements(Drop(s, i)) = Elements(s) \ {s[i]}
<1>1. PICK n \in Nat : n = Len(s) /\ s \in [1..n -> Blocks]
  OBVIOUS
<1>2. Drop(s, i) \in [1..(n - 1) -> Blocks] /\ n - 1 \in Nat
  BY <1>1 DEF Drop
<1>3. Drop(s, i) \in Seq(Blocks) /\ Len(Drop(s, i)) = n - 1
  <2>1. PICK m \in Nat : m = n - 1
    BY <1>2
  <2>2. Drop(s, i) \in [1..m -> Blocks]
    BY <1>2, <2>1
  <2>3. Drop(s, i) \in Seq(Blocks) /\ Len(Drop(s, i)) = m
    BY <2>2
  <2> QED
    BY <2>1, <2>3
<1>4. \A k \in 1..(n - 1) : Drop(s, i)[k] = s[IF k < i THEN k ELSE k + 1]
  BY <1>1 DEF Drop
<1>5. Elements(Drop(s, i)) = Elements(s) \ {s[i]}
  <2>1. ASSUME NEW y \in Elements(Drop(s, i)) PROVE y \in Elements(s) \ {s[i]}
    <3>1. PICK k \in 1..(n - 1) : y = Drop(s, i)[k]
      BY <1>3 DEF Elements
    <3>2. PICK l \in 1..n : y = s[l] /\ l # i
      BY <1>1, <1>4, <3>1
    <3> QED
      BY <1>1, <3>2 DEF Elements
  <2>2. ASSUME NEW y \in Elements(s) \ {s[i]} PROVE y \in Elements(Drop(s, i))
    <3>1. PICK l \in 1..n : y = s[l] /\ l # i
      BY <1>1 DEF Elements
    <3>2. CASE l < i
      <4>1. l \in 1..(n - 1) /\ y = Drop(s, i)[l]
        BY <1>1, <1>4, <3>1, <3>2
      <4> QED
        BY <1>3, <4>1 DEF Elements
    <3>3. CASE l > i
      <4>1. l - 1 \in 1..(n - 1) /\ ~(l - 1 < i) /\ (l - 1) + 1 = l
        BY <1>1, <3>1, <3>3
      <4>2. y = Drop(s, i)[l - 1]
        BY <1>4, <3>1, <4>1
      <4> QED
        BY <1>3, <4>1, <4>2 DEF Elements
    <3> QED
      BY <1>1, <3>1, <3>2, <3>3
  <2> QED
    BY <2>1, <2>2
<1> QED
  BY <1>1, <1>2, <1>3, <1>4, <1>5

(* A record put in front of a list. *)
LEMMA ChainPush ==
  ASSUME NEW n \in [Blocks -> Blocks \cup {NULL}], NEW b \in Nat, NEW r, NEW s,
         ChainIn(r, s, n, b), NEW x \in Blocks, x \notin Elements(s), x < b
  PROVE  ChainIn(x, Push(x, s), [n EXCEPT ![x] = r], b)
<1>1. s \in Seq(Blocks)
  BY DEF ChainIn
<1> DEFINE p == Push(x, s)
           m == [n EXCEPT ![x] = r]
<1>2. /\ p \in Seq(Blocks) /\ Len(s) \in Nat /\ Len(p) = Len(s) + 1
      /\ p[1] = x
      /\ \A i \in 1..Len(s) : p[i + 1] = s[i]
      /\ \A i \in 1..(Len(s) + 1) : i # 1 => i - 1 \in 1..Len(s) /\ p[i] = s[i - 1]
  BY <1>1, PushIs
<1>3. m[x] = r /\ \A y \in Blocks : y # x => m[y] = n[y]
  OBVIOUS
<1>4. \A i \in 1..Len(s) : s[i] \in Blocks /\ s[i] # x
  BY <1>1 DEF Elements
<1>5. \A i \in 0..Len(s) : At(p, i + 2) = At(s, i + 1)
  BY <1>2 DEF At
<1> HIDE DEF p, m
<1>6. ASSUME NEW i \in 1..Len(p) PROVE m[p[i]] = At(p, i + 1) /\ p[i] < b
  <2>1. CASE i = 1
    <3>1. At(p, 2) = r
      BY <1>2, <1>5 DEF ChainIn
    <3> QED
      BY <1>2, <1>3, <2>1, <3>1
  <2>2. CASE i # 1
    <3>1. PICK j \in 1..Len(s) : j = i - 1 /\ p[i] = s[j]
      BY <1>2, <2>2
    <3>2. m[p[i]] = n[s[j]] /\ s[j] < b /\ n[s[j]] = At(s, j + 1)
      BY <1>3, <1>4, <3>1 DEF ChainIn
    <3>3. At(p, j + 2) = At(s, j + 1) /\ j + 2 = i + 1
      BY <1>2, <1>5, <3>1
    <3> QED
      BY <3>1, <3>2, <3>3
  <2> QED
    BY <2>1, <2>2
<1>7. ASSUME NEW i \in 1..Len(p), NEW j \in 1..Len(p), p[i] = p[j] PROVE i = j
  <2>1. CASE i = 1 \/ j = 1
    BY <1>2, <1>4, <1>7, <2>1
  <2>2. CASE i # 1 /\ j # 1
    <3>1. i - 1 \in 1..Len(s) /\ j - 1 \in 1..Len(s) /\ s[i - 1] = s[j - 1]
      BY <1>2, <1>7, <2>2
    <3>2. i - 1 = j - 1
      BY <3>1 DEF ChainIn
    <3> QED
      BY <1>2, <3>2
  <2> QED
    BY <2>1, <2>2
<1>8. x = At(p, 1)
  BY <1>2 DEF At
<1> QED
  BY <1>2, <1>6, <1>7, <1>8 DEF ChainIn, p, m

(* Record i taken out of a list: its predecessor, or the head, goes on to  *)
(* its successor.                                                          *)
LEMMA ChainDrop ==
  ASSUME NEW n \in [Blocks -> Blocks \cup {NULL}], NEW b \in Nat, NEW r, NEW s,
         ChainIn(r, s, n, b), NEW i \in 1..Len(s), NEW q, NEW m,
         i = 1 => q = n[s[i]] /\ m = n,
         i # 1 => q = r /\ m = [n EXCEPT ![s[i - 1]] = n[s[i]]]
  PROVE  ChainIn(q, Drop(s, i), m, b)
<1>1. /\ s \in Seq(Blocks) /\ Len(s) \in Nat
      /\ \A j, k \in 1..Len(s) : s[j] = s[k] => j = k
      /\ \A j \in 1..Len(s) : n[s[j]] = At(s, j + 1) /\ s[j] < b /\ s[j] \in Blocks
  BY DEF ChainIn
<1> DEFINE d == Drop(s, i)
           To(k) == IF k < i THEN k ELSE k + 1
<1>2. /\ d \in Seq(Blocks) /\ Len(d) = Len(s) - 1 /\ Len(s) - 1 \in Nat
      /\ \A k \in 1..(Len(s) - 1) : d[k] = s[To(k)]
  BY <1>1, DropIs
<1>3. \A k \in 1..(Len(s) - 1) : To(k) \in 1..Len(s) /\ To(k) # i
  BY <1>1
<1>4. \A k \in 1..Len(s) : At(d, k) = At(s, To(k))
  BY <1>1, <1>2, <1>3 DEF At
<1>5. ASSUME NEW k \in 1..Len(d) PROVE m[d[k]] = At(d, k + 1) /\ d[k] < b
  <2>1. /\ k \in 1..(Len(s) - 1) /\ k + 1 \in 1..Len(s) /\ d[k] = s[To(k)]
        /\ To(k) \in 1..Len(s) /\ To(k) # i
    BY <1>1, <1>2, <1>3
  <2>2. d[k] < b /\ d[k] \in Blocks /\ n[d[k]] = At(s, To(k) + 1)
    BY <1>1, <2>1
  <2>3. At(d, k + 1) = At(s, To(k + 1))
    BY <1>4, <2>1
  <2>4. CASE k + 1 = i
    <3>1. d[k] = s[i - 1] /\ i # 1 /\ i - 1 \in 1..Len(s)
      BY <1>1, <2>1, <2>4
    <3>2. m[d[k]] = n[s[i]]
      BY <2>2, <3>1
    <3>3. n[s[i]] = At(s, i + 1) /\ To(k + 1) = i + 1
      BY <1>1, <2>4
    <3> QED
      BY <2>2, <2>3, <3>2, <3>3
  <2>5. CASE k + 1 # i
    <3>1. To(k + 1) = To(k) + 1
      BY <1>1, <2>1, <2>5
    <3>2. i # 1 => To(k) # i - 1 /\ i - 1 \in 1..Len(s)
      BY <1>1, <2>1, <2>5
    <3>3. i # 1 => d[k] # s[i - 1]
      BY <1>1, <2>1, <3>2
    <3>4. m[d[k]] = n[d[k]]
      BY <2>2, <3>3
    <3> QED
      BY <2>2, <2>3, <3>1, <3>4
  <2> QED
    BY <2>4, <2>5
<1>6. ASSUME NEW j \in 1..Len(d), NEW k \in 1..Len(d), d[j] = d[k] PROVE j = k
  <2>1. /\ j \in 1..(Len(s) - 1) /\ k \in 1..(Len(s) - 1)
        /\ To(j) \in 1..Len(s) /\ To(k) \in 1..Len(s) /\ s[To(j)] = s[To(k)]
    BY <1>2, <1>3, <1>6
  <2>2. To(j) = To(k)
    BY <1>1, <2>1
  <2> QED
    BY <1>1, <2>1, <2>2
<1>7. q = At(d, 1)
  <2>1. At(d, 1) = At(s, To(1))
    BY <1>1, <1>4
  <2>2. CASE i = 1
    BY <1>1, <2>1, <2>2
  <2>3. CASE i # 1
    <3>1. To(1) = 1
      BY <1>1, <2>3
    <3> QED
      BY <2>1, <2>3, <3>1 DEF ChainIn
  <2> QED
    BY <2>2, <2>3
<1> HIDE DEF To
<1> QED
  BY <1>2, <1>5, <1>6, <1>7 DEF ChainIn

(* A list is not touched by a pointer written to a record outside it, nor  *)
(* by blocks given.                                                        *)
LEMMA ChainOther ==
  ASSUME NEW n \in [Blocks -> Blocks \cup {NULL}], NEW b \in Nat, NEW r, NEW s,
         ChainIn(r, s, n, b), NEW c \in Nat, b <= c, NEW m,
         \A i \in 1..Len(s) : m[s[i]] = n[s[i]]
  PROVE  ChainIn(r, s, m, c)
<1>1. s \in Seq(Blocks) /\ Len(s) \in Nat /\ \A i \in 1..Len(s) : s[i] \in Blocks
  BY DEF ChainIn
<1>2. \A i \in 1..Len(s) : s[i] \in Nat
  BY <1>1, SpentIs
<1> QED
  BY <1>1, <1>2 DEF ChainIn

(* The record k steps down the list is the one the sequence has there. *)
LEMMA FollowIs ==
  ASSUME NEW r, NEW s, Chain(r, s), NEW k \in Nat
  PROVE  Follow(r, k) = At(s, k + 1)
<1>1. /\ s \in Seq(Blocks) /\ Len(s) \in Nat /\ r = At(s, 1)
      /\ \A i \in 1..Len(s) : next[s[i]] = At(s, i + 1) /\ s[i] # NULL
  BY PoolThreadsAssumption DEF Chain, ChainIn
<1> DEFINE g == [i \in 0..k |-> At(s, i + 1)]
           f == CHOOSE h : h = [i \in 0..k |-> IF i = 0 THEN r
                                               ELSE IF h[i-1] = NULL THEN NULL ELSE next[h[i-1]]]
<1>2. ASSUME NEW i \in 0..k, i # 0
      PROVE  At(s, i + 1) = IF At(s, i) = NULL THEN NULL ELSE next[At(s, i)]
  BY <1>1, <1>2 DEF At
<1>3. g = [i \in 0..k |-> IF i = 0 THEN r ELSE IF g[i-1] = NULL THEN NULL ELSE next[g[i-1]]]
  <2>1. ASSUME NEW i \in 0..k
        PROVE  At(s, i + 1) = IF i = 0 THEN r ELSE IF g[i-1] = NULL THEN NULL ELSE next[g[i-1]]
    <3>1. CASE i = 0
      BY <1>1, <3>1
    <3>2. CASE i # 0
      <4>1. g[i-1] = At(s, i)
        BY <3>2
      <4> QED
        BY <1>2, <3>2, <4>1
    <3> QED
      BY <3>1, <3>2
  <2> QED
    BY <2>1
<1>4. f = [i \in 0..k |-> IF i = 0 THEN r ELSE IF f[i-1] = NULL THEN NULL ELSE next[f[i-1]]]
  <2> HIDE DEF g
  <2> QED
    BY <1>3, Zenon
<1>5. Follow(r, k) = f[k]
  BY Zenon DEF Follow
<1> HIDE DEF f
<1> DEFINE T == {i \in Nat : i <= k => f[i] = At(s, i + 1)}
<1>6. 0 \in T
  BY <1>1, <1>4
<1>7. ASSUME NEW i \in Nat, i \in T PROVE i + 1 \in T
  <2> SUFFICES ASSUME i + 1 <= k PROVE f[i + 1] = At(s, (i + 1) + 1)
    OBVIOUS
  <2>1. f[i] = At(s, i + 1) /\ i + 1 \in 0..k /\ i + 1 # 0 /\ (i + 1) - 1 = i
    BY <1>7
  <2>2. f[i + 1] = IF f[i] = NULL THEN NULL ELSE next[f[i]]
    BY <1>4, <2>1
  <2> QED
    BY <1>2, <2>1, <2>2
<1>8. \A i \in Nat : i \in T
  <2> HIDE DEF T
  <2> QED
    BY <1>6, <1>7, NatClosed
<1> QED
  BY <1>5, <1>8

(* A list ends within the number of blocks, and its records are those of   *)
(* the sequence.                                                           *)
LEMMA RecordsIs ==
  ASSUME NEW r, NEW s, Chain(r, s)
  PROVE  Records(r) = Elements(s) /\ Follow(r, Cardinality(Blocks)) = NULL
<1>1. /\ s \in Seq(Blocks) /\ Len(s) \in Nat
      /\ \A i \in 1..Len(s) : s[i] # NULL
      /\ \A i, j \in 1..Len(s) : s[i] = s[j] => i = j
  BY PoolThreadsAssumption DEF Chain, ChainIn
<1>2. PICK c \in Nat : IsFiniteSet(Blocks) /\ Cardinality(Blocks) = c
  <2>1. PICK k \in Nat : Blocks = 1..(2 * k)
    BY SpentIs
  <2>2. IsFiniteSet(1..(2 * k))
    BY FS_Interval
  <2> QED
    BY <2>1, <2>2, FS_CardinalityType
<1>3. Len(s) <= c
  <2>1. s \in Injection(1..Len(s), Blocks)
    BY <1>1 DEF Injection, IsInjective
  <2>2. Cardinality(1..Len(s)) <= c
    BY <1>2, <2>1, FS_Injection
  <2>3. Cardinality(1..Len(s)) = Len(s)
    <3>1. PICK n \in Nat : n = Len(s)
      BY <1>1
    <3>2. Cardinality(1..n) = IF 1 > n THEN 0 ELSE n - 1 + 1
      BY FS_Interval
    <3> QED
      BY <3>1, <3>2
  <2> QED
    BY <2>2, <2>3
<1>4. \A k \in 0..c : Follow(r, k) = At(s, k + 1)
  BY FollowIs
<1>5. Follow(r, c) = NULL
  BY <1>1, <1>3, <1>4 DEF At
<1>6. Records(r) = {Follow(r, k) : k \in 0..c} \ {NULL}
  BY <1>2 DEF Records
<1>7. ASSUME NEW x \in Records(r) PROVE x \in Elements(s)
  <2>1. PICK k \in 0..c : x = At(s, k + 1) /\ x # NULL
    BY <1>4, <1>6
  <2> QED
    BY <2>1 DEF At, Elements
<1>8. ASSUME NEW x \in Elements(s) PROVE x \in Records(r)
  <2>1. PICK i \in 1..Len(s) : x = s[i]
    BY DEF Elements
  <2>2. i - 1 \in 0..c /\ (i - 1) + 1 = i
    BY <1>1, <1>3
  <2>3. Follow(r, i - 1) = x
    BY <1>4, <2>1, <2>2 DEF At
  <2> QED
    BY <1>1, <1>6, <2>1, <2>2, <2>3
<1> QED
  BY <1>2, <1>5, <1>7, <1>8

-----------------------------------------------------------------------------
(* The invariant of the lists: the start, and the steps that leave them.   *)

\* Blocks are numbers.
LEMMA BlocksAreNat == Blocks \subseteq Nat
  BY SpentIs

(* Both lists are empty at first. *)
LEMMA ListsInit == Init => LInv
<1> SUFFICES ASSUME Init PROVE LInv
  OBVIOUS
<1> USE PoolThreadsAssumption DEF Init
<1>1. Solitary /\ Once /\ Held
  BY DEF Solitary, Once, Registering, Held, Idle
<1>2. Chain(NULL, <<>>) /\ Elements(<<>>) = {}
  BY DEF Chain, ChainIn, At, Elements
<1>3. Registered(<<>>)
  BY DEF Registered, DataOf, Leaving
<1>4. \A t \in Threads : Loose(t, <<>>, <<>>) /\ Searching(t, <<>>) /\ NoPrev(t)
  BY DEF Loose, Searching, NoPrev
<1>5. Lists(<<>>, <<>>)
  BY <1>2, <1>3, <1>4 DEF Lists
<1> QED
  BY <1>1, <1>5 DEF LInv

(* A step of t that changes no list keeps what the lists are. *)
LEMMA ListsKept ==
  ASSUME TInv, NEW s, NEW f, Lists(s, f), NEW t \in Threads, NEW where, Goto(t, where),
         pc[t] # "unlink", where # "unlink", UNCHANGED <<lists, linked, settled>>,
         first' \in Nat, first <= first',
         \A u \in Threads : u # t => /\ op'[u] = op[u] /\ want'[u] = want[u]
                                     /\ node'[u] = node[u] /\ prev'[u] = prev[u],
         Loose(t, s, f)', Searching(t, s)', NoPrev(t)'
  PROVE  Lists(s, f)'
<1>1. \A u \in Threads : pc'[u] = IF u = t THEN where ELSE pc[u]
  BY DEF TInv, TypeOK, Goto
<1>2. UNCHANGED <<cleanups, free_cleanups, next, data>>
  BY DEF lists
<1>3. Chain(cleanups, s)' /\ Chain(free_cleanups, f)' /\ Elements(s) \cap Elements(f) = {}
  <2>1. ChainIn(cleanups, s, next, first) /\ ChainIn(free_cleanups, f, next, first)
    BY DEF Lists, Chain
  <2>2. next \in [Blocks -> Blocks \cup {NULL}] /\ first \in Nat
    BY DEF TInv, TypeOK
  <2>3. ChainIn(cleanups, s, next, first') /\ ChainIn(free_cleanups, f, next, first')
    BY <2>1, <2>2, ChainOther
  <2> QED
    BY <1>2, <2>3 DEF Lists, Chain
<1>4. Registered(s)'
  <2>1. \A u \in Threads : pc'[u] = "unlink" <=> pc[u] = "unlink"
    BY <1>1
  <2>2. \A u \in Threads : pc[u] = "unlink" => want'[u] = want[u]
    OBVIOUS
  <2>3. Leaving' = Leaving
    BY <2>1, <2>2 DEF Leaving
  <2>4. DataOf(s)' = DataOf(s)
    BY <1>2 DEF DataOf
  <2> QED
    BY <1>2, <2>3, <2>4 DEF Lists, Registered
<1>5. ASSUME NEW u \in Threads, u # t PROVE Loose(u, s, f)' /\ Searching(u, s)' /\ NoPrev(u)'
  <2>1. Loose(u, s, f) /\ Searching(u, s) /\ NoPrev(u)
    BY DEF Lists
  <2>2. /\ pc'[u] = pc[u] /\ op'[u] = op[u] /\ want'[u] = want[u]
        /\ node'[u] = node[u] /\ prev'[u] = prev[u]
    BY <1>1, <1>5
  <2>3. Loose(u, s, f)'
    <3>1. node[u] \in Blocks /\ node[u] < first => node[u] < first'
      BY BlocksAreNat DEF TInv, TypeOK
    <3> QED
      BY <2>1, <2>2, <3>1 DEF Loose
  <2>4. Searching(u, s)'
    BY <1>2, <2>1, <2>2 DEF Searching
  <2> QED
    BY <2>1, <2>2, <2>3, <2>4 DEF NoPrev
<1> QED
  BY <1>3, <1>4, <1>5 DEF Lists

(* The other parts, over a step within a call. *)
LEMMA OthersKept ==
  ASSUME TInv, LInv, NEW t \in Threads, ~Idle(t), NEW where, Goto(t, where),
         UNCHANGED want, op' = op \/ (op[t] = "large" /\ op' = [op EXCEPT ![t] = "palloc"]),
         where \in {"lock", "pick", "link"} => pc[t] \in {"lock", "pick", "link"}
  PROVE  /\ Solitary'
         /\ (UNCHANGED <<linked, settled>> => Once')
<1>1. \A u \in Threads : pc'[u] = IF u = t THEN where ELSE pc[u]
  BY DEF TInv, TypeOK, Goto
<1>2. \A u \in Threads : op'[u] = op[u] \/ op'[u] = "palloc"
  BY DEF TInv, TypeOK
<1>3. \A u \in Threads : /\ op'[u] \in Finding => op[u] \in Finding
                         /\ op'[u] \in Adding => op[u] \in Adding
  BY <1>2 DEF Finding, Adding
<1>4. Solitary'
  <2> SUFFICES ASSUME NEW u \in Threads, op'[u] \in Finding, pc'[u] # "idle",
                      NEW v \in Threads \ {u}
               PROVE  pc'[v] = "idle"
    BY DEF Solitary, Idle
  <2>1. op[u] \in Finding /\ pc[u] # "idle"
    BY <1>1, <1>3 DEF Idle
  <2>2. pc[v] = "idle"
    BY <2>1 DEF LInv, Solitary, Idle
  <2>3. v # t
    BY <2>2 DEF Idle
  <2> QED
    BY <1>1, <2>2, <2>3
<1>5. ASSUME UNCHANGED <<linked, settled>> PROVE Once'
  <2>1. \A u \in Threads : Registering(u)' => Registering(u)
    BY <1>1, <1>3 DEF Registering
  <2> QED
    BY <1>5, <2>1 DEF LInv, Once
<1> QED
  BY <1>4, <1>5

(* A step of the holder of the mutex that stays inside. *)
LEMMA HeldKept ==
  ASSUME TInv, IInv, LInv, NEW t \in Threads, pc[t] \in InBody,
         NEW where \in InBody \cup {"unlock"}, Goto(t, where), UNCHANGED mutex
  PROVE  /\ Held'
         /\ \A u \in Threads : u # t => pc[u] \notin InBody /\ pc'[u] = pc[u]
<1>1. \A u \in Threads : pc'[u] = IF u = t THEN where ELSE pc[u]
  BY DEF TInv, TypeOK, Goto
<1>2. \A u \in Threads : pc[u] \in InBody => mutex.holder = u
  BY DEF IInv, OneInside, InBody
<1>3. Held'
  BY <1>1 DEF LInv, Held
<1> QED
  BY <1>1, <1>2, <1>3

(* Entering a call. *)
LEMMA ListsBegin ==
  ASSUME TInv, LInv, NEW t \in Threads,
         NEW name \in {"palloc", "large", "add"} \cup Finding, NEW d,
         NEW where \in {"lock", "unlock"}, Undisturbed(t), Begin(t, name, d), Goto(t, where),
         name \in Finding => Alone(t), name \in Adding => d \notin Begun,
         NEW s, NEW f, Lists(s, f),
         \A u \in Threads : u # t => node'[u] = node[u], Searching(t, s)'
  PROVE  LInv'
<1>1. /\ Idle(t) /\ op' = [op EXCEPT ![t] = name] /\ want' = [want EXCEPT ![t] = d]
      /\ UNCHANGED <<mutex, lists, first, prev, linked, settled>>
  BY DEF Begin, history
<1>2. \A u \in Threads : /\ pc'[u] = IF u = t THEN where ELSE pc[u]
                         /\ op'[u] = IF u = t THEN name ELSE op[u]
                         /\ want'[u] = IF u = t THEN d ELSE want[u]
  BY <1>1 DEF TInv, TypeOK, Goto
<1>3. Solitary'
  <2> SUFFICES ASSUME NEW u \in Threads, op'[u] \in Finding, pc'[u] # "idle",
                      NEW v \in Threads \ {u}
               PROVE  pc'[v] = "idle"
    BY DEF Solitary, Idle
  <2>1. CASE u = t
    <3>1. name \in Finding
      BY <1>2, <2>1
    <3> QED
      BY <1>2, <2>1, <3>1 DEF Alone, Others, Idle
  <2>2. CASE u # t
    <3>1. op[u] \in Finding /\ pc[u] # "idle"
      BY <1>2, <2>2
    <3> QED
      BY <2>2, <3>1 DEF Undisturbed, Others, Idle
  <2> QED
    BY <2>1, <2>2
<1>4. Once'
  <2>1. \A u \in Threads : u # t => (Registering(u)' <=> Registering(u))
    BY <1>2 DEF Registering
  <2>2. \A u \in Threads : Registering(u) => want[u] \in Begun
    BY DEF Registering, Begun, Idle
  <2>3. Registering(t)' => d \notin Begun
    BY <1>2 DEF Registering
  <2>4. linked \subseteq Begun
    BY DEF Begun
  <2>5. settled' \subseteq linked' /\ linked' = linked
    BY <1>1 DEF LInv, Once
  <2>6. ASSUME NEW u \in Threads, Registering(u)' PROVE want'[u] \notin linked
    BY <1>2, <2>1, <2>3, <2>4, <2>6 DEF LInv, Once
  <2>7. ASSUME NEW u \in Threads, Registering(u)', NEW v \in Threads \ {u}, Registering(v)'
        PROVE  want'[v] # want'[u]
    <3>1. CASE u = t
      BY <1>2, <2>1, <2>2, <2>3, <2>7, <3>1
    <3>2. CASE v = t
      BY <1>2, <2>1, <2>2, <2>3, <2>7, <3>2
    <3>3. CASE u # t /\ v # t
      BY <1>2, <2>1, <2>7, <3>3 DEF LInv, Once
    <3> QED
      BY <3>1, <3>2, <3>3
  <2> QED
    BY <2>5, <2>6, <2>7 DEF Once
<1>5. Held'
  BY <1>1, <1>2 DEF LInv, Held, InBody, Idle
<1>6. Lists(s, f)'
  <2>1. first' \in Nat /\ first <= first'
    BY <1>1 DEF TInv, TypeOK
  <2>2. pc[t] # "unlink" /\ where # "unlink"
    BY <1>1 DEF Idle
  <2>3. Loose(t, s, f)'
    BY <1>2 DEF Loose
  <2>4. NoPrev(t)'
    BY <1>1 DEF NoPrev, Lists, Idle
  <2>5. \A u \in Threads : u # t => /\ op'[u] = op[u] /\ want'[u] = want[u]
                                    /\ node'[u] = node[u] /\ prev'[u] = prev[u]
    BY <1>1, <1>2
  <2> QED
    BY <1>1, <2>1, <2>2, <2>3, <2>4, <2>5, ListsKept
<1> QED
  BY <1>3, <1>4, <1>5, <1>6 DEF LInv

(* Entering a call keeps the lists. *)
LEMMA ListsCall ==
  ASSUME TInv, LInv, NEW t \in Threads, Call(t), careful'
  PROVE  LInv'
<1>1. PICK s, f : Lists(s, f)
  BY DEF LInv
<1>2. ASSUME NEW name \in {"palloc", "large", "add"}, NEW d, NEW where \in {"lock", "unlock"},
             Begin(t, name, d), Goto(t, where), UNCHANGED node,
             name \in Adding => d \notin Begun
      PROVE  LInv'
  <2>1. op'[t] = name
    BY <1>2 DEF Begin, TInv, TypeOK
  <2>2. Searching(t, s)'
    BY <2>1 DEF Searching, Finding
  <2>3. name \notin Finding
    BY DEF Finding
  <2>4. \A u \in Threads : u # t => node'[u] = node[u]
    BY <1>2
  <2>5. name \in {"palloc", "large", "add"} \cup Finding
    OBVIOUS
  <2>6. Undisturbed(t)
    BY <1>2 DEF Begin, Disciplined
  <2> QED
    BY <1>1, <1>2, <2>2, <2>3, <2>4, <2>5, <2>6, ListsBegin
<1>3. CASE CallPalloc(t)
  BY <1>2, <1>3 DEF CallPalloc, Adding
<1>4. CASE CallPallocRefused(t)
  BY <1>2, <1>4 DEF CallPallocRefused, Adding
<1>5. ASSUME NEW d \in Data, NEW name \in {"add", "large"}, CallAdd(t, name, d) PROVE LInv'
  BY <1>2, <1>5 DEF CallAdd
<1>6. ASSUME NEW d \in Data, NEW name \in Finding, CallFind(t, name, d) PROVE LInv'
  <2>1. /\ Alone(t) /\ Undisturbed(t) /\ d \in linked \ settled /\ Begin(t, name, d)
        /\ node' = [node EXCEPT ![t] = cleanups] /\ Goto(t, "lock")
    BY <1>6 DEF CallFind, Begin, Disciplined
  <2>2. /\ node'[t] = cleanups /\ want'[t] = d /\ prev' = prev /\ UNCHANGED <<data, linked, settled>>
        /\ pc'[t] = "lock" /\ Idle(t)
        /\ \A u \in Threads : u # t => node'[u] = node[u]
    BY <2>1 DEF Begin, TInv, TypeOK, Goto, lists, history
  <2>3. PICK j \in 1..Len(s) : data[s[j]] = d
    BY <1>1, <2>1 DEF Lists, Registered, DataOf
  <2>4. Len(s) \in Nat /\ cleanups = At(s, 1)
    BY <1>1 DEF Lists, Chain, ChainIn
  <2>5. 1 \in 1..Len(s) /\ cleanups = s[1] /\ j \in 1..Len(s)
    BY <2>3, <2>4 DEF At
  <2>6. prev'[t] = NULL /\ At(s, 1 - 1) = NULL
    BY <1>1, <2>2 DEF Lists, NoPrev, Idle, At
  <2>7. Searching(t, s)'
    BY <2>1, <2>2, <2>3, <2>5, <2>6 DEF Searching
  <2>8. name \notin Adding
    BY DEF Adding, Finding
  <2> QED
    BY <1>1, <2>1, <2>2, <2>7, <2>8, ListsBegin
<1> QED
  BY <1>3, <1>4, <1>5, <1>6 DEF Call

(* The mutex: a thread that waits for it does not hold it, and one that    *)
(* unlocks no longer does.                                                 *)
LEMMA ListsLock == ASSUME TInv, IInv, LInv, NEW t \in Threads, Lock(t) PROVE LInv'
<1>1. /\ pc[t] = "lock" /\ mutex.holder \in {t, NoThread}
      /\ mutex' = [holder |-> t, depth |-> mutex.depth + 1] /\ Goto(t, Body(t))
      /\ UNCHANGED <<lists, first, locals, linked, settled>>
  BY DEF Lock, fpx_mutex_lock_recursive, history
<1>2. /\ Body(t) \in {"read_first", "pick", "walk"}
      /\ Body(t) = "walk" => op[t] \in Finding
      /\ Body(t) # "walk" => op[t] \notin Finding
  <2>1. op[t] \in {"palloc", "large", "add"} \cup Finding
    BY DEF TInv, TypeOK
  <2> QED
    BY <2>1 DEF Body, Finding
<1>3. \A u \in Threads : pc'[u] = IF u = t THEN Body(t) ELSE pc[u]
  BY <1>1 DEF TInv, TypeOK, Goto
<1>4. Held'
  <2>1. mutex.holder = NoThread
    BY <1>1 DEF LInv, Held, InBody
  <2>2. mutex.depth = 0
    BY <2>1 DEF TInv, Depth
  <2>3. mutex'.holder = t /\ mutex'.depth = 1
    BY <1>1, <2>2
  <2> QED
    BY <1>2, <1>3, <2>3 DEF Held, InBody
<1>5. Solitary' /\ Once'
  BY <1>1, <1>2, OthersKept DEF Idle, locals
<1>6. PICK s, f : Lists(s, f)
  BY DEF LInv
<1>7. Lists(s, f)'
  <2>1. UNCHANGED <<node, prev, op, want, data>>
    BY <1>1 DEF locals, lists
  <2>2. Loose(t, s, f)'
    BY <1>2, <1>3 DEF Loose
  <2>3. Searching(t, s)'
    <3>1. Searching(t, s)
      BY <1>6 DEF Lists
    <3> QED
      BY <1>1, <1>2, <1>3, <2>1, <3>1 DEF Searching
  <2>4. NoPrev(t)'
    <3>1. NoPrev(t)
      BY <1>6 DEF Lists
    <3> QED
      BY <1>1, <2>1, <3>1 DEF NoPrev
  <2>5. first' \in Nat /\ first <= first'
    BY <1>1 DEF TInv, TypeOK
  <2> QED
    BY <1>1, <1>2, <1>6, <2>1, <2>2, <2>3, <2>4, <2>5, ListsKept
<1> QED
  BY <1>4, <1>5, <1>7 DEF LInv

(* Unlocking keeps the lists. *)
LEMMA ListsUnlock == ASSUME TInv, IInv, LInv, NEW t \in Threads, Unlock(t) PROVE LInv'
<1>1. /\ pc[t] = "unlock"
      /\ \/ mutex' = mutex /\ mutex.holder # t
         \/ mutex.holder = t /\ mutex' = [holder |-> NoThread, depth |-> 0]
         \/ mutex.holder = t /\ mutex.depth # 1
      /\ \/ op[t] = "large" /\ op' = [op EXCEPT ![t] = "palloc"] /\ UNCHANGED pc
         \/ Goto(t, "idle") /\ UNCHANGED op
      /\ UNCHANGED <<lists, first, want, node, prev, linked, settled>>
  BY DEF Unlock, fpx_mutex_unlock_recursive, history
<1>2. PICK where \in {"idle", "unlock"} : Goto(t, where)
  BY <1>1 DEF Goto, TInv, TypeOK
<1>3. \A u \in Threads : pc'[u] = IF u = t THEN where ELSE pc[u]
  BY <1>2 DEF TInv, TypeOK, Goto
<1>4. Held'
  <2>1. mutex.holder = t => mutex.depth = 1
    BY DEF LInv, Held
  <2>2. CASE mutex' = mutex /\ mutex.holder # t
    BY <1>3, <2>2 DEF LInv, Held
  <2>3. CASE mutex' = [holder |-> NoThread, depth |-> 0]
    BY <2>3, PoolThreadsAssumption DEF Held
  <2> QED
    BY <1>1, <2>1, <2>2, <2>3
<1>5. Solitary' /\ Once'
  BY <1>1, <1>2, OthersKept DEF Idle
<1>6. PICK s, f : Lists(s, f)
  BY DEF LInv
<1>7. Lists(s, f)'
  <2>1. Loose(t, s, f)' /\ Searching(t, s)'
    BY <1>2, <1>3 DEF Loose, Searching
  <2>2. NoPrev(t)'
    <3>1. NoPrev(t)
      BY <1>6 DEF Lists
    <3> QED
      BY <1>1, <3>1 DEF NoPrev
  <2>3. first' \in Nat /\ first <= first'
    BY <1>1 DEF TInv, TypeOK
  <2>4. \A u \in Threads : u # t => op'[u] = op[u]
    BY <1>1 DEF TInv, TypeOK
  <2> QED
    BY <1>1, <1>2, <1>6, <2>1, <2>2, <2>3, <2>4, ListsKept
<1> QED
  BY <1>4, <1>5, <1>7 DEF LInv

(* Carving a block. *)
LEMMA ListsPalloc ==
  ASSUME TInv, IInv, LInv, NEW t \in Threads, ReadFirst(t) \/ Advance(t)
  PROVE  LInv'
<1>1. PICK where \in {"advance", "unlock"} :
        /\ pc[t] \in {"read_first", "advance"} /\ Goto(t, where)
        /\ UNCHANGED <<mutex, lists, op, want, prev, linked, settled>>
        /\ first' = first \/ first' = first + 1
        /\ \A u \in Threads : u # t => node'[u] = node[u]
  BY DEF ReadFirst, Advance, locals, history, TInv, TypeOK
<1>2. pc'[t] = where
  BY <1>1 DEF TInv, TypeOK, Goto
<1>3. Held'
  BY <1>1, HeldKept DEF InBody
<1>4. Solitary' /\ Once'
  BY <1>1, OthersKept DEF Idle
<1>5. PICK s, f : Lists(s, f)
  BY DEF LInv
<1>6. Lists(s, f)'
  <2>1. Loose(t, s, f)' /\ Searching(t, s)'
    BY <1>2 DEF Loose, Searching
  <2>2. NoPrev(t)'
    <3>1. NoPrev(t)
      BY <1>5 DEF Lists
    <3> QED
      BY <1>1, <3>1 DEF NoPrev
  <2>3. first' \in Nat /\ first <= first'
    BY <1>1 DEF TInv, TypeOK
  <2> QED
    BY <1>1, <1>5, <2>1, <2>2, <2>3, ListsKept
<1> QED
  BY <1>3, <1>4, <1>6 DEF LInv

(* While t is inside, no other thread has to do with the lists. *)
LEMMA Outsiders ==
  ASSUME TInv, IInv, LInv, NEW t \in Threads, pc[t] \in InBody, NEW where, Goto(t, where),
         UNCHANGED <<op, want>>, \A u \in Threads : u # t => prev'[u] = prev[u],
         NEW s, NEW f
  PROVE  /\ \A u \in Threads : u # t => Loose(u, s, f)' /\ Searching(u, s)' /\ NoPrev(u)'
         /\ Leaving = IF pc[t] = "unlink" THEN {want[t]} ELSE {}
         /\ Leaving' = IF where = "unlink" THEN {want[t]} ELSE {}
<1>1. \A u \in Threads : pc'[u] = IF u = t THEN where ELSE pc[u]
  BY DEF TInv, TypeOK, Goto
<1>2. \A u \in Threads : u # t => pc[u] \notin InBody
  BY DEF IInv, OneInside, InBody
<1>3. ASSUME NEW u \in Threads, u # t PROVE Loose(u, s, f)' /\ Searching(u, s)' /\ NoPrev(u)'
  <2>1. pc'[u] = pc[u] /\ pc[u] \notin InBody
    BY <1>1, <1>2, <1>3
  <2>2. pc[u] = "lock" => op[u] \notin Finding
    BY <1>3 DEF LInv, Solitary, Idle, InBody
  <2>3. NoPrev(u)'
    BY <1>3, <2>1 DEF LInv, Lists, NoPrev
  <2> QED
    BY <2>1, <2>2, <2>3 DEF Loose, Searching, InBody
<1>4. Leaving = IF pc[t] = "unlink" THEN {want[t]} ELSE {}
  BY <1>2 DEF Leaving, InBody
<1>5. Leaving' = IF where = "unlink" THEN {want[t]} ELSE {}
  <2>1. \A u \in Threads : pc'[u] = "unlink" => u = t /\ where = "unlink"
    BY <1>1, <1>2 DEF InBody
  <2>2. pc'[t] = where /\ want' = want
    BY <1>1
  <2> QED
    BY <2>1, <2>2 DEF Leaving
<1> QED
  BY <1>3, <1>4, <1>5

(* Taking a reserved record, or a new one: it is in no list any more, or   *)
(* not yet.                                                                *)
LEMMA ListsPick == ASSUME TInv, IInv, LInv, NEW t \in Threads, Pick(t) PROVE LInv'
<1>1. /\ pc[t] = "pick" /\ Goto(t, "link")
      /\ UNCHANGED <<mutex, cleanups, next, data, op, want, prev, linked, settled>>
  BY DEF Pick, history
<1>2. pc'[t] = "link"
  BY <1>1 DEF TInv, TypeOK, Goto
<1>3. Held' /\ Solitary' /\ Once'
  BY <1>1, HeldKept, OthersKept DEF InBody, Idle
<1>4. PICK s, f : Lists(s, f)
  BY DEF LInv
<1>5. NoPrev(t)' /\ Searching(t, s)'
  <2>1. NoPrev(t)
    BY <1>4 DEF Lists
  <2> QED
    BY <1>1, <1>2, <2>1 DEF NoPrev, Searching
<1>6. /\ ChainIn(cleanups, s, next, first) /\ ChainIn(free_cleanups, f, next, first)
      /\ Elements(s) \cap Elements(f) = {} /\ Registered(s)
  BY <1>4 DEF Lists, Chain
<1>7. /\ next \in [Blocks -> Blocks \cup {NULL}] /\ first \in Nat /\ DOMAIN node = Threads
      /\ first + 1 \in Nat /\ first <= first + 1
  BY DEF TInv, TypeOK
<1>8. Leaving = {} /\ Leaving' = {}
  BY <1>1, Outsiders DEF InBody
<1>9. Registered(s)'
  <2>1. DataOf(s)' = DataOf(s)
    BY <1>1 DEF DataOf
  <2> QED
    BY <1>1, <1>6, <1>8, <2>1 DEF Registered
<1>10. CASE free_cleanups # NULL
  <2>1. /\ node' = [node EXCEPT ![t] = free_cleanups] /\ free_cleanups' = next[free_cleanups]
        /\ first' = first
    BY <1>10 DEF Pick
  <2>2. /\ f \in Seq(Blocks) /\ 1 \in 1..Len(f) /\ f[1] = free_cleanups
        /\ \A i, j \in 1..Len(f) : f[i] = f[j] => i = j
        /\ f[1] < first
    BY <1>6, <1>10 DEF ChainIn, At
  <2>3. PICK g : g = Drop(f, 1)
    OBVIOUS
  <2>4. ChainIn(free_cleanups', g, next, first) /\ Elements(g) = Elements(f) \ {f[1]}
    BY <1>6, <1>7, <2>1, <2>2, <2>3, ChainDrop, DropIs
  <2>5. f[1] \in Elements(f) /\ f[1] \in Blocks /\ node'[t] = f[1]
    BY <1>7, <2>1, <2>2 DEF Elements
  <2>6. Loose(t, s, g)'
    BY <1>6, <2>1, <2>2, <2>4, <2>5 DEF Loose
  <2>7. \A u \in Threads : u # t => Loose(u, s, g)' /\ Searching(u, s)' /\ NoPrev(u)'
    BY <1>1, Outsiders DEF InBody
  <2>8. Chain(cleanups, s)' /\ Chain(free_cleanups, g)' /\ Elements(s) \cap Elements(g) = {}
    BY <1>1, <1>6, <2>1, <2>4 DEF Chain
  <2>9. Lists(s, g)'
    BY <1>5, <1>9, <2>6, <2>7, <2>8 DEF Lists
  <2> QED
    BY <1>3, <2>9 DEF LInv
<1>11. CASE free_cleanups = NULL
  <2>1. /\ node' = [node EXCEPT ![t] = first] /\ first' = first + 1 /\ free_cleanups' = free_cleanups
    BY <1>11 DEF Pick
  <2>2. first \in Blocks /\ node'[t] = first
    BY <1>1, <1>7, <2>1, RoomLeft DEF Giving
  <2>3. ChainIn(cleanups, s, next, first') /\ ChainIn(free_cleanups, f, next, first')
    BY <1>6, <1>7, <2>1, ChainOther
  <2>4. first \notin Elements(s) \cup Elements(f)
    BY <1>6, <1>7 DEF ChainIn, Elements
  <2>5. Loose(t, s, f)'
    BY <1>7, <2>1, <2>2, <2>4 DEF Loose
  <2>6. \A u \in Threads : u # t => Loose(u, s, f)' /\ Searching(u, s)' /\ NoPrev(u)'
    BY <1>1, Outsiders DEF InBody
  <2>7. Chain(cleanups, s)' /\ Chain(free_cleanups, f)'
    BY <1>1, <2>1, <2>3 DEF Chain
  <2>8. Lists(s, f)'
    BY <1>5, <1>6, <1>9, <2>5, <2>6, <2>7 DEF Lists
  <2> QED
    BY <1>3, <2>8 DEF LInv
<1> QED
  BY <1>10, <1>11

(* Linking the record in front of the cleanups. *)
LEMMA ListsLink == ASSUME TInv, IInv, LInv, NEW t \in Threads, Link(t) PROVE LInv'
<1>1. /\ pc[t] = "link" /\ data' = [data EXCEPT ![node[t]] = want[t]]
      /\ next' = [next EXCEPT ![node[t]] = cleanups] /\ cleanups' = node[t]
      /\ linked' = linked \cup {want[t]} /\ Goto(t, "unlock")
      /\ UNCHANGED <<mutex, free_cleanups, first, op, want, node, prev, settled>>
  BY DEF Link, locals
<1>2. \A u \in Threads : pc'[u] = IF u = t THEN "unlock" ELSE pc[u]
  BY <1>1 DEF TInv, TypeOK, Goto
<1>3. Held' /\ Solitary'
  BY <1>1, HeldKept, OthersKept DEF InBody, Idle
<1>4. op[t] \in Adding /\ Registering(t)
  BY <1>1 DEF TInv, Kinds, Registering
<1>5. Once'
  <2>1. \A u \in Threads : Registering(u)' => Registering(u) /\ u # t
    BY <1>1, <1>2 DEF Registering
  <2>2. \A u \in Threads : Registering(u) /\ u # t => want[u] # want[t] /\ want[u] \notin linked
    BY <1>4 DEF LInv, Once
  <2>3. settled' \subseteq linked'
    BY <1>1 DEF LInv, Once
  <2>4. \A u \in Threads : Registering(u)' => want'[u] \notin linked'
    BY <1>1, <2>1, <2>2
  <2>5. \A u \in Threads : Registering(u)' =>
           \A v \in Threads \ {u} : Registering(v)' => want'[v] # want'[u]
    BY <1>1, <2>1 DEF LInv, Once
  <2> QED
    BY <2>3, <2>4, <2>5 DEF Once
<1>6. PICK s, f : Lists(s, f)
  BY DEF LInv
<1>7. /\ ChainIn(cleanups, s, next, first) /\ ChainIn(free_cleanups, f, next, first)
      /\ Elements(s) \cap Elements(f) = {} /\ Registered(s) /\ Loose(t, s, f) /\ NoPrev(t)
      /\ s \in Seq(Blocks) /\ f \in Seq(Blocks) /\ Len(s) \in Nat
  BY <1>6 DEF Lists, Chain, ChainIn
<1>8. PICK x \in Blocks : x = node[t] /\ x < first /\ x \notin Elements(s) /\ x \notin Elements(f)
  BY <1>1, <1>7 DEF Loose
<1>9. next \in [Blocks -> Blocks \cup {NULL}] /\ first \in Nat /\ data \in [Blocks -> Data \cup {NULL}]
  BY DEF TInv, TypeOK
<1>10. PICK p : p = Push(x, s)
  OBVIOUS
<1>11. ChainIn(cleanups', p, next', first')
  BY <1>1, <1>7, <1>8, <1>9, <1>10, ChainPush
<1>12. ChainIn(free_cleanups', f, next', first')
  <2>1. \A i \in 1..Len(f) : next'[f[i]] = next[f[i]]
    BY <1>1, <1>7, <1>8, <1>9 DEF Elements
  <2>2. first <= first
    BY <1>9
  <2>3. ChainIn(free_cleanups, f, next', first)
    BY <1>7, <1>9, <2>1, <2>2, ChainOther
  <2> QED
    BY <1>1, <2>3
<1>13. /\ p \in Seq(Blocks) /\ Len(p) = Len(s) + 1 /\ p[1] = x
       /\ \A i \in 1..Len(s) : p[i + 1] = s[i]
       /\ \A i \in 1..(Len(s) + 1) : i # 1 => i - 1 \in 1..Len(s) /\ p[i] = s[i - 1]
       /\ Elements(p) = Elements(s) \cup {x}
  <2>1. s \in Seq(Blocks) /\ x \in Blocks
    BY <1>7
  <2>2. /\ Push(x, s) \in Seq(Blocks) /\ Len(Push(x, s)) = Len(s) + 1 /\ Push(x, s)[1] = x
        /\ \A i \in 1..Len(s) : Push(x, s)[i + 1] = s[i]
        /\ \A i \in 1..(Len(s) + 1) : i # 1 => i - 1 \in 1..Len(s) /\ Push(x, s)[i] = s[i - 1]
        /\ Elements(Push(x, s)) = Elements(s) \cup {x}
    BY <2>1, PushIs, Zenon
  <2> QED
    BY <1>10, <2>2, Zenon
<1>14. Leaving = {} /\ Leaving' = {}
  BY <1>1, Outsiders, SMTT(30) DEF InBody
<1>15. want[t] \notin linked
  BY <1>4 DEF LInv, Once
<1>16. /\ data'[x] = want[t]
       /\ \A i \in 1..Len(s) : data'[s[i]] = data[s[i]] /\ data[s[i]] \in linked \ settled
  <2>1. DataOf(s) = linked \ settled
    BY <1>7, <1>14 DEF Registered
  <2>2. \A i \in 1..Len(s) : s[i] # x /\ s[i] \in Blocks /\ data[s[i]] \in DataOf(s)
    BY <1>7, <1>8 DEF Elements, DataOf
  <2> QED
    BY <1>1, <1>8, <1>9, <2>1, <2>2
<1>17. Registered(p)'
  <2>1. ASSUME NEW i \in 1..Len(p), NEW j \in 1..Len(p), data'[p[i]] = data'[p[j]] PROVE i = j
    <3>1. CASE i = 1 \/ j = 1
      <4>1. \A k \in 1..Len(p) : k # 1 => k - 1 \in 1..Len(s) /\ p[k] = s[k - 1]
        BY <1>13
      <4>2. \A k \in 1..Len(p) : k # 1 => data'[p[k]] \in linked
        <5>1. \A l \in 1..Len(s) : data'[s[l]] \in linked
          BY <1>16
        <5> QED
          BY <4>1, <5>1, Zenon
      <4>3. data'[p[1]] \notin linked
        BY <1>13, <1>15, <1>16
      <4> QED
        BY <2>1, <3>1, <4>2, <4>3
    <3>2. CASE i # 1 /\ j # 1
      <4>1. i - 1 \in 1..Len(s) /\ j - 1 \in 1..Len(s) /\ p[i] = s[i - 1] /\ p[j] = s[j - 1]
        BY <1>7, <1>13, <3>2
      <4>2. data[s[i - 1]] = data[s[j - 1]]
        BY <1>16, <2>1, <4>1
      <4>3. i - 1 = j - 1
        BY <1>7, <4>1, <4>2 DEF Registered
      <4> QED
        BY <1>7, <1>13, <4>3
    <3> QED
      BY <3>1, <3>2
  <2>2. DataOf(p)' = DataOf(s) \cup {want[t]}
    <3>1. ASSUME NEW y \in DataOf(p)' PROVE y \in DataOf(s) \cup {want[t]}
      <4>1. PICK i \in 1..Len(p) : y = data'[p[i]]
        BY DEF DataOf
      <4>2. CASE i = 1
        BY <1>13, <1>16, <4>1, <4>2
      <4>3. CASE i # 1
        <5>1. i - 1 \in 1..Len(s) /\ p[i] = s[i - 1]
          BY <1>7, <1>13, <4>3
        <5> QED
          BY <1>16, <4>1, <5>1 DEF DataOf
      <4> QED
        BY <4>2, <4>3
    <3>2. want[t] \in DataOf(p)'
      <4>1. 1 \in 1..Len(p)
        BY <1>7, <1>13
      <4> QED
        BY <1>13, <1>16, <4>1 DEF DataOf
    <3>3. ASSUME NEW y \in DataOf(s) PROVE y \in DataOf(p)'
      <4>1. PICK i \in 1..Len(s) : y = data[s[i]]
        BY DEF DataOf
      <4>2. i + 1 \in 1..Len(p) /\ y = data'[p[i + 1]]
        BY <1>7, <1>13, <1>16, <4>1
      <4> QED
        BY <4>2 DEF DataOf
    <3> QED
      BY <3>1, <3>2, <3>3
  <2>3. want[t] \notin settled
    BY <1>15 DEF LInv, Once
  <2>4. DataOf(p)' = (linked' \ settled') \cup Leaving'
    BY <1>1, <1>7, <1>14, <2>2, <2>3 DEF Registered
  <2> QED
    BY <2>1, <2>4 DEF Registered
<1>18. Loose(t, p, f)' /\ Searching(t, p)' /\ NoPrev(t)'
  BY <1>1, <1>2, <1>7 DEF Loose, Searching, NoPrev
<1>19. \A u \in Threads : u # t => Loose(u, p, f)' /\ Searching(u, p)' /\ NoPrev(u)'
  BY <1>1, Outsiders DEF InBody
<1>20. Elements(p) \cap Elements(f) = {}
  BY <1>7, <1>8, <1>13
<1>21. Lists(p, f)'
  BY <1>11, <1>12, <1>17, <1>18, <1>19, <1>20 DEF Lists, Chain
<1> QED
  BY <1>3, <1>5, <1>21 DEF LInv

(* A turn of the search: the record looked for lies ahead, so that the end *)
(* of the list is never reached.                                           *)
LEMMA ListsWalk == ASSUME TInv, IInv, LInv, NEW t \in Threads, Walk(t) PROVE LInv'
<1>1. pc[t] = "walk" /\ UNCHANGED <<mutex, lists, first, op, want, linked>>
  BY DEF Walk
<1>2. op[t] \in Finding
  BY <1>1 DEF TInv, Kinds
<1>3. PICK s, f : Lists(s, f)
  BY DEF LInv
<1>4. /\ s \in Seq(Blocks) /\ Len(s) \in Nat
      /\ \A k \in 1..Len(s) : next[s[k]] = At(s, k + 1) /\ s[k] # NULL
      /\ Registered(s)
  BY <1>3, PoolThreadsAssumption DEF Lists, Chain, ChainIn
<1>5. PICK i \in 1..Len(s) :
        /\ node[t] = s[i] /\ prev[t] = At(s, i - 1) /\ want[t] \in linked \ settled
        /\ \E j \in i..Len(s) : data[s[j]] = want[t]
  BY <1>1, <1>2, <1>3 DEF Lists, Searching
<1>6. PICK j \in i..Len(s) : data[s[j]] = want[t]
  BY <1>5
<1>7. UNCHANGED <<cleanups, free_cleanups, next, data>>
  BY <1>1 DEF lists
<1>8. DOMAIN node = Threads /\ DOMAIN prev = Threads /\ first \in Nat /\ first <= first
  BY DEF TInv, TypeOK
<1>9. ~NotFound(t)
  BY <1>4, <1>5 DEF NotFound
<1>10. CASE Found(t)
  <2>1. /\ settled' = settled \cup {want[t]} /\ Goto(t, "unlink") /\ data[node[t]] = want[t]
        /\ UNCHANGED <<node, prev>>
    BY <1>10 DEF Found
  <2>2. pc'[t] = "unlink"
    BY <2>1 DEF TInv, TypeOK, Goto
  <2>3. Held' /\ Solitary'
    BY <1>1, <2>1, HeldKept, OthersKept DEF InBody, Idle
  <2>4. Once'
    <3>1. \A u \in Threads : pc'[u] = IF u = t THEN "unlink" ELSE pc[u]
      BY <2>1 DEF TInv, TypeOK, Goto
    <3>2. \A u \in Threads : Registering(u)' => Registering(u)
      BY <1>1, <3>1 DEF Registering
    <3>3. settled' \subseteq linked'
      BY <1>1, <1>5, <2>1 DEF LInv, Once
    <3> QED
      BY <1>1, <3>2, <3>3 DEF LInv, Once
  <2>5. Leaving = {} /\ Leaving' = {want[t]}
    BY <1>1, <2>1, Outsiders DEF InBody
  <2>6. Registered(s)'
    <3>1. DataOf(s)' = DataOf(s)
      BY <1>7 DEF DataOf
    <3>2. (linked' \ settled') \cup Leaving' = (linked \ settled) \cup Leaving
      BY <1>1, <1>5, <2>1, <2>5
    <3> QED
      BY <1>4, <1>7, <3>1, <3>2 DEF Registered
  <2>7. Loose(t, s, f)' /\ NoPrev(t)'
    BY <2>2 DEF Loose, NoPrev
  <2>8. Searching(t, s)'
    BY <1>1, <1>5, <1>7, <2>1, <2>2 DEF Searching
  <2>9. \A u \in Threads : u # t => Loose(u, s, f)' /\ Searching(u, s)' /\ NoPrev(u)'
    BY <1>1, <2>1, Outsiders DEF InBody
  <2>10. Lists(s, f)'
    BY <1>1, <1>3, <1>7, <2>6, <2>7, <2>8, <2>9 DEF Lists, Chain
  <2> QED
    BY <2>3, <2>4, <2>10 DEF LInv
<1>11. CASE Step(t)
  <2>1. /\ data[node[t]] # want[t] /\ prev' = [prev EXCEPT ![t] = node[t]]
        /\ node' = [node EXCEPT ![t] = next[node[t]]] /\ UNCHANGED <<pc, settled>>
    BY <1>11 DEF Step
  <2>2. Goto(t, "walk") /\ pc'[t] = "walk"
    BY <1>1, <2>1 DEF TInv, TypeOK, Goto
  <2>3. Held' /\ Solitary' /\ Once'
    BY <1>1, <2>1, <2>2, HeldKept, OthersKept DEF InBody, Idle
  <2>4. j \in (i + 1)..Len(s) /\ i + 1 \in 1..Len(s) /\ (i + 1) - 1 = i
    <3>1. i # j
      BY <1>5, <1>6, <2>1
    <3> QED
      BY <1>4, <1>6, <3>1
  <2>5. node'[t] = s[i + 1] /\ prev'[t] = At(s, i)
    BY <1>4, <1>5, <1>8, <2>1, <2>4 DEF At
  <2>6. Searching(t, s)'
    BY <1>1, <1>5, <1>6, <1>7, <2>1, <2>2, <2>4, <2>5 DEF Searching
  <2>7. Loose(t, s, f)' /\ NoPrev(t)'
    BY <2>2 DEF Loose, NoPrev
  <2>8. \A u \in Threads : u # t => node'[u] = node[u] /\ prev'[u] = prev[u]
    BY <1>8, <2>1
  <2>9. Lists(s, f)'
    BY <1>1, <1>3, <1>8, <2>1, <2>2, <2>6, <2>7, <2>8, ListsKept
  <2> QED
    BY <2>3, <2>9 DEF LInv
<1> QED
  BY <1>9, <1>10, <1>11 DEF Walk

(* The record found leaves the list of cleanups: `prev' is set whenever it *)
(* is used.                                                                *)
LEMMA ListsUnlink == ASSUME TInv, IInv, LInv, NEW t \in Threads, Unlink(t) PROVE LInv'
<1>1. /\ pc[t] = "unlink" /\ Goto(t, "reserve")
      /\ UNCHANGED <<mutex, free_cleanups, data, first, op, want, node, prev, linked, settled>>
  BY DEF Unlink, locals, history
<1>2. pc'[t] = "reserve" /\ op[t] \in Finding
  BY <1>1 DEF TInv, TypeOK, Kinds, Goto
<1>3. Held' /\ Solitary' /\ Once'
  BY <1>1, HeldKept, OthersKept DEF InBody, Idle
<1>4. PICK s, f : Lists(s, f)
  BY DEF LInv
<1>5. /\ s \in Seq(Blocks) /\ Len(s) \in Nat /\ cleanups = At(s, 1)
      /\ \A k \in 1..Len(s) : s[k] # NULL /\ s[k] < first /\ s[k] \in Blocks
      /\ \A k, l \in 1..Len(s) : s[k] = s[l] => k = l
      /\ ChainIn(cleanups, s, next, first) /\ ChainIn(free_cleanups, f, next, first)
      /\ Registered(s) /\ Elements(s) \cap Elements(f) = {} /\ f \in Seq(Blocks)
  BY <1>4, PoolThreadsAssumption DEF Lists, Chain, ChainIn
<1>6. PICK i \in 1..Len(s) : /\ node[t] = s[i] /\ prev[t] = At(s, i - 1)
                             /\ data[s[i]] = want[t] /\ want[t] \in settled
  BY <1>1, <1>2, <1>4 DEF Lists, Searching
<1>7. next \in [Blocks -> Blocks \cup {NULL}] /\ first \in Nat /\ first <= first
  BY DEF TInv, TypeOK
<1>8. /\ i = 1 => cleanups' = next[s[i]] /\ next' = next
      /\ i # 1 => cleanups' = cleanups /\ next' = [next EXCEPT ![s[i - 1]] = next[s[i]]]
  <2>1. CASE i = 1
    <3>1. cleanups = node[t]
      BY <1>5, <1>6, <2>1 DEF At
    <3> QED
      BY <1>6, <2>1, <3>1 DEF Unlink
  <2>2. CASE i # 1
    <3>1. i - 1 \in 1..Len(s) /\ 1 \in 1..Len(s)
      BY <1>5, <2>2
    <3>2. cleanups = s[1] /\ cleanups # node[t]
      BY <1>5, <1>6, <2>2, <3>1 DEF At
    <3>3. prev[t] = s[i - 1] /\ prev[t] # NULL
      BY <1>5, <1>6, <3>1 DEF At
    <3> QED
      BY <1>6, <2>2, <3>2, <3>3 DEF Unlink
  <2> QED
    BY <2>1, <2>2
<1>9. PICK d, m, q : d = Drop(s, i) /\ m = next' /\ q = cleanups'
  OBVIOUS
<1>10. ChainIn(q, d, m, first)
  <2>1. /\ i = 1 => q = next[s[i]] /\ m = next
        /\ i # 1 => q = cleanups /\ m = [next EXCEPT ![s[i - 1]] = next[s[i]]]
    BY <1>8, <1>9
  <2>2. ChainIn(cleanups, s, next, first)
    BY <1>5
  <2>3. ChainIn(q, Drop(s, i), m, first)
    BY <1>7, <2>1, <2>2, ChainDrop
  <2> QED
    BY <1>9, <2>3
<1>11. /\ d \in Seq(Blocks) /\ Len(d) = Len(s) - 1 /\ Len(s) - 1 \in Nat
       /\ \A k \in 1..(Len(s) - 1) : d[k] = s[IF k < i THEN k ELSE k + 1]
       /\ Elements(d) = Elements(s) \ {s[i]}
  <2>1. s \in Seq(Blocks) /\ \A k, l \in 1..Len(s) : s[k] = s[l] => k = l
    BY <1>5
  <2> QED
    BY <1>9, <2>1, DropIs
<1>12. ChainIn(free_cleanups, f, m, first)
  <2>1. \A k \in 1..Len(f) : next'[f[k]] = next[f[k]]
    <3>1. i # 1 => s[i - 1] \in Elements(s) /\ s[i - 1] \in Blocks
      <4>1. i # 1 => i - 1 \in 1..Len(s)
        BY <1>5
      <4> QED
        BY <1>5, <4>1 DEF Elements
    <3>2. \A k \in 1..Len(f) : f[k] \in Elements(f) /\ f[k] \in Blocks
      BY <1>5 DEF Elements
    <3> QED
      BY <1>5, <1>7, <1>8, <3>1, <3>2
  <2> QED
    BY <1>5, <1>7, <1>9, <2>1, ChainOther
<1>13. Leaving = {want[t]} /\ Leaving' = {}
  <2>1. /\ pc[t] \in InBody /\ pc[t] = "unlink" /\ Goto(t, "reserve") /\ UNCHANGED <<op, want>>
        /\ \A u \in Threads : u # t => prev'[u] = prev[u]
    BY <1>1 DEF InBody
  <2>2. /\ Leaving = IF pc[t] = "unlink" THEN {want[t]} ELSE {}
        /\ Leaving' = IF "reserve" = "unlink" THEN {want[t]} ELSE {}
    BY <2>1, Outsiders
  <2> QED
    BY <2>1, <2>2
<1>14. \A k \in 1..(Len(s) - 1) : \E l \in 1..Len(s) :
          l = (IF k < i THEN k ELSE k + 1) /\ l # i /\ d[k] = s[l]
  <2>1. \A k \in 1..(Len(s) - 1) : d[k] = s[IF k < i THEN k ELSE k + 1]
    BY <1>11
  <2>2. \A k \in 1..(Len(s) - 1) :
          (IF k < i THEN k ELSE k + 1) \in 1..Len(s) /\ (IF k < i THEN k ELSE k + 1) # i
    BY <1>5
  <2> QED
    BY <2>1, <2>2
<1>15. Registered(d)'
  <2>1. ASSUME NEW k \in 1..Len(d), NEW l \in 1..Len(d), data[d[k]] = data[d[l]] PROVE k = l
    <3>1. k \in 1..(Len(s) - 1) /\ l \in 1..(Len(s) - 1)
      BY <1>11
    <3>2. PICK a \in 1..Len(s) : a = (IF k < i THEN k ELSE k + 1) /\ d[k] = s[a]
      BY <1>14, <3>1
    <3>3. PICK b \in 1..Len(s) : b = (IF l < i THEN l ELSE l + 1) /\ d[l] = s[b]
      BY <1>14, <3>1
    <3>4. a = b
      BY <1>5, <2>1, <3>2, <3>3 DEF Registered
    <3> QED
      BY <3>1, <3>2, <3>3, <3>4
  <2>2. DataOf(d) = DataOf(s) \ {want[t]}
    <3>1. ASSUME NEW y \in DataOf(d) PROVE y \in DataOf(s) \ {want[t]}
      <4>1. PICK k \in 1..(Len(s) - 1) : y = data[d[k]]
        BY <1>11 DEF DataOf
      <4>2. PICK l \in 1..Len(s) : l # i /\ d[k] = s[l]
        BY <1>14
      <4>3. y = data[s[l]] /\ data[s[l]] # data[s[i]]
        BY <1>5, <4>1, <4>2 DEF Registered
      <4> QED
        BY <1>6, <4>3 DEF DataOf
    <3>2. ASSUME NEW y \in DataOf(s) \ {want[t]} PROVE y \in DataOf(d)
      <4>1. PICK l \in 1..Len(s) : y = data[s[l]] /\ l # i
        BY <1>6 DEF DataOf
      <4>2. s[l] \in Elements(d)
        <5>1. s[l] \in Elements(s) /\ s[l] # s[i]
          BY <1>5, <4>1 DEF Elements
        <5> QED
          BY <1>11, <5>1
      <4> QED
        BY <4>1, <4>2 DEF Elements, DataOf
    <3> QED
      BY <3>1, <3>2
  <2>3. DataOf(d) = linked \ settled
    BY <1>5, <1>6, <1>13, <2>2 DEF Registered
  <2>4. DataOf(d)' = DataOf(d)
    BY <1>1 DEF DataOf
  <2> QED
    BY <1>1, <1>13, <2>1, <2>3, <2>4 DEF Registered
<1>16. Loose(t, d, f)'
  <2>1. s[i] \in Elements(s) /\ s[i] \in Blocks /\ s[i] < first
    BY <1>5 DEF Elements
  <2> QED
    BY <1>1, <1>5, <1>6, <1>11, <2>1 DEF Loose
<1>17. Searching(t, d)' /\ NoPrev(t)'
  BY <1>2 DEF Searching, NoPrev
<1>18. \A u \in Threads : u # t => Loose(u, d, f)' /\ Searching(u, d)' /\ NoPrev(u)'
  BY <1>1, Outsiders DEF InBody
<1>19. Elements(d) \cap Elements(f) = {}
  BY <1>5, <1>11
<1>20. Lists(d, f)'
  BY <1>1, <1>9, <1>10, <1>12, <1>15, <1>16, <1>17, <1>18, <1>19 DEF Lists, Chain
<1> QED
  BY <1>3, <1>20 DEF LInv

(* The record goes on the list of reserved ones; it was in neither. *)
LEMMA ListsReserve == ASSUME TInv, IInv, LInv, NEW t \in Threads, Reserve(t) PROVE LInv'
<1>1. /\ pc[t] = "reserve" /\ Goto(t, "unlock")
      /\ next' = [next EXCEPT ![node[t]] = free_cleanups] /\ free_cleanups' = node[t]
      /\ prev' = [prev EXCEPT ![t] = NULL]
      /\ UNCHANGED <<mutex, cleanups, data, first, op, want, node, linked, settled>>
  BY DEF Reserve, history
<1>2. pc'[t] = "unlock" /\ prev'[t] = NULL /\ \A u \in Threads : u # t => prev'[u] = prev[u]
  BY <1>1 DEF TInv, TypeOK, Goto
<1>3. Held' /\ Solitary' /\ Once'
  BY <1>1, HeldKept, OthersKept DEF InBody, Idle
<1>4. PICK s, f : Lists(s, f)
  BY DEF LInv
<1>5. /\ ChainIn(cleanups, s, next, first) /\ ChainIn(free_cleanups, f, next, first)
      /\ Elements(s) \cap Elements(f) = {} /\ Registered(s) /\ Loose(t, s, f)
      /\ s \in Seq(Blocks) /\ f \in Seq(Blocks)
  BY <1>4 DEF Lists, Chain, ChainIn
<1>6. PICK x \in Blocks : x = node[t] /\ x < first /\ x \notin Elements(s) /\ x \notin Elements(f)
  BY <1>1, <1>5 DEF Loose
<1>7. next \in [Blocks -> Blocks \cup {NULL}] /\ first \in Nat
  BY DEF TInv, TypeOK
<1>8. PICK p : p = Push(x, f)
  OBVIOUS
<1>9. ChainIn(free_cleanups', p, next', first')
  BY <1>1, <1>5, <1>6, <1>7, <1>8, ChainPush
<1>10. ChainIn(cleanups', s, next', first')
  <2>1. \A i \in 1..Len(s) : next'[s[i]] = next[s[i]]
    BY <1>1, <1>5, <1>6, <1>7 DEF Elements
  <2>2. first <= first
    BY <1>7
  <2>3. ChainIn(cleanups, s, next', first)
    BY <1>5, <1>7, <2>1, <2>2, ChainOther
  <2> QED
    BY <1>1, <2>3
<1>11. Elements(p) = Elements(f) \cup {x}
  <2>1. f \in Seq(Blocks) /\ x \in Blocks
    BY <1>5
  <2> QED
    BY <1>8, <2>1, PushIs
<1>12. Leaving = {} /\ Leaving' = {}
  BY <1>1, <1>2, Outsiders DEF InBody
<1>13. Registered(s)'
  <2>1. DataOf(s)' = DataOf(s)
    BY <1>1 DEF DataOf
  <2> QED
    BY <1>1, <1>5, <1>12, <2>1 DEF Registered
<1>14. Elements(s) \cap Elements(p) = {}
  BY <1>5, <1>6, <1>11
<1>15. Loose(t, s, p)' /\ Searching(t, s)' /\ NoPrev(t)'
  BY <1>2 DEF Loose, Searching, NoPrev
<1>16. \A u \in Threads : u # t => Loose(u, s, p)' /\ Searching(u, s)' /\ NoPrev(u)'
  BY <1>1, <1>2, Outsiders DEF InBody
<1>17. Lists(s, p)'
  BY <1>9, <1>10, <1>13, <1>14, <1>15, <1>16 DEF Lists, Chain
<1> QED
  BY <1>3, <1>17 DEF LInv

-----------------------------------------------------------------------------
(* A program that is careful after a step was careful before it. *)
LEMMA CarefulBefore ==
  ASSUME TInv, [Next]_vars, careful'
  PROVE  careful
<1>1. ASSUME NEW t \in Threads, Call(t) PROVE careful
  BY <1>1 DEF Call, CallPalloc, CallPallocRefused, CallAdd, CallFind, Begin
<1>2. ASSUME NEW t \in Threads, InCall(t) PROVE careful
  BY <1>2 DEF InCall
<1>3. CASE UNCHANGED vars
  BY <1>3 DEF vars
<1> QED
  BY <1>1, <1>2, <1>3 DEF Next, Finished

(* Every step keeps the lists while the program is careful. *)
LEMMA ListsStep == IInv /\ TInv /\ (careful => LInv) /\ [Next]_vars => (careful => LInv)'
<1> SUFFICES ASSUME IInv, TInv, careful => LInv, [Next]_vars, careful' PROVE LInv'
  OBVIOUS
<1>0. LInv
  BY CarefulBefore
<1>1. CASE UNCHANGED vars
  <2>1. PICK s, f : Lists(s, f)
    BY <1>0 DEF LInv
  <2>2. /\ Chain(cleanups, s)' = Chain(cleanups, s) /\ Registered(s)' = Registered(s)
        /\ Chain(free_cleanups, f)' = Chain(free_cleanups, f)
    BY <1>1 DEF vars, lists, locals, history, Chain, Registered, DataOf, Leaving
  <2>3. \A t \in Threads : Loose(t, s, f)' = Loose(t, s, f) /\ Searching(t, s)' = Searching(t, s)
          /\ NoPrev(t)' = NoPrev(t)
    BY <1>1 DEF vars, lists, locals, history, Loose, Searching, NoPrev
  <2>4. Lists(s, f)'
    BY <2>1, <2>2, <2>3 DEF Lists
  <2>5. Solitary' /\ Once' /\ Held'
    BY <1>0, <1>1 DEF vars, lists, locals, history, LInv, Solitary, Idle, Once, Registering, Held
  <2> QED
    BY <2>4, <2>5 DEF LInv
<1>2. ASSUME NEW t \in Threads, Call(t) PROVE LInv'
  BY <1>0, <1>2, ListsCall
<1>3. ASSUME NEW t \in Threads, InCall(t) PROVE LInv'
  BY <1>0, <1>3, ListsLock, ListsUnlock, ListsPalloc, ListsPick, ListsLink, ListsWalk, ListsUnlink,
     ListsReserve DEF InCall
<1> QED
  BY <1>1, <1>2, <1>3 DEF Next, Finished

(* The three invariants hold together. *)
LEMMA ListsInvariance == Spec => [](IInv /\ TInv /\ (careful => LInv))
<1>1. Init => IInv /\ TInv /\ (careful => LInv)
  BY InitInv, TypesInit, ListsInit
<1>2. (IInv /\ TInv /\ (careful => LInv)) /\ [Next]_vars => (IInv /\ TInv /\ (careful => LInv))'
  BY NextInv, TypesStep, ListsStep
<1> QED
  BY <1>1, <1>2, PTL DEF Spec

(* The lists of a pool that any number of threads allocate from and        *)
(* register with: while nobody holds the mutex, the list of cleanups is    *)
(* finite, holds a record for every cleanup registered and not yet run or  *)
(* removed, and shares no record with the reserved ones (pool.c:356-463),  *)
(* until a thread runs or removes a cleanup carelessly.                    *)
THEOREM ListsStayIntact == Spec => []ListIntact
<1>1. IInv /\ TInv /\ (careful => LInv) => ListIntact
  <2> SUFFICES ASSUME IInv, TInv, LInv, mutex.holder = NoThread
               PROVE  /\ {data[r] : r \in Records(cleanups)} = linked \ settled
                      /\ Records(cleanups) \cap Records(free_cleanups) = {}
                      /\ Follow(cleanups, Cardinality(Blocks)) = NULL
    BY DEF ListIntact
  <2>1. PICK s, f : Lists(s, f)
    BY DEF LInv
  <2>2. /\ Records(cleanups) = Elements(s) /\ Records(free_cleanups) = Elements(f)
        /\ Follow(cleanups, Cardinality(Blocks)) = NULL
    BY <2>1, RecordsIs DEF Lists
  <2>3. Leaving = {}
    BY PoolThreadsAssumption DEF IInv, OneInside, Leaving
  <2>4. {data[r] : r \in Elements(s)} = DataOf(s)
    BY DEF Elements, DataOf
  <2>5. DataOf(s) = linked \ settled
    BY <2>1, <2>3 DEF Lists, Registered
  <2> QED
    BY <2>1, <2>2, <2>4, <2>5 DEF Lists
<1> QED
  BY <1>1, ListsInvariance, PTL

(* No thread of a careful program keeps the mutex after its call: run1 and *)
(* remove1 forget to unlock it only where the cleanup is not found         *)
(* (pool.c:405, 446), and a registered one is always found.                *)
THEOREM MutexGivenBack == Spec => []LockGivenBack
<1>1. IInv /\ TInv /\ (careful => LInv) => LockGivenBack
  BY DEF LInv, Held, LockGivenBack, Idle, InBody
<1> QED
  BY <1>1, ListsInvariance, PTL
=============================================================================
