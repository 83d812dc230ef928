---------------------------- MODULE LoggerProofs ----------------------------
(***************************************************************************)
(* Proofs about Logger for every number of threads, every ring size and    *)
(* every choice of the flags.                                              *)
(*                                                                         *)
(* The argument for NoTornRead counts slots.  A thread that fills has its  *)
(* slot just behind rear, the worker reads the one just behind front, and  *)
(* the two semaphores keep the distance between them strictly between 0    *)
(* and Slots.                                                              *)
(*                                                                         *)
(* The second half follows the messages: those that wait are whole and in  *)
(* their slots, and the logger implements the bounded channel of           *)
(* LogChannel.                                                             *)
(***************************************************************************)
EXTENDS Logger, FiniteSetTheorems, SequenceTheorems, TLAPS

(* Threads with a token of sem_empty and no slot yet; threads with a slot  *)
(* they have not posted.                                                   *)
Claiming == {"lock_deposit", "take"}
Posting == Filling \cup {"unlock_deposit", "post_full"}
Claimers == {t \in Threads : pc[t] \in Claiming}
Posters == {t \in Threads : pc[t] \in Posting}

(* Messages that have got a slot; messages that have woken the worker. *)
taken == Len(deposited)
woken == IF wpc \in {"lock_fetch", "fetch"} THEN fetched + 1 ELSE fetched

(* i is the slot just before j in the ring. *)
Before(i, j) == j = i + 1 \/ (i = Slots - 1 /\ j = 0)

(* Every slot token is in sem_empty, claimed, or behind a message that has *)
(* not been retired.                                                       *)
EmptyAccount == semEmpty + Cardinality(Claimers) + taken = Slots + retired

(* Every message is in sem_full, being posted, or has woken the worker. *)
FullAccount == semFull + Cardinality(Posters) = taken - woken

(* The deposit mutex is held exactly by the thread in its section. *)
DepositOwner == \A t \in Threads : mutexDeposit = t <=> pc[t] \in Owning

(* front and rear are as far apart as there are messages between them. *)
RingDistance ==
  \/ rear = front + taken - fetched
  \/ rear = front + taken - fetched - Slots

(* Where the message pointers of the two sides point. *)
FillerSlot == \A t \in Threads : pc[t] \in Filling => Before(slot[t], rear)
WorkerSlot == wpc \in Reading => Before(cur, front)

(* What has not happened yet. *)
Startup ==
  /\ phase = "config" => wpc = "none"
  /\ phase # "cycle" => ~global
  /\ ~global => deposited = <<>> /\ \A t \in Threads : pc[t] = "idle"
  /\ ~global \/ wpc \in {"none", "sleep"} => calls[Worker] = 0
  /\ wpc \in Busy => fetched >= 1

IInv ==
  /\ TypeOK /\ EmptyAccount /\ FullAccount /\ DepositOwner
  /\ RingDistance /\ FillerSlot /\ WorkerSlot /\ Startup

-----------------------------------------------------------------------------
(* Advancing front or rear stays inside the ring. *)
LEMMA NextSlotIs ==
  ASSUME NEW i \in 0..Slots-1
  PROVE  /\ NextSlot(i) = IF i + 1 = Slots THEN 0 ELSE i + 1
         /\ NextSlot(i) \in 0..Slots-1
         /\ Before(i, NextSlot(i))
  BY SlotsAssumption DEF NextSlot, Before

(* Entering fpx_log_error keeps the caller's variables well typed. *)
LEMMA CallType ==
  ASSUME TypeOK, NEW t \in Threads, NEW level \in Levels,
         calls[t] < MaxOwnCalls, CallLogError(t, level)
  PROVE  /\ pc' \in [Threads -> {"idle", "wait_empty", "lock_deposit", "post_full"} \cup Owning]
         /\ arg' \in [Threads -> Message]
         /\ slot' \in [Threads -> 0..Slots-1]
         /\ calls' \in [Threads -> 0..MaxOwnCalls]
<1>1. calls[t] + 1 \in 0..MaxOwnCalls
  BY BoundsAssumption DEF TypeOK, MaxOwnCalls
<1>2. [str |-> <<t, calls[t] + 1>>, level |-> level] \in Message
  BY <1>1 DEF Message
<1> QED
  BY <1>1, <1>2 DEF TypeOK, CallLogError

(* The types hold initially. *)
LEMMA TypeInit == Init => TypeOK
<1> SUFFICES ASSUME Init PROVE TypeOK
  OBVIOUS
<1>1. Garbage \in Message
  BY BoundsAssumption DEF Garbage, Message, MaxOwnCalls, Threads, Levels
<1>2. running \in BOOLEAN /\ global \in BOOLEAN
  BY Zenon DEF Init
<1>3. logs \in Seq(Levels) /\ out \in Seq(Seq(Message)) /\ Len(out) = Len(logs)
      /\ deposited \in Seq(Message)
  BY DEF Init
<1>4. slots \in [0..Slots-1 -> Message] /\ arg \in [Threads -> Message]
  BY <1>1 DEF Init
<1>5. /\ calls \in [Threads -> 0..MaxOwnCalls]
      /\ slot \in [Threads -> 0..Slots-1]
      /\ front \in 0..Slots-1 /\ rear \in 0..Slots-1 /\ cur \in 0..Slots-1
      /\ semEmpty \in Nat
  BY SlotsAssumption, BoundsAssumption DEF Init, MaxOwnCalls
<1> QED
  BY <1>1, <1>2, <1>3, <1>4, <1>5 DEF Init, TypeOK

(* Every step keeps the types.  Startup bounds the worker's own calls. *)
LEMMA TypeStep == TypeOK /\ Startup /\ [Next]_vars => TypeOK'
<1> SUFFICES ASSUME TypeOK, Startup, [Next]_vars PROVE TypeOK'
  OBVIOUS
<1> USE DEF TypeOK
<1>1. CASE Setup
  <2> USE DEF ring, sync, caller, worker, history
  <2>1. CASE Start
    <3>1. running' \in BOOLEAN
      BY <2>1, Zenon DEF Start
    <3> QED
      BY <2>1, <3>1 DEF Start
  <2>2. CASE BecomeDaemon
    BY <2>2 DEF BecomeDaemon
  <2>3. CASE SetGlobal
    <3>1. global' \in BOOLEAN
      BY <2>3, Zenon DEF SetGlobal
    <3> QED
      BY <2>3, <3>1 DEF SetGlobal
  <2>4. ASSUME NEW level \in LogLevels, AddLog(level) PROVE TypeOK'
    <3>1. logs' \in Seq(Levels) /\ out' \in Seq(Seq(Message)) /\ Len(out') = Len(logs')
      BY <2>4, LevelsAssumption DEF AddLog
    <3> QED
      BY <2>4, <3>1 DEF AddLog
  <2> QED
    BY <1>1, <2>1, <2>2, <2>3, <2>4 DEF Setup
<1>2. ASSUME NEW t \in Callers, AddLogRefused(t) \/ \E level \in CallLevels : Log(t, level)
      PROVE  TypeOK'
  <2> HIDE DEF TypeOK
  <2>1. PICK level \in Levels : Log(t, level)
    BY <1>2, LevelsAssumption DEF AddLogRefused, FPX_LOG_ERROR, Levels
  <2>2. calls[t] < MaxOwnCalls
    <3>1. calls[t] < MaxCalls /\ calls[t] \in Int
      BY <2>1 DEF TypeOK, Log, Threads
    <3>2. MaxCalls <= MaxOwnCalls /\ MaxCalls \in Nat /\ MaxOwnCalls \in Nat
      BY BoundsAssumption DEF MaxOwnCalls
    <3> QED
      BY <3>1, <3>2
  <2>3. /\ pc' \in [Threads -> {"idle", "wait_empty", "lock_deposit", "post_full"} \cup Owning]
        /\ arg' \in [Threads -> Message] /\ slot' \in [Threads -> 0..Slots-1]
        /\ calls' \in [Threads -> 0..MaxOwnCalls]
    BY <2>1, <2>2, CallType DEF Log, Threads
  <2>4. UNCHANGED <<setup, ring, sync, worker, history>>
    BY <2>1 DEF Log
  <2> QED
    BY <2>3, <2>4 DEF TypeOK, setup, ring, sync, worker, history
<1>3. ASSUME NEW t \in Threads, LogErrorStep(t)
      PROVE  TypeOK'
  <2> USE DEF setup, ring, sync, worker, history, Owning, Filling
  <2>1. CASE WaitEmpty(t)
    BY <2>1 DEF WaitEmpty, fpx_semaphore_wait
  <2>2. CASE LockDeposit(t)
    BY <2>2 DEF LockDeposit, fpx_mutex_lock
  <2>3. CASE TakeSlot(t)
    <3>1. rear' \in 0..Slots-1
      BY <2>3, NextSlotIs DEF TakeSlot
    <3>2. deposited' \in Seq(Message)
      BY <2>3 DEF TakeSlot
    <3> QED
      BY <2>3, <3>1, <3>2 DEF TakeSlot
  <2>4. CASE FillStr(t)
    <3>1. slots' \in [0..Slots-1 -> Message]
      BY <2>4 DEF FillStr, Message
    <3> QED
      BY <2>4, <3>1 DEF FillStr
  <2>5. CASE FillLevel(t)
    <3>1. slots' \in [0..Slots-1 -> Message]
      BY <2>5 DEF FillLevel, Message
    <3> QED
      BY <2>5, <3>1 DEF FillLevel
  <2>6. CASE UnlockDeposit(t)
    BY <2>6 DEF UnlockDeposit, fpx_mutex_unlock
  <2>7. CASE PostFull(t)
    BY <2>7 DEF PostFull, fpx_semaphore_post
  <2> QED
    BY <1>3, <2>1, <2>2, <2>3, <2>4, <2>5, <2>6, <2>7 DEF LogErrorStep
<1>4. CASE WorkerStep
  <2> USE DEF At, Busy, Reading, Fetching
  <2>1. CASE WorkerStarted
    <3>1. calls[Worker] < MaxOwnCalls
      BY <2>1, BoundsAssumption DEF WorkerStarted, Startup, MaxOwnCalls
    <3>2. FPX_LOG_DEBUG \in Levels /\ Worker \in Threads
      BY DEF FPX_LOG_DEBUG, Levels, Threads
    <3> QED
      BY <2>1, <3>1, <3>2, CallType DEF WorkerStarted, caller, setup, ring, sync, history
  <2>2. CASE WaitFull
    BY <2>2 DEF WaitFull, fpx_semaphore_wait, setup, ring, caller, history
  <2>3. CASE LockFetch
    BY <2>3 DEF LockFetch, fpx_mutex_lock, setup, ring, caller, history
  <2>4. CASE Fetch
    <3>1. front' \in 0..Slots-1
      BY <2>4, NextSlotIs DEF Fetch
    <3> QED
      BY <2>4, <3>1 DEF Fetch, setup, sync, caller
  <2>5. CASE Format
    <3>1. li' \in Nat \ {0}
      BY <2>5 DEF Format
    <3>2. slots[cur] \in Message
      OBVIOUS
    <3>3. buf' \in Message
      BY <2>5, <3>2, Zenon DEF Format
    <3>4. wpc' = "handlers" /\ UNCHANGED <<cur, out, setup, ring, sync, caller, history>>
      BY <2>5 DEF Format
    <3> QED
      BY <3>1, <3>3, <3>4 DEF setup, ring, sync, caller, history
  <2>6. CASE Handler
    <3>1. CASE Skip
      BY <2>6, <3>1 DEF Handler, Skip, caller, setup, ring, sync, history
    <3>2. CASE Write
      <4>1. li \in DOMAIN out /\ out[li] \in Seq(Message)
        BY <2>6 DEF Handler
      <4>2. out' \in Seq(Seq(Message)) /\ Len(out') = Len(out)
        BY <3>2, <4>1 DEF Write
      <4>3. li' \in Nat \ {0}
        BY <2>6 DEF Handler
      <4> QED
        BY <2>6, <3>2, <4>2, <4>3 DEF Handler, Write, caller, setup, ring, sync, history
    <3>3. CASE WriteError
      <4>1. calls[Worker] < MaxOwnCalls
        BY <3>3, BoundsAssumption DEF WriteError, MaxOwnCalls, Threads
      <4>2. FPX_LOG_ERROR \in Levels /\ Worker \in Threads
        BY DEF FPX_LOG_ERROR, Levels, Threads
      <4>3. li' \in Nat \ {0}
        BY <2>6 DEF Handler
      <4>4. CallLogError(Worker, FPX_LOG_ERROR) /\ UNCHANGED out
        BY <3>3 DEF WriteError
      <4> QED
        BY <2>6, <4>1, <4>2, <4>3, <4>4, CallType DEF Handler, setup, ring, sync, history
    <3> QED
      BY <2>6, <3>1, <3>2, <3>3 DEF Handler
  <2>7. CASE UnlockFetch
    BY <2>7 DEF UnlockFetch, fpx_mutex_unlock, setup, ring, caller, history
  <2>8. CASE PostEmpty
    BY <2>8 DEF PostEmpty, fpx_semaphore_post, setup, ring, caller, history
  <2> QED
    BY <1>4, <2>1, <2>2, <2>3, <2>4, <2>5, <2>6, <2>7, <2>8 DEF WorkerStep
<1>5. CASE Finished \/ UNCHANGED vars
  BY <1>5 DEF Finished, vars, setup, ring, sync, caller, worker, history
<1> QED
  BY <1>1, <1>2, <1>3, <1>4, <1>5 DEF Next

-----------------------------------------------------------------------------
(* There are finitely many threads, so they can be counted. *)
LEMMA Finite ==
  /\ IsFiniteSet(Threads)
  /\ IsFiniteSet(Claimers) /\ Cardinality(Claimers) \in Nat
  /\ IsFiniteSet(Posters) /\ Cardinality(Posters) \in Nat
<1>1. IsFiniteSet(Threads)
  BY ThreadsAssumption, FS_AddElement DEF Threads
<1>2. Claimers \subseteq Threads /\ Posters \subseteq Threads
  BY DEF Claimers, Posters
<1> QED
  BY <1>1, <1>2, FS_Subset, FS_CardinalityType

(* Which points of fpx_log_error claim a slot and which have one to post. *)
LEMMA Places ==
  /\ "idle" \notin Claiming /\ "idle" \notin Posting
  /\ "wait_empty" \notin Claiming /\ "wait_empty" \notin Posting
  /\ "lock_deposit" \in Claiming /\ "lock_deposit" \notin Posting
  /\ "take" \in Claiming /\ "take" \notin Posting
  /\ "fill_str" \notin Claiming /\ "fill_str" \in Posting
  /\ "fill_level" \notin Claiming /\ "fill_level" \in Posting
  /\ "unlock_deposit" \notin Claiming /\ "unlock_deposit" \in Posting
  /\ "post_full" \notin Claiming /\ "post_full" \in Posting
  BY DEF Claiming, Posting, Filling

(* What one thread's move does to the number of claims. *)
LEMMA MoveClaimers ==
  ASSUME NEW t \in Threads, NEW where, TypeOK, pc' = [pc EXCEPT ![t] = where]
  PROVE  /\ where \in Claiming /\ pc[t] \notin Claiming
              => Cardinality(Claimers') = Cardinality(Claimers) + 1
         /\ where \notin Claiming /\ pc[t] \in Claiming
              => Cardinality(Claimers') = Cardinality(Claimers) - 1
         /\ (where \in Claiming <=> pc[t] \in Claiming)
              => Cardinality(Claimers') = Cardinality(Claimers)
<1>1. ASSUME where \in Claiming, pc[t] \notin Claiming
      PROVE  Cardinality(Claimers') = Cardinality(Claimers) + 1
  <2>1. Claimers' = Claimers \cup {t} /\ t \notin Claimers
    BY <1>1 DEF Claimers, TypeOK
  <2> QED
    BY <2>1, Finite, FS_AddElement
<1>2. ASSUME where \notin Claiming, pc[t] \in Claiming
      PROVE  Cardinality(Claimers') = Cardinality(Claimers) - 1
  <2>1. Claimers' = Claimers \ {t} /\ t \in Claimers
    BY <1>2 DEF Claimers, TypeOK
  <2> QED
    BY <2>1, Finite, FS_RemoveElement
<1>3. ASSUME where \in Claiming <=> pc[t] \in Claiming
      PROVE  Cardinality(Claimers') = Cardinality(Claimers)
  <2>1. Claimers' = Claimers
    BY <1>3 DEF Claimers, TypeOK
  <2> QED
    BY <2>1
<1> QED
  BY <1>1, <1>2, <1>3

(* What one thread's move does to the number of posts to come. *)
LEMMA MovePosters ==
  ASSUME NEW t \in Threads, NEW where, TypeOK, pc' = [pc EXCEPT ![t] = where]
  PROVE  /\ where \in Posting /\ pc[t] \notin Posting
              => Cardinality(Posters') = Cardinality(Posters) + 1
         /\ where \notin Posting /\ pc[t] \in Posting
              => Cardinality(Posters') = Cardinality(Posters) - 1
         /\ (where \in Posting <=> pc[t] \in Posting)
              => Cardinality(Posters') = Cardinality(Posters)
<1>1. ASSUME where \in Posting, pc[t] \notin Posting
      PROVE  Cardinality(Posters') = Cardinality(Posters) + 1
  <2>1. Posters' = Posters \cup {t} /\ t \notin Posters
    BY <1>1 DEF Posters, TypeOK
  <2> QED
    BY <2>1, Finite, FS_AddElement
<1>2. ASSUME where \notin Posting, pc[t] \in Posting
      PROVE  Cardinality(Posters') = Cardinality(Posters) - 1
  <2>1. Posters' = Posters \ {t} /\ t \in Posters
    BY <1>2 DEF Posters, TypeOK
  <2> QED
    BY <2>1, Finite, FS_RemoveElement
<1>3. ASSUME where \in Posting <=> pc[t] \in Posting
      PROVE  Cardinality(Posters') = Cardinality(Posters)
  <2>1. Posters' = Posters
    BY <1>3 DEF Posters, TypeOK
  <2> QED
    BY <2>1
<1> QED
  BY <1>1, <1>2, <1>3

(* Before the logger is global the worker has nothing in hand. *)
LEMMA QuietStart ==
  ASSUME TypeOK, FullAccount, Startup, ~global
  PROVE  fetched = 0 /\ retired = 0 /\ woken = 0 /\ wpc \notin Busy
<1>1. deposited = <<>>
  BY DEF Startup
<1>2. taken = 0
  BY <1>1 DEF taken
<1>3. Cardinality(Posters) \in Nat
  BY Finite
<1>4. woken \in Nat /\ fetched \in Nat /\ semFull \in Nat
  BY DEF woken, TypeOK
<1>5. woken = 0 /\ fetched = 0
  BY <1>2, <1>3, <1>4 DEF FullAccount, woken
<1> QED
  BY <1>5 DEF Startup, retired

(* Every step keeps both accounts. *)
LEMMA AccountStep ==
  TypeOK /\ Startup /\ EmptyAccount /\ FullAccount /\ [Next]_vars
    => EmptyAccount' /\ FullAccount'
<1> SUFFICES ASSUME TypeOK, Startup, EmptyAccount, FullAccount, [Next]_vars
             PROVE  EmptyAccount' /\ FullAccount'
  OBVIOUS
<1> DEFINE E == Cardinality(Claimers)
           F == Cardinality(Posters)
<1>a. /\ E \in Nat /\ F \in Nat /\ taken \in Nat /\ fetched \in Nat
      /\ semEmpty \in Nat /\ semFull \in Nat /\ Slots \in Nat
      /\ wpc \in Busy => fetched >= 1
      /\ retired \in Nat /\ woken \in Nat
  BY Finite, SlotsAssumption DEF TypeOK, Startup, retired, woken, taken
<1>d. deposited' = deposited => taken' = taken
  BY DEF taken
<1>b. pc' = pc => Claimers' = Claimers /\ Posters' = Posters
  BY DEF Claimers, Posters
<1>c. ASSUME NEW t \in Threads, NEW level, CallLogError(t, level)
      PROVE  E' = E /\ F' = F
  <2>1. pc[t] = "idle" /\ pc' = [pc EXCEPT ![t] = "wait_empty"]
    BY <1>c DEF CallLogError
  <2> QED
    BY <2>1, Places, MoveClaimers, MovePosters
<1>1. CASE Setup
  <2>1. CASE BecomeDaemon
    <3>1. retired = 0 /\ woken = 0 /\ fetched = 0
      BY <2>1, QuietStart DEF BecomeDaemon, Startup
    <3>2. retired' = 0 /\ woken' = 0
      BY <2>1, <3>1 DEF BecomeDaemon, retired, woken, Busy, Reading, history
    <3> QED
      BY <2>1, <3>1, <3>2, <1>b, <1>d
      DEF BecomeDaemon, EmptyAccount, FullAccount, sync, caller, history
  <2>2. CASE Start \/ SetGlobal \/ \E level \in LogLevels : AddLog(level)
    <3>1. wpc' = wpc \/ (wpc = "none" /\ wpc' = "sleep")
      BY <2>2 DEF Start, SetGlobal, AddLog, worker, Startup
    <3>2. retired' = retired /\ woken' = woken
      BY <2>2, <3>1
      DEF Start, SetGlobal, AddLog, retired, woken, Busy, Reading, history
    <3> QED
      BY <2>2, <3>2, <1>b, <1>d
      DEF Start, SetGlobal, AddLog, EmptyAccount, FullAccount, sync, caller, history
  <2> QED
    BY <1>1, <2>1, <2>2 DEF Setup
<1>2. ASSUME NEW t \in Callers, AddLogRefused(t) \/ \E level \in CallLevels : Log(t, level)
      PROVE  EmptyAccount' /\ FullAccount'
  <2>1. PICK level : Log(t, level)
    BY <1>2 DEF AddLogRefused
  <2>2. E' = E /\ F' = F
    BY <2>1, <1>c DEF Log, Threads
  <2> QED
    BY <2>1, <2>2, <1>d DEF Log, EmptyAccount, FullAccount, retired, woken, sync, worker, history
<1>3. ASSUME NEW t \in Threads, LogErrorStep(t)
      PROVE  EmptyAccount' /\ FullAccount'
  <2> USE DEF EmptyAccount, FullAccount, sync, worker, history
  <2>1. CASE WaitEmpty(t)
    <3>0. pc[t] = "wait_empty" /\ pc' = [pc EXCEPT ![t] = "lock_deposit"]
      BY <2>1 DEF WaitEmpty
    <3>1. E' = E + 1 /\ F' = F
      BY <3>0, <1>a, Places, MoveClaimers, MovePosters
    <3> QED
      BY <2>1, <3>1, <1>a, <1>d DEF WaitEmpty, fpx_semaphore_wait, retired, woken
  <2>2. CASE LockDeposit(t)
    <3>0. pc[t] = "lock_deposit" /\ pc' = [pc EXCEPT ![t] = "take"]
      BY <2>2 DEF LockDeposit
    <3>1. E' = E /\ F' = F
      BY <3>0, <1>a, Places, MoveClaimers, MovePosters
    <3> QED
      BY <2>2, <3>1, <1>a, <1>d DEF LockDeposit, retired, woken
  <2>3. CASE TakeSlot(t)
    <3>0. pc[t] = "take" /\ pc' = [pc EXCEPT ![t] = "fill_str"]
      BY <2>3 DEF TakeSlot
    <3>1. E' = E - 1 /\ F' = F + 1
      BY <3>0, <1>a, Places, MoveClaimers, MovePosters
    <3>2. taken' = taken + 1
      BY <2>3 DEF TakeSlot, TypeOK, taken
    <3>3. semEmpty' = semEmpty /\ semFull' = semFull /\ retired' = retired /\ woken' = woken
      BY <2>3 DEF TakeSlot, retired, woken
    <3> QED
      BY <3>1, <3>2, <3>3, <1>a
  <2>4. CASE FillStr(t)
    <3>0. pc[t] = "fill_str" /\ pc' = [pc EXCEPT ![t] = "fill_level"]
      BY <2>4 DEF FillStr
    <3>1. E' = E /\ F' = F
      BY <3>0, <1>a, Places, MoveClaimers, MovePosters
    <3> QED
      BY <2>4, <3>1, <1>a, <1>d DEF FillStr, retired, woken
  <2>5. CASE FillLevel(t)
    <3>0. pc[t] = "fill_level" /\ pc' = [pc EXCEPT ![t] = "unlock_deposit"]
      BY <2>5 DEF FillLevel
    <3>1. E' = E /\ F' = F
      BY <3>0, <1>a, Places, MoveClaimers, MovePosters
    <3> QED
      BY <2>5, <3>1, <1>a, <1>d DEF FillLevel, retired, woken
  <2>6. CASE UnlockDeposit(t)
    <3>0. pc[t] = "unlock_deposit" /\ pc' = [pc EXCEPT ![t] = "post_full"]
      BY <2>6 DEF UnlockDeposit
    <3>1. E' = E /\ F' = F
      BY <3>0, <1>a, Places, MoveClaimers, MovePosters
    <3> QED
      BY <2>6, <3>1, <1>a, <1>d DEF UnlockDeposit, retired, woken
  <2>7. CASE PostFull(t)
    <3>0. pc[t] = "post_full" /\ pc' = [pc EXCEPT ![t] = "idle"]
      BY <2>7 DEF PostFull
    <3>1. E' = E /\ F' = F - 1
      BY <3>0, <1>a, Places, MoveClaimers, MovePosters
    <3> QED
      BY <2>7, <3>1, <1>a, <1>d DEF PostFull, fpx_semaphore_post, retired, woken
  <2> QED
    BY <1>3, <2>1, <2>2, <2>3, <2>4, <2>5, <2>6, <2>7 DEF LogErrorStep
<1>4. CASE WorkerStep
  <2> USE DEF EmptyAccount, FullAccount, At, sync, caller, history
  <2>1. CASE WorkerStarted
    <3>1. E' = E /\ F' = F
      BY <2>1, <1>b, <1>c DEF WorkerStarted, Threads
    <3> QED
      BY <2>1, <3>1, <1>a, <1>d DEF WorkerStarted, retired, woken, Busy, Reading
  <2>2. CASE WaitFull
    <3>1. semFull' = semFull - 1 /\ retired' = retired /\ woken' = woken + 1
      BY <2>2, <1>a DEF WaitFull, fpx_semaphore_wait, retired, woken, Busy, Reading
    <3>2. /\ semEmpty' = semEmpty /\ taken' = taken
          /\ Claimers' = Claimers /\ Posters' = Posters
      BY <2>2, <1>b, <1>d DEF WaitFull
    <3> QED
      BY <3>1, <3>2, <1>a
  <2>3. CASE LockFetch
    BY <2>3, <1>a, <1>b, <1>d DEF LockFetch, retired, woken, Busy, Reading
  <2>4. CASE Fetch
    BY <2>4, <1>a, <1>b, <1>d DEF Fetch, retired, woken, Busy, Reading
  <2>5. CASE Format
    BY <2>5, <1>a, <1>b, <1>d DEF Format, retired, woken, Busy, Reading
  <2>6. CASE Handler
    <3>1. E' = E /\ F' = F
      BY <2>6, <1>b, <1>c DEF Handler, Skip, Write, WriteError, Threads
    <3> QED
      BY <2>6, <3>1, <1>a, <1>d DEF Handler, retired, woken, Busy, Reading
  <2>7. CASE UnlockFetch
    BY <2>7, <1>a, <1>b, <1>d DEF UnlockFetch, retired, woken, Busy, Reading
  <2>8. CASE PostEmpty
    <3>1. semEmpty' = semEmpty + 1 /\ retired' = retired + 1 /\ woken' = woken
      BY <2>8, <1>a DEF PostEmpty, fpx_semaphore_post, retired, woken, Busy, Reading
    <3>2. /\ semFull' = semFull /\ taken' = taken
          /\ Claimers' = Claimers /\ Posters' = Posters
      BY <2>8, <1>b, <1>d DEF PostEmpty
    <3> QED
      BY <3>1, <3>2, <1>a
  <2> QED
    BY <1>4, <2>1, <2>2, <2>3, <2>4, <2>5, <2>6, <2>7, <2>8 DEF WorkerStep
<1>5. CASE Finished \/ UNCHANGED vars
  BY <1>5, <1>b, <1>d
  DEF Finished, vars, sync, caller, worker, history, EmptyAccount, FullAccount, retired, woken
<1> QED
  BY <1>1, <1>2, <1>3, <1>4, <1>5 DEF Next

-----------------------------------------------------------------------------
(* Every step keeps the deposit mutex with the thread in its section. *)
LEMMA OwnerStep == TypeOK /\ DepositOwner /\ [Next]_vars => DepositOwner'
<1> SUFFICES ASSUME TypeOK, DepositOwner, [Next]_vars PROVE DepositOwner'
  OBVIOUS
<1>a. pc \in [Threads -> {"idle", "wait_empty", "lock_deposit", "post_full"} \cup Owning]
  BY DEF TypeOK
<1>b. ASSUME NEW t \in Threads, NEW level, CallLogError(t, level), UNCHANGED mutexDeposit
      PROVE  DepositOwner'
  BY <1>a, <1>b DEF CallLogError, DepositOwner, Owning, Filling
<1>c. UNCHANGED <<pc, mutexDeposit>> => DepositOwner'
  BY DEF DepositOwner
<1>1. CASE Setup
  BY <1>1, <1>c DEF Setup, Start, BecomeDaemon, SetGlobal, AddLog, sync, caller
<1>2. ASSUME NEW t \in Callers, AddLogRefused(t) \/ \E level \in CallLevels : Log(t, level)
      PROVE  DepositOwner'
  BY <1>2, <1>b DEF AddLogRefused, Log, sync, Threads
<1>3. ASSUME NEW t \in Threads, LogErrorStep(t)
      PROVE  DepositOwner'
  <2> USE <1>a, ThreadsAssumption DEF DepositOwner, Owning, Filling, sync
  <2>1. CASE WaitEmpty(t)
    BY <2>1 DEF WaitEmpty
  <2>2. CASE LockDeposit(t)
    BY <2>2 DEF LockDeposit, fpx_mutex_lock
  <2>3. CASE TakeSlot(t)
    BY <2>3 DEF TakeSlot
  <2>4. CASE FillStr(t)
    BY <2>4 DEF FillStr
  <2>5. CASE FillLevel(t)
    BY <2>5 DEF FillLevel
  <2>6. CASE UnlockDeposit(t)
    BY <2>6 DEF UnlockDeposit, fpx_mutex_unlock
  <2>7. CASE PostFull(t)
    BY <2>7 DEF PostFull
  <2> QED
    BY <1>3, <2>1, <2>2, <2>3, <2>4, <2>5, <2>6, <2>7 DEF LogErrorStep
<1>4. CASE WorkerStep
  <2>1. CASE WorkerStarted
    BY <2>1, <1>b, <1>c DEF WorkerStarted, Threads, sync, caller
  <2>2. CASE Handler
    BY <2>2, <1>b, <1>c DEF Handler, Skip, Write, WriteError, Threads, sync, caller
  <2>3. CASE WaitFull \/ LockFetch \/ Fetch \/ Format \/ UnlockFetch \/ PostEmpty
    BY <2>3, <1>c DEF WaitFull, LockFetch, Fetch, Format, UnlockFetch, PostEmpty, sync, caller
  <2> QED
    BY <1>4, <2>1, <2>2, <2>3 DEF WorkerStep
<1>5. CASE Finished \/ UNCHANGED vars
  BY <1>5, <1>c DEF Finished, vars, sync, caller
<1> QED
  BY <1>1, <1>2, <1>3, <1>4, <1>5 DEF Next

(* A thread that claims, a thread that posts and a woken worker are each   *)
(* counted.                                                                *)
LEMMA Room ==
  ASSUME TypeOK, Startup, EmptyAccount, FullAccount
  PROVE  /\ taken \in Nat /\ retired \in Nat /\ fetched \in Nat
         /\ taken - retired <= Slots
         /\ woken <= taken
         /\ \A t \in Threads : pc[t] \in Claiming => taken - retired <= Slots - 1
         /\ \A t \in Threads : pc[t] \in Posting => woken <= taken - 1
<1>1. /\ taken \in Nat /\ retired \in Nat /\ woken \in Nat /\ fetched \in Nat
      /\ semEmpty \in Nat /\ semFull \in Nat /\ Slots \in Nat
  BY SlotsAssumption DEF TypeOK, Startup, taken, retired, woken
<1>2. ASSUME NEW t \in Threads, pc[t] \in Claiming
      PROVE  Cardinality(Claimers) >= 1
  <2>1. Claimers # {}
    BY <1>2 DEF Claimers
  <2> QED
    BY <2>1, Finite, FS_EmptySet
<1>3. ASSUME NEW t \in Threads, pc[t] \in Posting
      PROVE  Cardinality(Posters) >= 1
  <2>1. Posters # {}
    BY <1>3 DEF Posters
  <2> QED
    BY <2>1, Finite, FS_EmptySet
<1> QED
  BY <1>1, <1>2, <1>3, Finite DEF EmptyAccount, FullAccount

-----------------------------------------------------------------------------
(* Every step keeps the ring indices and the two message pointers where    *)
(* they belong.                                                            *)
LEMMA RingStep == IInv /\ [Next]_vars => (RingDistance /\ FillerSlot /\ WorkerSlot)'
<1> SUFFICES ASSUME IInv, [Next]_vars
             PROVE  (RingDistance /\ FillerSlot /\ WorkerSlot)'
  OBVIOUS
<1>a. /\ TypeOK /\ RingDistance /\ FillerSlot /\ WorkerSlot /\ DepositOwner
      /\ Startup /\ EmptyAccount /\ FullAccount
  BY DEF IInv
<1>b. /\ front \in 0..Slots-1 /\ rear \in 0..Slots-1 /\ Slots \in Nat
      /\ taken \in Nat /\ fetched \in Nat
  BY <1>a, SlotsAssumption, Room DEF TypeOK
<1>c. ASSUME UNCHANGED <<front, rear, slot, cur, deposited, fetched>>,
             \A t \in Threads : pc'[t] \in Filling => pc[t] \in Filling,
             wpc' \in Reading => wpc \in Reading
      PROVE  (RingDistance /\ FillerSlot /\ WorkerSlot)'
  <2>1. taken' = taken
    BY <1>c DEF taken
  <2> QED
    BY <1>a, <1>c, <2>1 DEF RingDistance, FillerSlot, WorkerSlot, Before
<1>d. ASSUME NEW t \in Threads, NEW level, CallLogError(t, level)
      PROVE  slot' = slot /\ \A u \in Threads : pc'[u] \in Filling => pc[u] \in Filling
  BY <1>a, <1>d DEF CallLogError, Filling, TypeOK
<1>1. CASE Setup
  <2>1. /\ UNCHANGED <<front, rear, slot, cur, deposited, fetched, pc>>
        /\ wpc' = wpc \/ wpc' \in {"none", "sleep"}
    BY <1>1 DEF Setup, Start, BecomeDaemon, SetGlobal, AddLog, ring, caller, worker, history
  <2> QED
    BY <2>1, <1>c DEF Reading
<1>2. ASSUME NEW t \in Callers, AddLogRefused(t) \/ \E level \in CallLevels : Log(t, level)
      PROVE  (RingDistance /\ FillerSlot /\ WorkerSlot)'
  BY <1>2, <1>c, <1>d DEF AddLogRefused, Log, Threads, ring, worker, history
<1>3. ASSUME NEW t \in Threads, LogErrorStep(t)
      PROVE  (RingDistance /\ FillerSlot /\ WorkerSlot)'
  <2>1. CASE TakeSlot(t)
    <3>1. taken' = taken + 1
      BY <2>1, <1>a DEF TakeSlot, TypeOK, taken
    <3>2. taken - fetched <= Slots - 1
      <4>1. pc[t] \in Claiming
        BY <2>1 DEF TakeSlot, Claiming
      <4> QED
        BY <1>a, <1>b, <4>1, Room DEF retired
    <3>3. rear' = IF rear + 1 = Slots THEN 0 ELSE rear + 1
      BY <2>1, <1>b, NextSlotIs DEF TakeSlot
    <3>4. front' = front /\ fetched' = fetched
      BY <2>1 DEF TakeSlot
    <3>5. RingDistance'
      BY <1>a, <1>b, <3>1, <3>2, <3>3, <3>4 DEF RingDistance
    <3>6. FillerSlot'
      <4>1. \A u \in Threads : pc'[u] \in Filling => u = t
        BY <2>1, <1>a, ThreadsAssumption
        DEF TakeSlot, TypeOK, DepositOwner, Owning, Filling
      <4>2. slot'[t] = rear
        BY <2>1, <1>a DEF TakeSlot, TypeOK
      <4>3. Before(rear, rear')
        BY <2>1, <1>b, NextSlotIs DEF TakeSlot
      <4> QED
        BY <4>1, <4>2, <4>3 DEF FillerSlot, Before
    <3>7. WorkerSlot'
      BY <2>1, <1>a DEF TakeSlot, WorkerSlot, Before, worker
    <3> QED
      BY <3>5, <3>6, <3>7
  <2>2. CASE FillStr(t) \/ FillLevel(t)
    <3>1. \A u \in Threads : pc'[u] \in Filling => pc[u] \in Filling
      BY <2>2, <1>a DEF FillStr, FillLevel, Filling, TypeOK
    <3> QED
      BY <2>2, <3>1, <1>c DEF FillStr, FillLevel, worker, history
  <2>3. CASE WaitEmpty(t) \/ LockDeposit(t) \/ UnlockDeposit(t) \/ PostFull(t)
    <3>1. \A u \in Threads : pc'[u] \in Filling => pc[u] \in Filling
      BY <2>3, <1>a DEF WaitEmpty, LockDeposit, UnlockDeposit, PostFull, Filling, TypeOK
    <3> QED
      BY <2>3, <3>1, <1>c
      DEF WaitEmpty, LockDeposit, UnlockDeposit, PostFull, ring, worker, history
  <2> QED
    BY <1>3, <2>1, <2>2, <2>3 DEF LogErrorStep
<1>4. CASE WorkerStep
  <2>1. CASE Fetch
    <3>1. woken = fetched + 1
      BY <2>1 DEF Fetch, At, woken
    <3>2. taken - fetched >= 1
      BY <1>a, <1>b, <3>1, Room
    <3>3. front' = IF front + 1 = Slots THEN 0 ELSE front + 1
      BY <2>1, <1>b, NextSlotIs DEF Fetch
    <3>4. rear' = rear /\ fetched' = fetched + 1 /\ taken' = taken
      BY <2>1 DEF Fetch, taken
    <3>5. RingDistance'
      BY <1>a, <1>b, <3>2, <3>3, <3>4 DEF RingDistance
    <3>6. FillerSlot'
      BY <2>1, <1>a DEF Fetch, FillerSlot, Before, caller
    <3>7. WorkerSlot'
      BY <2>1, <1>b, NextSlotIs DEF Fetch, WorkerSlot, Before
    <3> QED
      BY <3>5, <3>6, <3>7
  <2>2. CASE WorkerStarted
    BY <2>2, <1>c, <1>d DEF WorkerStarted, Reading, Threads, ring, caller, history
  <2>3. CASE Handler
    BY <2>3, <1>c, <1>d
    DEF Handler, Skip, Write, WriteError, Threads, ring, caller, history
  <2>4. CASE WaitFull \/ LockFetch \/ Format \/ UnlockFetch \/ PostEmpty
    BY <2>4, <1>c
    DEF WaitFull, LockFetch, Format, UnlockFetch, PostEmpty, At, Reading, ring, caller, history
  <2> QED
    BY <1>4, <2>1, <2>2, <2>3, <2>4 DEF WorkerStep
<1>5. CASE Finished \/ UNCHANGED vars
  BY <1>5, <1>c DEF Finished, vars, ring, caller, worker, history
<1> QED
  BY <1>1, <1>2, <1>3, <1>4, <1>5 DEF Next

-----------------------------------------------------------------------------
(* Every step keeps what start-up has not done yet. *)
LEMMA StartupStep == TypeOK /\ FullAccount /\ Startup /\ [Next]_vars => Startup'
<1> SUFFICES ASSUME TypeOK, FullAccount, Startup, [Next]_vars PROVE Startup'
  OBVIOUS
<1>a. ~global => wpc \notin Busy
  BY QuietStart
<1>1. CASE Setup
  <2> USE DEF Startup, caller, history
  <2>1. CASE Start
    BY <2>1 DEF Start, Busy, Reading
  <2>2. CASE BecomeDaemon
    BY <2>2 DEF BecomeDaemon, Busy, Reading
  <2>3. CASE SetGlobal
    BY <2>3 DEF SetGlobal, Busy, Reading, worker
  <2>4. CASE \E level \in LogLevels : AddLog(level)
    BY <2>4 DEF AddLog
  <2> QED
    BY <1>1, <2>1, <2>2, <2>3, <2>4 DEF Setup
<1>2. ASSUME NEW t \in Callers, AddLogRefused(t) \/ \E level \in CallLevels : Log(t, level)
      PROVE  Startup'
  <2>1. PICK level : Log(t, level)
    BY <1>2 DEF AddLogRefused
  <2>2. calls'[Worker] = calls[Worker]
    BY <2>1, ThreadsAssumption DEF Log, CallLogError, TypeOK, Threads
  <2> QED
    BY <2>1, <2>2 DEF Log, Startup, Busy, setup, worker, history
<1>3. ASSUME NEW t \in Threads, LogErrorStep(t)
      PROVE  Startup'
  <2>1. global /\ UNCHANGED <<phase, global, wpc, calls, fetched>>
    BY <1>3
    DEF LogErrorStep, WaitEmpty, LockDeposit, TakeSlot, FillStr, FillLevel, UnlockDeposit,
        PostFull, Startup, setup, worker, history
  <2> QED
    BY <2>1 DEF Startup
<1>4. CASE WorkerStep
  <2>0. fetched \in Nat
    BY DEF TypeOK
  <2>1. CASE WorkerStarted
    BY <2>1 DEF WorkerStarted, At, Startup, Busy, Reading, setup, caller, history
  <2>2. CASE WaitFull \/ LockFetch \/ UnlockFetch
    BY <2>2
    DEF WaitFull, LockFetch, UnlockFetch, At, Startup, Busy, Reading, setup, caller, history
  <2>3. CASE Fetch
    BY <2>3, <2>0 DEF Fetch, At, Startup, setup, caller
  <2>4. CASE Format \/ PostEmpty
    BY <2>4 DEF Format, PostEmpty, At, Startup, Busy, Reading, setup, caller, history
  <2>5. CASE Handler
    <3>1. global /\ wpc = "handlers" /\ UNCHANGED <<phase, global, wpc, fetched>>
      BY <2>5, <1>a DEF Handler, At, Busy, Reading, setup, history
    <3> QED
      BY <3>1 DEF Startup
  <2> QED
    BY <1>4, <2>1, <2>2, <2>3, <2>4, <2>5 DEF WorkerStep
<1>5. CASE Finished \/ UNCHANGED vars
  BY <1>5 DEF Finished, vars, Startup, setup, caller, worker, history
<1> QED
  BY <1>1, <1>2, <1>3, <1>4, <1>5 DEF Next

(* The inductive invariant holds initially. *)
LEMMA InvInit == Init => IInv
<1> SUFFICES ASSUME Init PROVE IInv
  OBVIOUS
<1>1. TypeOK
  BY TypeInit
<1>2. Claimers = {} /\ Posters = {}
  BY DEF Init, Claimers, Posters, Claiming, Posting, Filling
<1>3. Cardinality(Claimers) = 0 /\ Cardinality(Posters) = 0
  BY <1>2, FS_EmptySet
<1>4. taken = 0 /\ retired = 0 /\ woken = 0
  BY DEF Init, taken, retired, woken, Busy, Reading
<1>5. EmptyAccount /\ FullAccount
  BY <1>3, <1>4, SlotsAssumption DEF Init, EmptyAccount, FullAccount
<1>6. DepositOwner
  BY ThreadsAssumption DEF Init, DepositOwner, Owning, Filling
<1>7. RingDistance /\ FillerSlot /\ WorkerSlot
  BY <1>4 DEF Init, RingDistance, FillerSlot, WorkerSlot, Filling, Reading
<1>8. Startup
  BY DEF Init, Startup, Busy, Reading, Threads
<1> QED
  BY <1>1, <1>5, <1>6, <1>7, <1>8 DEF IInv

(* The logger's invariant: types, slot accounts, mutex, ring and start-up  *)
(* hold in every reachable state of log.c's ring, for any number of        *)
(* threads and slots.                                                      *)
THEOREM Invariance == Spec => []IInv
<1>1. IInv /\ [Next]_vars => IInv'
  BY TypeStep, AccountStep, OwnerStep, RingStep, StartupStep DEF IInv
<1> QED
  BY InvInit, <1>1, PTL DEF Spec

(* The types hold in every reachable state. *)
THEOREM Typing == Spec => []TypeOK
<1>1. IInv => TypeOK
  BY DEF IInv
<1> QED
  BY Invariance, <1>1, PTL

(* No thread inside fpx_log_error ever fills the slot that                 *)
(* fpx_logger_worker reads, although they hold different mutexes.          *)
THEOREM NoTornReads == Spec => []NoTornRead
<1>1. IInv => NoTornRead
  <2> SUFFICES ASSUME IInv, NEW t \in Threads, pc[t] \in Filling, wpc \in Reading
               PROVE  slot[t] # cur
    BY DEF NoTornRead
  <2>1. Before(slot[t], rear) /\ Before(cur, front)
    BY DEF IInv, FillerSlot, WorkerSlot
  <2>2. /\ slot[t] \in 0..Slots-1 /\ cur \in 0..Slots-1
        /\ rear \in 0..Slots-1 /\ front \in 0..Slots-1 /\ Slots \in Nat
    BY SlotsAssumption DEF IInv, TypeOK
  <2>3. retired = fetched - 1 /\ woken = fetched
    BY DEF retired, woken, Busy, Reading
  <2>4. taken - fetched >= 1 /\ taken - fetched <= Slots - 1 /\ taken \in Nat /\ fetched \in Nat
    <3>1. pc[t] \in Posting
      BY DEF Posting
    <3> QED
      BY <2>2, <2>3, <3>1, Room DEF IInv
  <2>5. rear # front
    BY <2>2, <2>4 DEF IInv, RingDistance
  <2> QED
    BY <2>1, <2>2, <2>5 DEF Before
<1> QED
  BY Invariance, <1>1, PTL

(* No slot of the ring is ever lost or counted twice between sem_empty,    *)
(* sem_full, the threads inside fpx_log_error and the worker.              *)
THEOREM SlotConservation == Spec => []SlotsConserved
<1>1. IInv => SlotsConserved
  <2> SUFFICES ASSUME IInv PROVE SlotsConserved
    OBVIOUS
  <2> DEFINE inside == {t \in Threads : pc[t] \notin {"idle", "wait_empty"}}
  <2>1. inside = Claimers \cup Posters
    BY DEF IInv, TypeOK, Claimers, Posters, Claiming, Posting, Owning, Filling
  <2>2. Claimers \cap Posters = {}
    BY DEF Claimers, Posters, Claiming, Posting, Filling
  <2>3. Cardinality(inside) = Cardinality(Claimers) + Cardinality(Posters)
    <3>1. Cardinality(Claimers \cup Posters)
            = Cardinality(Claimers) + Cardinality(Posters) - Cardinality(Claimers \cap Posters)
      BY Finite, FS_Union
    <3>2. Cardinality(Claimers \cap Posters) = 0
      BY <2>2, FS_EmptySet
    <3>3. Cardinality(inside) = Cardinality(Claimers \cup Posters)
      BY <2>1, Zenon
    <3> HIDE DEF inside
    <3> QED
      BY <3>1, <3>2, <3>3, Finite
  <2>4. woken = retired + (IF wpc \in Busy \cup {"lock_fetch", "fetch"} THEN 1 ELSE 0)
    BY DEF IInv, TypeOK, woken, retired, Busy, Reading
  <2>5. /\ taken \in Nat /\ retired \in Nat /\ fetched \in Nat
        /\ semEmpty \in Nat /\ semFull \in Nat /\ Slots \in Nat
    BY Room, SlotsAssumption DEF IInv, TypeOK
  <2> QED
    BY <2>3, <2>4, <2>5, Finite DEF IInv, EmptyAccount, FullAccount, SlotsConserved
<1> QED
  BY Invariance, <1>1, PTL

(***************************************************************************)
(* The messages.  The k-th accepted message is in slot (k - 1) % Slots,    *)
(* and two messages that are both in the ring are less than Slots apart.   *)
(***************************************************************************)

(* The k-th message has slot (k - 1) % Slots. *)
Positions ==
  /\ rear = taken % Slots /\ front = fetched % Slots
  /\ wpc \in Reading => cur = (fetched - 1) % Slots

(* The thread that fills is at the message accepted last. *)
FillerMessage ==
  \A t \in Threads :
    /\ pc[t] \in Filling
         => taken >= 1 /\ slot[t] = (taken - 1) % Slots /\ arg[t] = deposited[taken]
    /\ pc[t] = "fill_level" => slots[slot[t]].str = arg[t].str

(* The worker's line is the message it fetched last. *)
WorkerLine == wpc = "handlers" => buf = deposited[fetched] /\ li <= Len(logs) + 1

DataInv == Positions /\ FillerMessage /\ BacklogIntact /\ WorkerLine

-----------------------------------------------------------------------------
(* Arithmetic of the ring. *)
LEMMA DivMod ==
  ASSUME NEW s \in Nat \ {0}, NEW k \in Nat
  PROVE  k % s \in 0..s-1 /\ k \div s \in Nat /\ k = s * (k \div s) + (k % s)
<1>1. k % s \in 0..s-1
  OBVIOUS
<1>2. k \div s \in Nat
  OBVIOUS
<1>3. k = s * (k \div s) + (k % s)
  OBVIOUS
<1> QED
  BY <1>1, <1>2, <1>3

(* The remainder of a number written as multiple and rest. *)
LEMMA ModOf ==
  ASSUME NEW s \in Nat \ {0}, NEW q \in Nat, NEW r \in 0..s-1
  PROVE  (s * q + r) % s = r
  OBVIOUS

(* The slot of the next message. *)
LEMMA ModNext ==
  ASSUME NEW s \in Nat \ {0}, NEW k \in Nat
  PROVE  (k + 1) % s = IF (k % s) + 1 = s THEN 0 ELSE (k % s) + 1
<1> DEFINE q == k \div s
           r == k % s
<1>1. r \in 0..s-1 /\ q \in Nat /\ k = s * q + r
  BY DivMod
<1> HIDE DEF q, r
<1>2. CASE r + 1 = s
  <2>1. k + 1 = s * (q + 1) + 0
    BY <1>1, <1>2
  <2>2. (s * (q + 1) + 0) % s = 0
    BY <1>1, ModOf
  <2> QED
    BY <2>1, <2>2, <1>2 DEF r
<1>3. CASE r + 1 # s
  <2>1. k + 1 = s * q + (r + 1) /\ r + 1 \in 0..s-1
    BY <1>1, <1>3
  <2>2. (s * q + (r + 1)) % s = r + 1
    BY <1>1, <2>1, ModOf
  <2> QED
    BY <2>1, <2>2, <1>3 DEF r
<1> QED
  BY <1>2, <1>3

(* Messages less than s apart are in different slots. *)
LEMMA ModDiffer ==
  ASSUME NEW s \in Nat \ {0}, NEW a \in Nat, NEW b \in Nat, a < b, b - a < s
  PROVE  a % s # b % s
<1> DEFINE qa == a \div s
           qb == b \div s
           r == a % s
<1> SUFFICES ASSUME b % s = r PROVE FALSE
  OBVIOUS
<1>1. qa \in Nat /\ r \in 0..s-1 /\ a = s * qa + r
  BY DivMod
<1>2. qb \in Nat /\ b = s * qb + r
  BY DivMod
<1> HIDE DEF qa, qb, r
<1>3. CASE qa < qb
  <2>1. s * (qb - qa) >= s
    BY <1>1, <1>2, <1>3
  <2>2. s * (qb - qa) = s * qb - s * qa
    BY <1>1, <1>2
  <2> QED
    BY <1>1, <1>2, <2>1, <2>2
<1>4. CASE qb <= qa
  <2>1. s * (qa - qb) >= 0
    BY <1>1, <1>2, <1>4
  <2>2. s * (qa - qb) = s * qa - s * qb
    BY <1>1, <1>2
  <2> QED
    BY <1>1, <1>2, <2>1, <2>2
<1> QED
  BY <1>1, <1>2, <1>3, <1>4

(* The end of a sequence that grows. *)
LEMMA SubSeqAppend ==
  ASSUME NEW S, NEW d \in Seq(S), NEW m \in S, NEW r \in 0..Len(d)
  PROVE  SubSeq(Append(d, m), r + 1, Len(d) + 1) = Append(SubSeq(d, r + 1, Len(d)), m)
<1> DEFINE n == Len(d)
           a == SubSeq(Append(d, m), r + 1, n + 1)
           b == SubSeq(d, r + 1, n)
<1>0. n \in Nat /\ r \in Nat /\ r <= n
  OBVIOUS
<1>1. a \in Seq(S) /\ Len(a) = n + 1 - r /\ \A i \in 1..n+1-r : a[i] = Append(d, m)[r + i]
  BY <1>0, SubSeqProperties
<1>2. b \in Seq(S) /\ Len(b) = n - r /\ \A i \in 1..n-r : b[i] = d[r + i]
  <2>1. \A i \in r+1..n : d[i] \in S
    BY <1>0
  <2>2. /\ b \in Seq(S) /\ Len(b) = (IF r + 1 <= n THEN n - (r + 1) + 1 ELSE 0)
        /\ \A i \in 1 .. n-(r+1)+1 : b[i] = d[(r + 1) + i - 1]
    BY <1>0, <2>1, SubSeqProperties
  <2> HIDE DEF b
  <2> QED
    BY <1>0, <2>2
<1> HIDE DEF a, b
<1>3. \A i \in 1..n+1-r : a[i] = Append(b, m)[i]
  <2>1. ASSUME NEW i \in 1..n-r PROVE a[i] = Append(b, m)[i]
    <3>1. Append(b, m)[i] = b[i]
      BY <1>0, <1>2
    <3>2. Append(d, m)[r + i] = d[r + i]
      <4>1. r + i \in 1..Len(d)
        BY <1>0
      <4> QED
        BY <4>1, AppendProperties
    <3>3. i \in 1..n+1-r
      BY <1>0
    <3> QED
      BY <1>1, <1>2, <3>1, <3>2, <3>3, Zenon
  <2>2. a[n+1-r] = m
    <3>1. a[n+1-r] = Append(d, m)[r + (n + 1 - r)]
      BY <1>0, <1>1
    <3> QED
      BY <1>0, <3>1
  <2>3. Append(b, m)[n+1-r] = m
    BY <1>0, <1>2
  <2>4. \A i \in 1..n+1-r : i \in 1..n-r \/ i = n+1-r
    BY <1>0
  <2> HIDE DEF n
  <2> QED
    BY <2>1, <2>2, <2>3, <2>4
<1>4. Append(b, m) \in Seq(S) /\ Len(Append(b, m)) = n + 1 - r
  BY <1>0, <1>2
<1> HIDE DEF n
<1>5. a = Append(b, m)
  BY <1>0, <1>1, <1>3, <1>4, SeqEqual
<1> QED
  BY <1>5 DEF a, b, n

-----------------------------------------------------------------------------
(* What the accounts say of the numbers involved. *)
LEMMA Numbers ==
  ASSUME IInv
  PROVE  /\ Slots \in Nat \ {0} /\ taken \in Nat /\ fetched \in Nat /\ retired \in Nat
         /\ filled \in Int /\ filled <= taken /\ filled >= taken - 1
         /\ retired <= fetched /\ taken - retired <= Slots
         /\ wpc \in Busy => fetched = retired + 1 /\ fetched >= 1 /\ fetched <= filled
         /\ deposited \in Seq(Message) /\ taken = Len(deposited)
<1>1. TypeOK /\ Startup /\ EmptyAccount /\ FullAccount
  BY DEF IInv
<1>2. /\ taken \in Nat /\ fetched \in Nat /\ retired \in Nat /\ taken - retired <= Slots
      /\ Slots \in Nat \ {0} /\ deposited \in Seq(Message) /\ taken = Len(deposited)
  BY <1>1, Room, SlotsAssumption DEF TypeOK, taken
<1>3. filled \in Int /\ filled <= taken /\ filled >= taken - 1
  BY <1>2 DEF filled, taken
<1>4. retired <= fetched /\ (wpc \in Busy => fetched = retired + 1 /\ fetched >= 1)
  BY <1>1, <1>2 DEF retired, Startup
<1>5. ASSUME wpc \in Busy PROVE fetched <= filled
  <2>1. woken = fetched
    BY <1>5 DEF woken, Busy, Reading
  <2>2. woken <= taken /\ \A t \in Threads : pc[t] \in Filling => woken <= taken - 1
    BY <1>1, Room DEF Posting
  <2> QED
    BY <2>1, <2>2 DEF filled, taken
<1> QED
  BY <1>2, <1>3, <1>4, <1>5

(* At most one thread fills. *)
LEMMA OneFiller ==
  ASSUME IInv, NEW t \in Threads, NEW u \in Threads, pc[t] \in Owning, pc[u] \in Owning
  PROVE  t = u
  BY DEF IInv, DepositOwner

(* A step that leaves the ring, the thread that fills and the worker's     *)
(* pointer alone, and retires at most the oldest message.                  *)
LEMMA QuietData ==
  ASSUME IInv, DataInv,
         UNCHANGED <<slots, front, rear, slot, cur, deposited, fetched>>,
         retired' = retired \/ retired' = retired + 1,
         \A t \in Threads : pc'[t] \in Filling \/ pc[t] \in Filling
                              => pc'[t] = pc[t] /\ arg'[t] = arg[t],
         wpc' \in Reading => wpc \in Reading,
         WorkerLine'
  PROVE  DataInv'
<1>1. taken' = taken /\ filled' = filled
  BY DEF taken, filled
<1>2. Positions'
  BY <1>1 DEF DataInv, Positions
<1>3. FillerMessage'
  BY <1>1 DEF DataInv, FillerMessage, Filling
<1>4. BacklogIntact'
  <2>1. retired'+1 .. filled' \subseteq retired+1 .. filled
    BY <1>1, Numbers
  <2> QED
    BY <2>1 DEF DataInv, BacklogIntact
<1> QED
  BY <1>2, <1>3, <1>4 DEF DataInv

(* Entering fpx_log_error is such a step. *)
LEMMA CallQuiet ==
  ASSUME IInv, NEW t \in Threads, NEW level, CallLogError(t, level)
  PROVE  /\ slot' = slot
         /\ \A u \in Threads : pc'[u] \in Filling \/ pc[u] \in Filling
                                => pc'[u] = pc[u] /\ arg'[u] = arg[u]
  BY DEF IInv, TypeOK, CallLogError, Filling

(* Taking a slot keeps the data invariant: the slot holds nothing that     *)
(* waits.                                                                  *)
LEMMA TakeData == ASSUME IInv, DataInv, NEW t \in Threads, TakeSlot(t) PROVE DataInv'
<1>0. TypeOK /\ Positions /\ BacklogIntact /\ WorkerLine /\ FillerMessage
  BY DEF IInv, DataInv
<1>n. /\ Slots \in Nat \ {0} /\ taken \in Nat /\ taken = Len(deposited)
      /\ deposited \in Seq(Message) /\ arg[t] \in Message /\ rear \in 0..Slots-1
  BY <1>0, Numbers DEF TypeOK
<1>a. /\ pc[t] = "take" /\ slot' = [slot EXCEPT ![t] = rear] /\ rear' = NextSlot(rear)
      /\ deposited' = Append(deposited, arg[t]) /\ pc' = [pc EXCEPT ![t] = "fill_str"]
      /\ UNCHANGED <<slots, front, arg, fetched, wpc, cur, buf, li, logs>>
  BY DEF TakeSlot, worker, setup
<1>b. taken' = taken + 1 /\ deposited'[taken + 1] = arg[t]
      /\ \A k \in 1..taken : deposited'[k] = deposited[k]
  BY <1>a, <1>n DEF taken
<1>c. \A u \in Threads : pc[u] \notin Filling /\ (pc'[u] \in Filling => u = t)
  <2>1. \A u \in Threads : pc[u] \in Owning => u = t
    BY <1>a, OneFiller DEF Owning
  <2> QED
    BY <2>1, <1>0, <1>a DEF TypeOK, Owning, Filling
<1>d. filled = taken /\ filled' = taken /\ retired' = retired
  <2>1. pc'[t] \in Filling
    BY <1>0, <1>a DEF TypeOK, Filling
  <2> QED
    BY <2>1, <1>a, <1>b, <1>c, <1>n DEF filled, taken, retired
<1>1. Positions'
  <2>1. NextSlot(rear) = (taken + 1) % Slots
    BY <1>0, <1>n, NextSlotIs, ModNext DEF Positions
  <2> QED
    BY <2>1, <1>0, <1>a, <1>b DEF Positions
<1>2. FillerMessage'
  <2>1. slot'[t] = taken % Slots
    BY <1>0, <1>a DEF Positions, TypeOK
  <2>2. (taken + 1) - 1 = taken /\ taken + 1 >= 1
    BY <1>n
  <2>3. pc'[t] = "fill_str"
    BY <1>0, <1>a DEF TypeOK
  <2> QED
    BY <2>1, <2>2, <2>3, <1>a, <1>b, <1>c DEF FillerMessage, Filling
<1>3. BacklogIntact'
  <2> SUFFICES ASSUME NEW k \in retired+1 .. taken
               PROVE  slots[(k - 1) % Slots] = deposited'[k]
    BY <1>a, <1>d DEF BacklogIntact
  <2>1. k \in 1..taken
    BY <1>n, Numbers
  <2> QED
    BY <2>1, <1>0, <1>b, <1>d DEF BacklogIntact
<1>4. WorkerLine'
  <2>1. wpc = "handlers" => fetched \in 1..taken
    BY Numbers DEF Busy, Reading
  <2> QED
    BY <2>1, <1>0, <1>a, <1>b DEF WorkerLine
<1> QED
  BY <1>1, <1>2, <1>3, <1>4 DEF DataInv

(* The slot that is filled is none of the backlog that is whole. *)
LEMMA FillsElsewhere ==
  ASSUME IInv, DataInv, NEW t \in Threads, pc[t] \in Filling
  PROVE  /\ filled = taken - 1 /\ slot[t] \in 0..Slots-1
         /\ \A k \in retired+1 .. taken-1 :
              (k - 1) % Slots \in 0..Slots-1 /\ (k - 1) % Slots # slot[t]
<1>1. filled = taken - 1
  BY DEF filled, taken
<1>2. slot[t] = (taken - 1) % Slots /\ slot[t] \in 0..Slots-1 /\ taken >= 1
  BY DEF DataInv, FillerMessage, IInv, TypeOK
<1>3. ASSUME NEW k \in retired+1 .. taken-1
      PROVE  (k - 1) % Slots \in 0..Slots-1 /\ (k - 1) % Slots # slot[t]
  <2>1. /\ k - 1 \in Nat /\ taken - 1 \in Nat /\ k - 1 < taken - 1 /\ (taken - 1) - (k - 1) < Slots
        /\ Slots \in Nat \ {0}
    BY Numbers
  <2>2. (k - 1) % Slots \in 0..Slots-1
    BY <2>1, DivMod
  <2>3. (k - 1) % Slots # (taken - 1) % Slots
    BY <2>1, ModDiffer
  <2> QED
    BY <2>2, <2>3, <1>2
<1> QED
  BY <1>1, <1>2, <1>3

(* Writing the text keeps the data invariant. *)
LEMMA FillStrData == ASSUME IInv, DataInv, NEW t \in Threads, FillStr(t) PROVE DataInv'
<1>0. TypeOK /\ Positions /\ BacklogIntact /\ WorkerLine /\ FillerMessage
  BY DEF IInv, DataInv
<1>a. /\ pc[t] = "fill_str" /\ slots' = [slots EXCEPT ![slot[t]].str = arg[t].str]
      /\ pc' = [pc EXCEPT ![t] = "fill_level"]
      /\ UNCHANGED <<front, rear, arg, slot, wpc, cur, buf, li, logs, deposited, fetched>>
  BY DEF FillStr, worker, setup, history
<1>b. /\ filled = taken - 1 /\ slot[t] \in 0..Slots-1
      /\ \A k \in retired+1 .. taken-1 :
           (k - 1) % Slots \in 0..Slots-1 /\ (k - 1) % Slots # slot[t]
  BY <1>a, FillsElsewhere DEF Filling
<1>c. /\ slots'[slot[t]].str = arg[t].str
      /\ \A i \in 0..Slots-1 : i # slot[t] => slots'[i] = slots[i]
  BY <1>0, <1>a, <1>b DEF TypeOK, Message
<1>d. taken' = taken /\ retired' = retired /\ filled' = taken - 1 /\ pc'[t] = "fill_level"
  BY <1>0, <1>a DEF taken, retired, filled, TypeOK, Filling
<1>e. \A u \in Threads : pc'[u] \in Filling => u = t
  BY <1>0, <1>a, OneFiller DEF TypeOK, Owning
<1>1. Positions'
  BY <1>0, <1>a, <1>d DEF Positions
<1>2. FillerMessage'
  BY <1>0, <1>a, <1>c, <1>d, <1>e DEF FillerMessage, Filling
<1>3. BacklogIntact'
  BY <1>0, <1>a, <1>b, <1>c, <1>d DEF BacklogIntact
<1>4. WorkerLine'
  BY <1>0, <1>a DEF WorkerLine
<1> QED
  BY <1>1, <1>2, <1>3, <1>4 DEF DataInv

(* Writing the level keeps the data invariant. *)
LEMMA FillLevelData == ASSUME IInv, DataInv, NEW t \in Threads, FillLevel(t) PROVE DataInv'
<1>0. TypeOK /\ Positions /\ BacklogIntact /\ WorkerLine /\ FillerMessage
  BY DEF IInv, DataInv
<1>a. /\ pc[t] = "fill_level" /\ slots' = [slots EXCEPT ![slot[t]].level = arg[t].level]
      /\ pc' = [pc EXCEPT ![t] = "unlock_deposit"]
      /\ UNCHANGED <<front, rear, arg, slot, wpc, cur, buf, li, logs, deposited, fetched>>
  BY DEF FillLevel, worker, setup, history
<1>b. /\ filled = taken - 1 /\ slot[t] \in 0..Slots-1
      /\ \A k \in retired+1 .. taken-1 :
           (k - 1) % Slots \in 0..Slots-1 /\ (k - 1) % Slots # slot[t]
  BY <1>a, FillsElsewhere DEF Filling
<1>c. /\ slots'[slot[t]] = arg[t]
      /\ \A i \in 0..Slots-1 : i # slot[t] => slots'[i] = slots[i]
  <2>1. slots[slot[t]] \in Message /\ arg[t] \in Message /\ slots[slot[t]].str = arg[t].str
    BY <1>0, <1>a, <1>b DEF TypeOK, FillerMessage
  <2>2. slots'[slot[t]] = [slots[slot[t]] EXCEPT !.level = arg[t].level]
    BY <1>0, <1>a, <1>b DEF TypeOK
  <2>3. slots'[slot[t]] = arg[t]
    BY <2>1, <2>2 DEF Message
  <2> QED
    BY <2>3, <1>0, <1>a DEF TypeOK
<1>e. \A u \in Threads : pc'[u] \notin Filling
  BY <1>0, <1>a, OneFiller DEF TypeOK, Owning, Filling
<1>d. taken' = taken /\ retired' = retired /\ filled' = taken
  BY <1>a, <1>e DEF taken, retired, filled
<1>1. Positions'
  BY <1>0, <1>a, <1>d DEF Positions
<1>2. FillerMessage'
  BY <1>e DEF FillerMessage, Filling
<1>3. BacklogIntact'
  <2> SUFFICES ASSUME NEW k \in retired+1 .. taken
               PROVE  slots'[(k - 1) % Slots] = deposited[k]
    BY <1>a, <1>d DEF BacklogIntact
  <2>1. CASE k = taken
    BY <2>1, <1>0, <1>a, <1>c DEF FillerMessage, Filling
  <2>2. CASE k # taken
    <3>1. k \in retired+1 .. taken-1
      BY <2>2, Numbers
    <3> QED
      BY <3>1, <1>0, <1>b, <1>c DEF BacklogIntact
  <2> QED
    BY <2>1, <2>2
<1>4. WorkerLine'
  BY <1>0, <1>a DEF WorkerLine
<1> QED
  BY <1>1, <1>2, <1>3, <1>4 DEF DataInv

(* Fetching keeps the data invariant. *)
LEMMA FetchData == ASSUME IInv, DataInv, Fetch PROVE DataInv'
<1>0. TypeOK /\ Positions /\ BacklogIntact /\ FillerMessage
  BY DEF IInv, DataInv
<1>a. /\ wpc = "fetch" /\ wpc' = "format" /\ cur' = front /\ front' = NextSlot(front)
      /\ fetched' = fetched + 1
      /\ UNCHANGED <<slots, rear, pc, arg, slot, deposited>>
  BY DEF Fetch, At, caller
<1>b. /\ taken' = taken /\ filled' = filled /\ retired' = retired
      /\ Slots \in Nat \ {0} /\ fetched \in Nat /\ front \in 0..Slots-1
  BY <1>0, <1>a, Numbers DEF taken, filled, retired, Busy, Reading, TypeOK
<1>1. Positions'
  <2>1. NextSlot(front) = (fetched + 1) % Slots
    BY <1>0, <1>b, NextSlotIs, ModNext DEF Positions
  <2>2. (fetched + 1) - 1 = fetched
    BY <1>b
  <2> QED
    BY <2>1, <2>2, <1>0, <1>a, <1>b DEF Positions
<1>2. FillerMessage'
  BY <1>0, <1>a, <1>b DEF FillerMessage
<1>3. BacklogIntact'
  BY <1>0, <1>a, <1>b DEF BacklogIntact
<1>4. WorkerLine'
  BY <1>a DEF WorkerLine
<1> QED
  BY <1>1, <1>2, <1>3, <1>4 DEF DataInv

(* The slot the worker is at holds the message it fetched last. *)
LEMMA WorkerReads ==
  ASSUME IInv, DataInv, wpc \in Reading
  PROVE  slots[cur] = deposited[fetched] /\ fetched \in 1..taken /\ retired = fetched - 1
<1>1. wpc \in Busy
  BY DEF Busy
<1>2. fetched \in retired+1 .. filled /\ retired = fetched - 1 /\ fetched \in 1..taken
  BY <1>1, Numbers
<1>3. cur = (fetched - 1) % Slots
  BY DEF DataInv, Positions
<1> QED
  BY <1>2, <1>3 DEF DataInv, BacklogIntact

(* The data invariant holds at first. *)
LEMMA DataInit == Init => DataInv
<1> SUFFICES ASSUME Init PROVE DataInv
  OBVIOUS
<1>1. taken = 0 /\ fetched = 0 /\ retired = 0 /\ filled = 0
  BY DEF Init, taken, retired, filled, Busy, Reading, Filling
<1>2. 0 % Slots = 0
  BY SlotsAssumption
<1> QED
  BY <1>1, <1>2
  DEF Init, DataInv, Positions, FillerMessage, BacklogIntact, WorkerLine, Filling, Reading

(* Every step keeps the data invariant. *)
LEMMA DataStep == IInv /\ DataInv /\ [Next]_vars => DataInv'
<1> SUFFICES ASSUME IInv, DataInv, [Next]_vars PROVE DataInv'
  OBVIOUS
<1>0. TypeOK /\ Startup /\ FullAccount /\ WorkerLine
  BY DEF IInv, DataInv
<1>n. fetched \in Nat /\ retired \in Nat
  BY Numbers
<1>1. CASE Setup
  <2>1. CASE BecomeDaemon
    <3>1. retired = 0 /\ fetched = 0
      BY <2>1, <1>0, QuietStart DEF BecomeDaemon, Startup
    <3>2. retired' = retired /\ WorkerLine' /\ wpc' \notin Reading
      BY <2>1, <3>1 DEF BecomeDaemon, retired, Busy, Reading, history, WorkerLine
    <3> QED
      BY <2>1, <3>2, QuietData DEF BecomeDaemon, ring, caller, history
  <2>2. CASE Start \/ SetGlobal \/ \E level \in LogLevels : AddLog(level)
    <3>1. wpc' = wpc \/ (wpc = "none" /\ wpc' = "sleep")
      BY <2>2, <1>0 DEF Start, SetGlobal, AddLog, worker, Startup
    <3>2. retired' = retired /\ (wpc' \in Reading => wpc \in Reading)
      BY <2>2, <3>1 DEF Start, SetGlobal, AddLog, retired, Busy, Reading, history
    <3>3. WorkerLine'
      BY <2>2, <3>1, <1>0 DEF Start, SetGlobal, AddLog, WorkerLine, Startup, worker, history
    <3> QED
      BY <2>2, <3>2, <3>3, QuietData DEF Start, SetGlobal, AddLog, ring, caller, history, worker
  <2> QED
    BY <1>1, <2>1, <2>2 DEF Setup
<1>2. ASSUME NEW t \in Callers, AddLogRefused(t) \/ \E level \in CallLevels : Log(t, level)
      PROVE  DataInv'
  <2>1. PICK level : Log(t, level)
    BY <1>2 DEF AddLogRefused
  <2>2. /\ UNCHANGED <<slots, front, rear, cur, deposited, fetched, wpc, buf, li, logs>>
        /\ CallLogError(t, level) /\ t \in Threads
    BY <2>1 DEF Log, ring, worker, history, setup, Threads
  <2>3. retired' = retired /\ WorkerLine'
    BY <2>2, <1>0 DEF retired, WorkerLine
  <2> QED
    BY <2>2, <2>3, CallQuiet, QuietData
<1>3. ASSUME NEW t \in Threads, LogErrorStep(t)
      PROVE  DataInv'
  <2>1. CASE WaitEmpty(t) \/ LockDeposit(t) \/ UnlockDeposit(t) \/ PostFull(t)
    <3>1. /\ UNCHANGED <<slots, front, rear, slot, arg, cur, deposited, fetched, wpc, buf, li, logs>>
          /\ \A u \in Threads : pc'[u] \in Filling \/ pc[u] \in Filling => pc'[u] = pc[u]
      BY <2>1, <1>0
      DEF WaitEmpty, LockDeposit, UnlockDeposit, PostFull, Filling, TypeOK, ring, worker,
          history, setup
    <3>2. retired' = retired /\ WorkerLine'
      BY <3>1, <1>0 DEF retired, WorkerLine
    <3> QED
      BY <3>1, <3>2, QuietData
  <2> QED
    BY <1>3, <2>1, TakeData, FillStrData, FillLevelData DEF LogErrorStep
<1>4. CASE WorkerStep
  <2>1. CASE WorkerStarted
    <3>1. /\ UNCHANGED <<slots, front, rear, cur, deposited, fetched>>
          /\ wpc = "sleep" /\ wpc' = "wait_full"
          /\ UNCHANGED <<slot, pc, arg>> \/ CallLogError(Worker, FPX_LOG_DEBUG)
      BY <2>1 DEF WorkerStarted, At, ring, history, caller
    <3>2. retired' = retired /\ WorkerLine' /\ wpc' \notin Reading
      BY <3>1 DEF retired, WorkerLine, Busy, Reading
    <3>3. Worker \in Threads
      BY DEF Threads
    <3> QED
      BY <3>1, <3>2, <3>3, CallQuiet, QuietData
  <2>2. CASE WaitFull \/ LockFetch \/ UnlockFetch \/ PostEmpty
    <3>1. UNCHANGED <<slots, front, rear, slot, pc, arg, cur, deposited, fetched>>
      BY <2>2 DEF WaitFull, LockFetch, UnlockFetch, PostEmpty, ring, history, caller
    <3>2. /\ retired' = retired \/ retired' = retired + 1
          /\ WorkerLine' /\ wpc' \notin Reading
      BY <2>2, <3>1, <1>n
      DEF WaitFull, LockFetch, UnlockFetch, PostEmpty, At, retired, WorkerLine, Busy, Reading
    <3> QED
      BY <3>1, <3>2, QuietData
  <2>3. CASE Fetch
    BY <2>3, FetchData
  <2>4. CASE Format
    <3>1. /\ UNCHANGED <<slots, front, rear, slot, pc, arg, cur, deposited, fetched, logs>>
          /\ wpc = "format" /\ wpc' = "handlers" /\ buf' = slots[cur] /\ li' = 1
      BY <2>4 DEF Format, At, ring, history, caller, setup
    <3>2. wpc \in Reading /\ retired' = retired
      BY <3>1 DEF Reading, Busy, retired
    <3>3. slots[cur] = deposited[fetched]
      BY <3>2, WorkerReads
    <3>4. Len(logs) \in Nat
      BY <1>0 DEF TypeOK
    <3>5. WorkerLine'
      BY <3>1, <3>3, <3>4 DEF WorkerLine
    <3> QED
      BY <3>1, <3>2, <3>5, QuietData
  <2>5. CASE Handler
    <3>1. /\ UNCHANGED <<slots, front, rear, cur, deposited, fetched, logs, wpc, buf>>
          /\ wpc = "handlers" /\ li <= Len(logs) /\ li' = li + 1
          /\ UNCHANGED <<slot, pc, arg>> \/ CallLogError(Worker, FPX_LOG_ERROR)
      BY <2>5 DEF Handler, At, ring, history, caller, setup, Skip, Write, WriteError
    <3>2. retired' = retired
      BY <3>1 DEF retired
    <3>3. Len(logs) \in Nat /\ li \in Nat
      BY <1>0 DEF TypeOK
    <3>4. WorkerLine'
      BY <3>1, <3>3, <1>0 DEF WorkerLine
    <3>5. Worker \in Threads
      BY DEF Threads
    <3> QED
      BY <3>1, <3>2, <3>4, <3>5, CallQuiet, QuietData
  <2> QED
    BY <1>4, <2>1, <2>2, <2>3, <2>4, <2>5 DEF WorkerStep
<1>5. CASE Finished \/ UNCHANGED vars
  <2>1. UNCHANGED <<slots, front, rear, slot, pc, arg, cur, deposited, fetched, logs, wpc, buf, li>>
    BY <1>5 DEF Finished, vars, setup, ring, caller, worker, history
  <2>2. retired' = retired /\ WorkerLine'
    BY <2>1, <1>0 DEF retired, WorkerLine
  <2> QED
    BY <2>1, <2>2, QuietData
<1> QED
  BY <1>1, <1>2, <1>3, <1>4, <1>5 DEF Next

(* The data in the ring, with the accounts it rests on. *)
THEOREM DataInvariance == Spec => [](IInv /\ DataInv)
<1>1. IInv /\ DataInv /\ [Next]_vars => DataInv'
  BY DataStep
<1> QED
  BY Invariance, DataInit, <1>1, PTL DEF Spec

(* A message that waits in the ring of log.c is whole and in its slot      *)
(* until the worker gives the slot back, whatever order the threads fill,  *)
(* post and wait in and however full the ring is.                          *)
THEOREM RingNeverOverwrites == Spec => []BacklogIntact
<1>1. DataInv => BacklogIntact
  BY DEF DataInv
<1> QED
  BY DataInvariance, <1>1, PTL

-----------------------------------------------------------------------------
(* The refinement of LogChannel: taking a slot accepts a message, handling *)
(* a log handles it, giving the slot back retires the message; everything  *)
(* else stutters.                                                          *)
LEMMA BacklogIs ==
  ASSUME IInv
  PROVE  /\ backlog \in Seq(Message) /\ Len(backlog) = taken - retired
         /\ retired < taken => /\ backlog # <<>> /\ Head(backlog) = deposited[retired + 1]
                               /\ Tail(backlog) = SubSeq(deposited, retired + 2, taken)
         /\ retired = taken => backlog = <<>>
<1>1. /\ deposited \in Seq(Message) /\ taken = Len(deposited)
      /\ taken \in Nat /\ retired \in Nat /\ retired <= taken
  <2>1. wpc \notin Busy => retired = fetched
    BY DEF retired
  <2>2. woken <= taken
    BY Room DEF IInv
  <2> QED
    BY <2>1, <2>2, Numbers DEF woken
<1>2. backlog = SubSeq(deposited, retired + 1, taken)
  BY <1>1 DEF backlog
<1>3. \A i \in retired+1 .. taken : deposited[i] \in Message
  BY <1>1
<1>4. backlog \in Seq(Message) /\ Len(backlog) = taken - retired
  <2>1. /\ SubSeq(deposited, retired + 1, taken) \in Seq(Message)
        /\ Len(SubSeq(deposited, retired + 1, taken))
             = IF retired + 1 <= taken THEN taken - (retired + 1) + 1 ELSE 0
    BY <1>1, <1>3, SubSeqProperties
  <2> QED
    BY <2>1, <1>1, <1>2
<1>5. retired = taken => backlog = <<>>
  BY <1>1, <1>2, SubSeqEmpty
<1>6. ASSUME retired < taken
      PROVE  /\ backlog # <<>> /\ Head(backlog) = deposited[retired + 1]
             /\ Tail(backlog) = SubSeq(deposited, retired + 2, taken)
  <2>1. retired + 1 \in 1..Len(deposited) /\ taken \in retired+1 .. Len(deposited)
    BY <1>1, <1>6
  <2>2. /\ Head(backlog) = deposited[retired + 1]
        /\ Tail(backlog) = SubSeq(deposited, (retired + 1) + 1, taken)
    BY <1>1, <1>2, <2>1, HeadTailOfSubSeq
  <2>3. backlog # <<>>
    BY <1>1, <1>4, <1>6
  <2>4. (retired + 1) + 1 = retired + 2
    BY <1>1
  <2> QED
    BY <2>2, <2>3, <2>4
<1> QED
  BY <1>4, <1>5, <1>6

(* A step that the channel does not see. *)
LEMMA Unseen ==
  ASSUME UNCHANGED <<logs, out, deposited>>, retired' = retired, handled' = handled
  PROVE  UNCHANGED Channel!cvars
<1>1. backlog' = backlog
  BY DEF backlog
<1> QED
  BY <1>1 DEF Channel!cvars

(* The logger starts as an empty channel. *)
LEMMA ChannelInit == Init => Channel!Init
<1> SUFFICES ASSUME Init PROVE Channel!Init
  OBVIOUS
<1>1. IInv
  BY InvInit
<1>2. taken = 0 /\ retired = 0
  BY DEF Init, taken, retired, Busy, Reading
<1>3. backlog = <<>>
  BY <1>1, <1>2, BacklogIs
<1>4. handled = {}
  BY DEF Init, handled
<1> QED
  BY <1>3, <1>4 DEF Init, Channel!Init

(* Adding a log is that step of the channel. *)
LEMMA ChannelAddLog ==
  ASSUME IInv, NEW level \in LogLevels, AddLog(level)
  PROVE  Channel!Next
<1>1. /\ logs' = Append(logs, level) /\ out' = Append(out, <<>>)
      /\ wpc = "none" /\ UNCHANGED <<wpc, li, deposited, fetched>>
  BY DEF AddLog, history, IInv, Startup
<1>2. retired' = retired /\ backlog' = backlog
  BY <1>1 DEF retired, backlog
<1>3. handled = {} /\ handled' = {}
  BY <1>1 DEF handled
<1>4. backlog = <<>>
  <2>1. deposited = <<>> /\ ~global
    BY DEF AddLog, IInv, Startup
  <2>2. taken = 0 /\ retired = 0
    BY <2>1, QuietStart DEF taken, IInv
  <2> QED
    BY <2>2, BacklogIs
<1>5. level \in Levels
  BY LevelsAssumption
<1> QED
  BY <1>1, <1>2, <1>3, <1>4, <1>5 DEF Channel!Next, Channel!Configure

(* Taking a slot is accepting a message. *)
LEMMA ChannelTake ==
  ASSUME IInv, NEW t \in Threads, TakeSlot(t)
  PROVE  Channel!Next
<1>1. /\ pc[t] = "take" /\ deposited' = Append(deposited, arg[t])
      /\ UNCHANGED <<logs, out, wpc, li, fetched>>
  BY DEF TakeSlot, setup, worker
<1>2. /\ arg[t] \in Message /\ deposited \in Seq(Message) /\ retired \in 0..Len(deposited)
      /\ taken = Len(deposited)
  <2>1. woken <= taken /\ (wpc \notin Busy => retired = fetched)
    BY Room DEF IInv, retired
  <2>2. arg[t] \in Message /\ deposited \in Seq(Message) /\ taken = Len(deposited)
    BY DEF IInv, TypeOK, taken
  <2>3. retired \in Nat /\ taken \in Nat /\ retired <= taken
    BY <2>1, Numbers DEF IInv, woken, retired
  <2> QED
    BY <2>2, <2>3
<1>3. retired' = retired /\ handled' = handled
  BY <1>1 DEF retired, handled
<1>4. Len(deposited') = Len(deposited) + 1
  BY <1>1, <1>2
<1>5. backlog' = Append(backlog, arg[t])
  BY <1>1, <1>2, <1>3, <1>4, SubSeqAppend DEF backlog
<1>6. Len(backlog) < Slots
  <2>1. taken - retired <= Slots - 1
    BY <1>1, Room DEF IInv, Claiming
  <2> QED
    BY <2>1, BacklogIs, Numbers
<1> QED
  BY <1>1, <1>2, <1>3, <1>5, <1>6 DEF Channel!Next, Channel!Accept

(* A handler writes the oldest message to its log, or skips it. *)
LEMMA ChannelHandler ==
  ASSUME IInv, DataInv, Handler
  PROVE  Channel!Next
<1>0. TypeOK /\ WorkerLine
  BY DEF IInv, DataInv
<1>1. /\ wpc = "handlers" /\ li <= Len(logs) /\ li' = li + 1
      /\ UNCHANGED <<wpc, logs, deposited, fetched>>
  BY DEF Handler, At, setup, history
<1>2. retired' = retired /\ backlog' = backlog
  BY <1>1 DEF retired, backlog
<1>3. wpc \in Reading
  BY <1>1 DEF Reading
<1>4. /\ slots[cur] = deposited[fetched] /\ fetched \in 1..taken /\ retired = fetched - 1
      /\ taken \in Nat
  BY <1>3, WorkerReads, Numbers
<1>5. backlog # <<>> /\ Head(backlog) = slots[cur] /\ Head(backlog) = buf
  <2>1. retired < taken /\ retired + 1 = fetched
    BY <1>4
  <2> QED
    BY <2>1, <1>0, <1>1, <1>4, BacklogIs DEF WorkerLine
<1>6. li \in DOMAIN logs /\ li \in Nat \ {0}
  BY <1>0, <1>1 DEF TypeOK
<1>7. li \notin handled /\ handled' = handled \cup {li}
  <2>1. handled = 1..li-1 /\ handled' = 1..li
    BY <1>1, <1>6 DEF handled
  <2> QED
    BY <2>1, <1>6
<1>8. slots[cur].level \in Nat /\ logs[li] \in Nat
  <2>1. slots[cur] \in Message
    BY <1>0 DEF TypeOK
  <2>2. logs \in Seq(Levels) /\ li \in 1..Len(logs)
    BY <1>0, <1>1, <1>6 DEF TypeOK
  <2>3. logs[li] \in Levels
    BY <2>2
  <2> QED
    BY <2>1, <2>3 DEF Message, Levels
<1>9. \/ slots[cur].level <= logs[li] /\ out' = [out EXCEPT ![li] = Append(@, buf)]
      \/ (WriteFails \/ ~(slots[cur].level <= logs[li])) /\ out' = out
  <2>1. CASE Skip
    BY <2>1, <1>8 DEF Skip
  <2>2. CASE Write
    BY <2>2 DEF Write
  <2>3. CASE WriteError
    BY <2>3 DEF WriteError
  <2> QED
    BY <2>1, <2>2, <2>3 DEF Handler
<1>10. Channel!Handle(li)
  BY <1>1, <1>2, <1>5, <1>7, <1>9 DEF Channel!Handle, Channel!Wants
<1> QED
  BY <1>6, <1>10 DEF Channel!Next

(* Giving the slot back retires the oldest message. *)
LEMMA ChannelPostEmpty ==
  ASSUME IInv, PostEmpty
  PROVE  Channel!Next
<1>1. /\ wpc = "post_empty" /\ wpc' = "wait_full" /\ UNCHANGED <<logs, out, deposited, fetched>>
  BY DEF PostEmpty, At, setup, history
<1>2. /\ fetched = retired + 1 /\ fetched <= taken /\ retired \in Nat /\ taken \in Nat
      /\ filled \in Int
  BY <1>1, Numbers DEF Busy
<1>3. retired' = retired + 1
  BY <1>1, <1>2 DEF retired, Busy, Reading
<1>4. backlog # <<>> /\ Tail(backlog) = SubSeq(deposited, retired + 2, taken)
  BY <1>2, BacklogIs
<1>5. backlog' = Tail(backlog)
  <2>1. retired' + 1 = retired + 2
    BY <1>2, <1>3
  <2> QED
    BY <2>1, <1>1, <1>4 DEF backlog, taken
<1>6. handled = DOMAIN logs /\ handled' = {}
  BY <1>1 DEF handled, IInv, TypeOK
<1> QED
  BY <1>1, <1>4, <1>5, <1>6 DEF Channel!Next, Channel!Retire

(* Every step of the logger is a step of the channel or unseen by it. *)
LEMMA ChannelStep == IInv /\ DataInv /\ [Next]_vars => [Channel!Next]_Channel!cvars
<1> SUFFICES ASSUME IInv, DataInv, [Next]_vars PROVE Channel!Next \/ UNCHANGED Channel!cvars
  OBVIOUS
<1>0. TypeOK /\ Startup /\ FullAccount /\ WorkerLine
  BY DEF IInv, DataInv
<1>1. CASE Setup
  <2>1. CASE BecomeDaemon
    <3>1. retired = 0 /\ fetched = 0 /\ wpc \notin Busy
      BY <2>1, <1>0, QuietStart DEF BecomeDaemon, Startup
    <3>2. retired' = retired /\ handled' = handled
      BY <2>1, <3>1 DEF BecomeDaemon, retired, handled, Busy, Reading, history
    <3> QED
      BY <2>1, <3>2, Unseen DEF BecomeDaemon, history
  <2>2. CASE Start \/ SetGlobal
    <3>1. wpc' = wpc \/ (wpc = "none" /\ wpc' = "sleep")
      BY <2>2, <1>0 DEF Start, SetGlobal, worker, Startup
    <3>2. UNCHANGED <<logs, out, deposited, fetched, li>>
      BY <2>2 DEF Start, SetGlobal, worker, history
    <3>3. retired' = retired /\ handled' = handled
      BY <3>1, <3>2 DEF retired, handled, Busy, Reading
    <3> QED
      BY <3>2, <3>3, Unseen
  <2>3. CASE \E level \in LogLevels : AddLog(level)
    BY <2>3, ChannelAddLog
  <2> QED
    BY <1>1, <2>1, <2>2, <2>3 DEF Setup
<1>2. ASSUME NEW t \in Callers, AddLogRefused(t) \/ \E level \in CallLevels : Log(t, level)
      PROVE  UNCHANGED Channel!cvars
  <2>1. UNCHANGED <<logs, out, deposited, fetched, li, wpc>>
    BY <1>2 DEF AddLogRefused, Log, setup, worker, history
  <2> QED
    BY <2>1, Unseen DEF retired, handled
<1>3. ASSUME NEW t \in Threads, LogErrorStep(t)
      PROVE  Channel!Next \/ UNCHANGED Channel!cvars
  <2>1. CASE TakeSlot(t)
    BY <2>1, ChannelTake
  <2>2. CASE ~TakeSlot(t)
    <3>1. UNCHANGED <<logs, out, deposited, fetched, li, wpc>>
      BY <1>3, <2>2
      DEF LogErrorStep, WaitEmpty, LockDeposit, FillStr, FillLevel, UnlockDeposit, PostFull,
          setup, worker, history
    <3> QED
      BY <3>1, Unseen DEF retired, handled
  <2> QED
    BY <2>1, <2>2
<1>4. CASE WorkerStep
  <2>1. CASE WorkerStarted \/ WaitFull \/ LockFetch
    <3>1. /\ UNCHANGED <<logs, out, deposited, fetched>>
          /\ wpc \in {"sleep", "wait_full", "lock_fetch"}
          /\ wpc' \in {"wait_full", "lock_fetch", "fetch"}
      BY <2>1 DEF WorkerStarted, WaitFull, LockFetch, At, setup, history
    <3> QED
      BY <3>1, Unseen DEF retired, handled, Busy, Reading
  <2>2. CASE Fetch
    <3>1. /\ UNCHANGED <<logs, out, deposited>> /\ fetched' = fetched + 1
          /\ wpc = "fetch" /\ wpc' = "format" /\ fetched \in Nat
      BY <2>2, <1>0 DEF Fetch, At, setup, TypeOK
    <3> QED
      BY <3>1, Unseen DEF retired, handled, Busy, Reading
  <2>3. CASE Format
    <3>1. /\ UNCHANGED <<logs, out, deposited, fetched>> /\ li' = 1
          /\ wpc = "format" /\ wpc' = "handlers"
      BY <2>3 DEF Format, At, setup, history
    <3>2. handled = {} /\ handled' = {}
      BY <3>1 DEF handled
    <3> QED
      BY <3>1, <3>2, Unseen DEF retired, Busy, Reading
  <2>4. CASE Handler
    BY <2>4, ChannelHandler
  <2>5. CASE UnlockFetch
    <3>1. /\ UNCHANGED <<logs, out, deposited, fetched>> /\ li > Len(logs)
          /\ wpc = "handlers" /\ wpc' = "post_empty"
      BY <2>5 DEF UnlockFetch, At, setup, history
    <3>2. li - 1 = Len(logs)
      BY <3>1, <1>0 DEF WorkerLine, TypeOK
    <3>3. handled' = handled
      BY <3>1, <3>2 DEF handled
    <3> QED
      BY <3>1, <3>3, Unseen DEF retired, Busy, Reading
  <2>6. CASE PostEmpty
    BY <2>6, ChannelPostEmpty
  <2> QED
    BY <1>4, <2>1, <2>2, <2>3, <2>4, <2>5, <2>6 DEF WorkerStep
<1>5. CASE Finished \/ UNCHANGED vars
  <2>1. UNCHANGED <<logs, out, deposited, fetched, li, wpc>>
    BY <1>5 DEF Finished, vars, setup, worker, history
  <2> QED
    BY <2>1, Unseen DEF retired, handled
<1> QED
  BY <1>1, <1>2, <1>3, <1>4, <1>5 DEF Next

(* The logger of log.c implements a bounded FIFO channel: each log gets    *)
(* the messages it is configured for, whole, once, in the order they were  *)
(* accepted, and at most Slots of them wait.                               *)
THEOREM LoggerIsChannel == Spec => ImplementsChannel
  BY DataInvariance, ChannelInit, ChannelStep, PTL DEF Spec, ImplementsChannel, Channel!Spec
=============================================================================
