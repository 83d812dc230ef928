------------------------------- MODULE Logger -------------------------------
(***************************************************************************)
(* The asynchronous logger of src/src/core/log.c: program threads deposit  *)
(* messages in a ring of slots (fpx_log_error) and one worker thread takes *)
(* them out and writes them to every log (fpx_logger_worker).              *)
(*                                                                         *)
(* One action is one step between two points where another thread may      *)
(* run.  Main's start-up order (config, fpx_logger_start, daemon, global)  *)
(* is the one of fpx_core_init and main.                                   *)
(*                                                                         *)
(* A definition Name_Fault is Name with a fault put in; PROJECT.json tells *)
(* which property each of them breaks.  The specification uses none.       *)
(***************************************************************************)
EXTENDS Naturals, Sequences, FiniteSets, Sync

CONSTANTS
  Callers,      \* program threads that log, the one that runs main() included
  Worker,       \* the logger's thread
  NoThread,     \* the holder of a free mutex
  Slots,        \* FPX_MAX_LOG_SLOTS
  DaemonModes,  \* possible values of server->daemon: fork after fpx_logger_start
  WriteFails,   \* whether write(2) may fail on a log
  CallLevels,   \* levels the program logs at
  LogLevels,    \* levels configured for logs
  MaxLogs,      \* bound: logs configured
  MaxCalls,     \* bound: messages each caller logs
  MaxErrors     \* bound: messages the worker itself has logged when a write fails

Threads == Callers \cup {Worker}

FPX_LOG_ERROR == 1
FPX_LOG_DEBUG == 4
Levels == 0..4

ASSUME ThreadsAssumption ==
  /\ IsFiniteSet(Callers)
  /\ Worker \notin Callers
  /\ NoThread \notin Threads
ASSUME SlotsAssumption == Slots \in Nat \ {0}
ASSUME LevelsAssumption == CallLevels \subseteq Levels /\ LogLevels \subseteq Levels
ASSUME FlagsAssumption ==
  DaemonModes \subseteq BOOLEAN /\ WriteFails \in BOOLEAN
ASSUME BoundsAssumption == MaxLogs \in Nat /\ MaxCalls \in Nat /\ MaxErrors \in Nat

VARIABLES
  phase,        \* how far main() has come
  running,      \* logger->running
  global,       \* whether fpx_logger_global is set
  logs,         \* logger->logs: the level of each log, in list order
  slots,        \* logger->messages: text and level of each slot
  front, rear,  \* logger->front, logger->rear
  semEmpty, semFull,
  mutexDeposit, mutexFetch,
  pc,           \* where each thread is inside fpx_log_error
  arg,          \* the message that call logs
  slot,         \* its `message' pointer
  wpc,          \* where the worker is in fpx_logger_worker
  cur,          \* the worker's `message' pointer
  buf,          \* the worker's formatted line
  li,           \* the log the worker's foreach has come to
  calls,        \* messages each thread has begun to log
  out,          \* what each log holds
  deposited,    \* history: messages in the order they got a slot
  fetched       \* history: how many of them the worker has taken

setup == <<phase, running, global, logs>>
ring == <<slots, front, rear>>
sync == <<semEmpty, semFull, mutexDeposit, mutexFetch>>
caller == <<pc, arg, slot, calls>>
worker == <<wpc, cur, buf, li, out>>
history == <<deposited, fetched>>
vars == <<setup, ring, sync, caller, worker, history>>

(* A message: its text, named by who logged it and when, and its level.    *)
(* The worker logs its start-up message and at most MaxErrors others.      *)
MaxOwnCalls == MaxCalls + MaxErrors + 1
Message == [str : Threads \X (0..MaxOwnCalls), level : Levels]

(* The content of a slot nobody has filled: the array is not cleared. *)
Garbage == [str |-> <<Worker, 0>>, level |-> 0]

NextSlot_NoWrap(i) == i + 1

NextSlot(i) == (i + 1) % Slots

Init ==
  /\ phase = "config" /\ running = FALSE /\ global = FALSE /\ logs = <<>>
  /\ slots = [i \in 0..Slots-1 |-> Garbage] /\ front = 0 /\ rear = 0
  /\ semEmpty = Slots /\ semFull = 0
  /\ mutexDeposit = NoThread /\ mutexFetch = NoThread
  /\ pc = [t \in Threads |-> "idle"]
  /\ arg = [t \in Threads |-> Garbage]
  /\ slot = [t \in Threads |-> 0]
  /\ calls = [t \in Threads |-> 0]
  /\ wpc = "none" /\ cur = 0 /\ buf = Garbage /\ li = 1 /\ out = <<>>
  /\ deposited = <<>> /\ fetched = 0

-----------------------------------------------------------------------------
(* Start-up, run by Main. *)

(* fpx_logger_add_log_fd and fpx_logger_add_log_file before the start. *)
AddLog(level) ==
  /\ phase = "config" /\ ~running
  /\ Len(logs) < MaxLogs
  /\ logs' = Append(logs, level)
  /\ out' = Append(out, <<>>)
  /\ UNCHANGED <<phase, running, global, ring, sync, caller, history>>
  /\ UNCHANGED <<wpc, cur, buf, li>>

(* fpx_logger_start: `running' is set before anything can fail. *)
Start ==
  /\ phase = "config"
  /\ running' = TRUE
  /\ \/ phase' = "started" /\ wpc' = "sleep"
     \/ phase' = "exit" /\ UNCHANGED wpc
  /\ UNCHANGED <<global, logs, ring, sync, caller, history>>
  /\ UNCHANGED <<cur, buf, li, out>>

(* fpx_process_become_daemon: the surviving process is a fork of Main,     *)
(* which has no worker thread.  If the fork fails main exits.              *)
BecomeDaemon ==
  /\ phase = "started" /\ TRUE \in DaemonModes
  /\ phase' \in {"daemon", "exit"}
  /\ wpc' = "none"
  /\ UNCHANGED <<running, global, logs, ring, sync, caller, history>>
  /\ UNCHANGED <<cur, buf, li, out>>

(* fpx_logger_set_global; the server cycle follows.  Main sleeps 500 ms    *)
(* after the start and the worker 1000 ms, and nothing else orders them:   *)
(* the logger becomes global before or after the worker wakes.             *)
SetGlobal ==
  /\ phase = "daemon" \/ (phase = "started" /\ FALSE \in DaemonModes)
  /\ phase' = "cycle"
  /\ global' = TRUE
  /\ UNCHANGED <<running, logs, ring, sync, caller, worker, history>>

-----------------------------------------------------------------------------
(* fpx_log_error, run by any thread. *)

(* The thread enters the call; the macros come here once `global' is set. *)
CallLogError(t, level) ==
  /\ pc[t] = "idle"
  /\ pc' = [pc EXCEPT ![t] = "wait_empty"]
  /\ calls' = [calls EXCEPT ![t] = @ + 1]
  /\ arg' = [arg EXCEPT ![t] = [str |-> <<t, calls[t] + 1>>, level |-> level]]
  /\ UNCHANGED slot

Log(t, level) ==
  /\ global /\ calls[t] < MaxCalls
  /\ CallLogError(t, level)
  /\ UNCHANGED <<setup, ring, sync, worker, history>>

(* fpx_logger_add_log_* on a running logger: refused, with an error logged. *)
AddLogRefused(t) ==
  /\ running
  /\ Log(t, FPX_LOG_ERROR)

WaitEmpty_NoWait(t) ==
  /\ pc[t] = "wait_empty"
  /\ pc' = [pc EXCEPT ![t] = "lock_deposit"]
  /\ UNCHANGED <<sync, arg, slot, calls, setup, ring, worker, history>>

WaitEmpty(t) ==
  /\ pc[t] = "wait_empty"
  /\ fpx_semaphore_wait(semEmpty)
  /\ pc' = [pc EXCEPT ![t] = "lock_deposit"]
  /\ UNCHANGED <<semFull, mutexDeposit, mutexFetch, arg, slot, calls>>
  /\ UNCHANGED <<setup, ring, worker, history>>

LockDeposit_NoWait(t) ==
  /\ pc[t] = "lock_deposit"
  /\ mutexDeposit' = t
  /\ pc' = [pc EXCEPT ![t] = "take"]
  /\ UNCHANGED <<semEmpty, semFull, mutexFetch, arg, slot, calls>>
  /\ UNCHANGED <<setup, ring, worker, history>>

LockDeposit(t) ==
  /\ pc[t] = "lock_deposit"
  /\ fpx_mutex_lock(mutexDeposit, t, NoThread)
  /\ pc' = [pc EXCEPT ![t] = "take"]
  /\ UNCHANGED <<semEmpty, semFull, mutexFetch, arg, slot, calls>>
  /\ UNCHANGED <<setup, ring, worker, history>>

TakeSlot(t) ==
  /\ pc[t] = "take"
  /\ slot' = [slot EXCEPT ![t] = rear]
  /\ rear' = NextSlot(rear)
  /\ deposited' = Append(deposited, arg[t])
  /\ pc' = [pc EXCEPT ![t] = "fill_str"]
  /\ UNCHANGED <<slots, front, arg, calls, fetched, setup, sync, worker>>

(* The text and the level are separate writes to the slot. *)
FillStr(t) ==
  /\ pc[t] = "fill_str"
  /\ slots' = [slots EXCEPT ![slot[t]].str = arg[t].str]
  /\ pc' = [pc EXCEPT ![t] = "fill_level"]
  /\ UNCHANGED <<front, rear, arg, slot, calls, setup, sync, worker, history>>

FillLevel(t) ==
  /\ pc[t] = "fill_level"
  /\ slots' = [slots EXCEPT ![slot[t]].level = arg[t].level]
  /\ pc' = [pc EXCEPT ![t] = "unlock_deposit"]
  /\ UNCHANGED <<front, rear, arg, slot, calls, setup, sync, worker, history>>

UnlockDeposit(t) ==
  /\ pc[t] = "unlock_deposit"
  /\ fpx_mutex_unlock(mutexDeposit, t, NoThread)
  /\ pc' = [pc EXCEPT ![t] = "post_full"]
  /\ UNCHANGED <<semEmpty, semFull, mutexFetch, arg, slot, calls>>
  /\ UNCHANGED <<setup, ring, worker, history>>

PostFull_Missing(t) ==
  /\ pc[t] = "post_full"
  /\ pc' = [pc EXCEPT ![t] = "idle"]
  /\ UNCHANGED <<sync, arg, slot, calls, setup, ring, worker, history>>

PostFull(t) ==
  /\ pc[t] = "post_full"
  /\ fpx_semaphore_post(semFull)
  /\ pc' = [pc EXCEPT ![t] = "idle"]
  /\ UNCHANGED <<semEmpty, mutexDeposit, mutexFetch, arg, slot, calls>>
  /\ UNCHANGED <<setup, ring, worker, history>>

LogErrorStep(t) ==
  \/ WaitEmpty(t) \/ LockDeposit(t) \/ TakeSlot(t) \/ FillStr(t)
  \/ FillLevel(t) \/ UnlockDeposit(t) \/ PostFull(t)

-----------------------------------------------------------------------------
(* fpx_logger_worker.  The worker is in its own code when it is not inside *)
(* a call of fpx_log_error.                                                *)

At(where) == wpc = where /\ pc[Worker] = "idle"

(* The start-up delay is over: the debug message goes to the global logger *)
(* if main has set it by then.                                             *)
WorkerStarted ==
  /\ At("sleep")
  /\ wpc' = "wait_full"
  /\ IF global THEN CallLogError(Worker, FPX_LOG_DEBUG) ELSE UNCHANGED caller
  /\ UNCHANGED <<cur, buf, li, out, setup, ring, sync, history>>

WaitFull ==
  /\ At("wait_full")
  /\ fpx_semaphore_wait(semFull)
  /\ wpc' = "lock_fetch"
  /\ UNCHANGED <<semEmpty, mutexDeposit, mutexFetch, cur, buf, li, out>>
  /\ UNCHANGED <<setup, ring, caller, history>>

LockFetch ==
  /\ At("lock_fetch")
  /\ fpx_mutex_lock(mutexFetch, Worker, NoThread)
  /\ wpc' = "fetch"
  /\ UNCHANGED <<semEmpty, semFull, mutexDeposit, cur, buf, li, out>>
  /\ UNCHANGED <<setup, ring, caller, history>>

Fetch ==
  /\ At("fetch")
  /\ cur' = front
  /\ front' = NextSlot(front)
  /\ fetched' = fetched + 1
  /\ wpc' = "format"
  /\ UNCHANGED <<slots, rear, buf, li, out, deposited, setup, sync, caller>>

Format ==
  /\ At("format")
  /\ buf' = slots[cur]
  /\ li' = 1
  /\ wpc' = "handlers"
  /\ UNCHANGED <<cur, out, setup, ring, sync, caller, history>>

(* log->handler: fpx_write_to_log re-reads the level in the slot.  A write *)
(* that fails is reported by fpx_write_fd through the global logger, that  *)
(* is, by the worker to itself.                                            *)
Skip ==
  /\ slots[cur].level > logs[li]
  /\ UNCHANGED <<out, caller>>

Write_Unfiltered ==
  /\ out' = [out EXCEPT ![li] = Append(@, buf)]
  /\ UNCHANGED caller

Write ==
  /\ slots[cur].level <= logs[li]
  /\ out' = [out EXCEPT ![li] = Append(@, buf)]
  /\ UNCHANGED caller

WriteError ==
  /\ slots[cur].level <= logs[li]
  /\ WriteFails /\ calls[Worker] < MaxErrors
  /\ CallLogError(Worker, FPX_LOG_ERROR)
  /\ UNCHANGED out

Handler ==
  /\ At("handlers") /\ li <= Len(logs)
  /\ li' = li + 1
  /\ Skip \/ Write \/ WriteError
  /\ UNCHANGED <<wpc, cur, buf, setup, ring, sync, history>>

UnlockFetch ==
  /\ At("handlers") /\ li > Len(logs)
  /\ fpx_mutex_unlock(mutexFetch, Worker, NoThread)
  /\ wpc' = "post_empty"
  /\ UNCHANGED <<semEmpty, semFull, mutexDeposit, cur, buf, li, out>>
  /\ UNCHANGED <<setup, ring, caller, history>>

PostEmpty_Missing ==
  /\ At("post_empty")
  /\ wpc' = "wait_full"
  /\ UNCHANGED <<sync, cur, buf, li, out, setup, ring, caller, history>>

PostEmpty ==
  /\ At("post_empty")
  /\ fpx_semaphore_post(semEmpty)
  /\ wpc' = "wait_full"
  /\ UNCHANGED <<semFull, mutexDeposit, mutexFetch, cur, buf, li, out>>
  /\ UNCHANGED <<setup, ring, caller, history>>

WorkerStep ==
  \/ WorkerStarted \/ WaitFull \/ LockFetch \/ Fetch \/ Format \/ Handler
  \/ UnlockFetch \/ PostEmpty

(* Nothing is left to do: the server exited, or every call of the bounded  *)
(* program returned and the worker waits for another.                      *)
Finished ==
  /\ \/ phase = "exit"
     \/ /\ phase = "cycle"
        /\ \A t \in Callers : pc[t] = "idle" /\ calls[t] = MaxCalls
        /\ At("wait_full") /\ semFull = 0
  /\ UNCHANGED vars

-----------------------------------------------------------------------------
Setup == Start \/ BecomeDaemon \/ SetGlobal \/ \E level \in LogLevels : AddLog(level)

Next ==
  \/ Setup
  \/ \E t \in Callers : AddLogRefused(t) \/ \E level \in CallLevels : Log(t, level)
  \/ \E t \in Threads : LogErrorStep(t)
  \/ WorkerStep
  \/ Finished

Spec == Init /\ [][Next]_vars

(* The scheduler lets every thread run, and main goes through start-up.    *)
(* Calls are the program's choice and get no fairness.  Weak fairness is   *)
(* enough for the semaphores and mutexes while calls are bounded.          *)
Fairness ==
  /\ WF_vars(Start) /\ WF_vars(BecomeDaemon) /\ WF_vars(SetGlobal)
  /\ \A t \in Threads : WF_vars(LogErrorStep(t))
  /\ WF_vars(WorkerStep)

FairSpec == Spec /\ Fairness

-----------------------------------------------------------------------------
(* Properties *)

Filling == {"fill_str", "fill_level"}
Owning == {"take"} \cup Filling \cup {"unlock_deposit"}
Reading == {"format", "handlers"}
Fetching == Reading \cup {"fetch"}
Busy == Reading \cup {"post_empty"}

(* The types of the variables. *)
TypeOK ==
  /\ phase \in {"config", "started", "daemon", "cycle", "exit"}
  /\ running \in BOOLEAN /\ global \in BOOLEAN
  /\ logs \in Seq(Levels)
  /\ slots \in [0..Slots-1 -> Message]
  /\ front \in 0..Slots-1 /\ rear \in 0..Slots-1
  /\ semEmpty \in Nat /\ semFull \in Nat
  /\ mutexDeposit \in Threads \cup {NoThread}
  /\ mutexFetch \in {Worker, NoThread}
  /\ pc \in [Threads -> {"idle", "wait_empty", "lock_deposit", "post_full"} \cup Owning]
  /\ arg \in [Threads -> Message]
  /\ slot \in [Threads -> 0..Slots-1]
  /\ calls \in [Threads -> 0..MaxOwnCalls]
  /\ wpc \in {"none", "sleep", "wait_full", "lock_fetch"} \cup Fetching \cup Busy
  /\ cur \in 0..Slots-1 /\ buf \in Message /\ li \in Nat \ {0}
  /\ out \in Seq(Seq(Message)) /\ Len(out) = Len(logs)
  /\ deposited \in Seq(Message) /\ fetched \in Nat

(* No thread fills the slot the worker is reading (log.c:437-454 against   *)
(* 126-132): the two mutexes differ, so only the semaphores keep them      *)
(* apart.                                                                  *)
NoTornRead ==
  \A t \in Threads : pc[t] \in Filling /\ wpc \in Reading => slot[t] # cur

(* Messages the worker has given back the slot of. *)
retired == IF wpc \in Busy THEN fetched - 1 ELSE fetched

(* Messages that are wholly in their slots. *)
filled == IF \E t \in Threads : pc[t] \in Filling
            THEN Len(deposited) - 1 ELSE Len(deposited)

(* Every message that has been filled in and whose slot is not yet given   *)
(* back is whole, in its slot: a full ring never overwrites (log.c:429),   *)
(* whatever order the threads post sem_full in.                            *)
BacklogIntact ==
  \A k \in retired+1 .. filled : slots[(k - 1) % Slots] = deposited[k]

(* Each slot is counted exactly once: as a token of sem_empty, as a token  *)
(* of sem_full, in the hands of a thread inside fpx_log_error, or in the   *)
(* hands of the worker.                                                    *)
SlotsConserved ==
  semEmpty + semFull
    + Cardinality({t \in Threads : pc[t] \notin {"idle", "wait_empty"}})
    + (IF wpc \in Busy \cup {"lock_fetch", "fetch"} THEN 1 ELSE 0) = Slots

(* Accepted messages that are not retired; logs that have handled the      *)
(* oldest of them.                                                         *)
backlog == SubSeq(deposited, retired + 1, Len(deposited))

handled == CASE wpc = "handlers" -> 1..li-1
             [] wpc = "post_empty" -> 1..Len(logs)
             [] OTHER -> {}

(* The logger implements the bounded channel of LogChannel: every log gets *)
(* the messages it is configured for, whole, once and in the order they    *)
(* were accepted, and only a failed write drops one.                       *)
Channel == INSTANCE LogChannel WITH
  Capacity <- Slots, Lossy <- WriteFails, levels <- logs, written <- out,
  queue <- backlog, done <- handled

ImplementsChannel == Channel!Spec

(* A call of fpx_log_error returns: the wait is one for "available log     *)
(* slot" (log.c:429-431).  The code does not give this: see the next two.  *)
CallsReturn == \A t \in Threads : pc[t] # "idle" ~> pc[t] = "idle"

(* Every message that gets a slot is taken through all the logs.  The fork *)
(* of the daemon breaks this (server.c:233).                               *)
EveryMessageWritten ==
  \A k \in 1 .. Cardinality(Callers) * MaxCalls + 1 + MaxErrors :
    Len(deposited) >= k ~> retired >= k

(* The worker waits for a slot of a full ring that only it can empty: its  *)
(* start-up message (log.c:114) or the report of a failed write            *)
(* (filesys.c:228) found no slot.  Only the worker posts sem_empty, so     *)
(* this state is never left.                                               *)
WorkerBlocked == pc[Worker] = "wait_empty" /\ semEmpty = 0

(* Nothing but the worker's wait for itself keeps a call from returning:   *)
(* not the order in which threads get the slots, the mutex and their turn  *)
(* to post, a full ring, a failed write or a start-up in either order.     *)
CallsReturnUnlessBlocked ==
  \A t \in Threads : pc[t] # "idle" ~> pc[t] = "idle" \/ WorkerBlocked

(* Likewise nothing else keeps an accepted message from going through all  *)
(* the logs, as long as the server does not become a daemon.               *)
WrittenUnlessBlocked ==
  \A k \in 1 .. Cardinality(Callers) * MaxCalls + 1 + MaxErrors :
    Len(deposited) >= k ~> retired >= k \/ WorkerBlocked
=============================================================================
