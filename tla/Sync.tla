-------------------------------- MODULE Sync --------------------------------
(***************************************************************************)
(* The synchronisation primitives of src/src/system/sync, POSIX build.     *)
(* Every operator is an action on the variable it is given; the caller     *)
(* frames the rest of the state.  The error paths of the wrappers need an  *)
(* invalid handle or an interrupting signal handler; the program passes    *)
(* only initialised handles and installs no handler, so they are left out. *)
(***************************************************************************)
EXTENDS Naturals

(* sem_wait blocks while the value is zero. *)
fpx_semaphore_wait(sem) == sem > 0 /\ sem' = sem - 1

fpx_semaphore_post(sem) == sem' = sem + 1

(* A plain mutex, as the logger makes them (FPX_MUTEX_SHARED alone): its   *)
(* state is the thread that holds it, or `free'.                           *)
fpx_mutex_lock(mutex, t, free) == mutex = free /\ mutex' = t

fpx_mutex_unlock(mutex, t, free) == mutex = t /\ mutex' = free

(* A recursive mutex, as the pool makes it (FPX_MUTEX_RECURSIVE).  To      *)
(* unlock one that another thread holds, or nobody, changes nothing and    *)
(* fails with an error that the pool ignores.                              *)
fpx_mutex_lock_recursive(mutex, t, free) ==
  /\ mutex.holder \in {t, free}
  /\ mutex' = [holder |-> t, depth |-> mutex.depth + 1]

fpx_mutex_unlock_recursive_Unchecked(mutex, t, free) ==
  mutex' = [holder |-> IF mutex.depth = 1 THEN free ELSE mutex.holder,
            depth |-> mutex.depth - 1]

fpx_mutex_unlock_recursive_Anyone(mutex, t, free) ==
  mutex' = [holder |-> free, depth |-> 0]

fpx_mutex_unlock_recursive(mutex, t, free) ==
  mutex' = CASE mutex.holder # t -> mutex
             [] mutex.holder = t /\ mutex.depth = 1 -> [holder |-> free, depth |-> 0]
             [] OTHER -> [mutex EXCEPT !.depth = @ - 1]

=============================================================================
