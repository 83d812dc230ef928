---------------------------- MODULE ListenProofs ----------------------------
(***************************************************************************)
(* Proofs about Listen for every number of listeners, connections,         *)
(* descriptors, addresses and attempts.                                    *)
(***************************************************************************)
EXTENDS Listen, TLAPS

(* fpx_core_init has not come to its end. *)
Early == pc \notin {"serve", "destroyed"}

(* While fpx_core_init runs: the listeners before cur are done, the ones   *)
(* after it untouched, and there is no connection yet.                     *)
Order ==
    /\ Early => cpool = {} /\ registered = 1..(cur - 1)
    /\ Early => \A l \in 1..N : l > cur => lfd[l] = FPX_INVALID_SOCKET
    /\ Early => \A l \in 1..(cur - 1) :
                    lfd[l] # FPX_INVALID_SOCKET /\ table[lfd[l]].flags = Flags
    /\ Early /\ pc \notin {"listen", "exit"} => lfd[cur] = FPX_INVALID_SOCKET

(* How far the socket of the listener cur is; a number left over from the  *)
(* address before is free.                                                 *)
Stage ==
    /\ pc \in {"nopush", "nonblocking"} => table[fd].flags = {}
    /\ pc = "bind" => table[fd].flags = {"nonblocking"}
    /\ pc = "getsockname" => table[fd].flags = {"nonblocking", "bound"}
    /\ pc = "listen" /\ lfd[cur] # FPX_INVALID_SOCKET
         => table[lfd[cur]].flags = {"nonblocking", "bound"}
    /\ pc = "socket" /\ fd # FPX_INVALID_SOCKET => table[fd] = Free
    /\ pc \in {"socket", "nopush", "nonblocking", "bind"} => left >= 1

(* A connection that is not initialised holds nothing. *)
Unused == \A c \in Conns : c \notin cpool => cfd[c] = FPX_INVALID_SOCKET

IInv == TypeOK /\ HandlesTrue /\ NoneLost /\ Order /\ Stage /\ Unused

-----------------------------------------------------------------------------
(* The owners of descriptors are told apart. *)
LEMMA OwnersDiffer ==
    /\ \A l \in 1..N : Listener(l) # Nobody /\ Listener(l) # Others
    /\ \A c \in Conns : Connection(c) # Nobody /\ Connection(c) # Others
    /\ \A l \in 1..N, c \in Conns : Listener(l) # Connection(c)
    /\ \A l, k \in 1..N : Listener(l) = Listener(k) => l = k
    /\ \A c, d \in Conns : Connection(c) = Connection(d) => c = d
    /\ Others # Nobody
  BY DEF Listener, Connection, Nobody, Others

(* An invalid descriptor is none of the table. *)
LEMMA InvalidIsNone == FPX_INVALID_SOCKET \notin Fds
  BY ListenAssumption DEF FPX_INVALID_SOCKET, Fds

(* The invariant holds at first. *)
LEMMA InvInit == Init => IInv
<1> SUFFICES ASSUME Init PROVE IInv
  OBVIOUS
<1> USE ListenAssumption
<1>1. TypeOK
  <2>1. table \in [Fds -> [by : Owners, flags : SUBSET Flags]]
    BY DEF Init, Owners, Flags, Free
  <2> QED BY <2>1 DEF Init, TypeOK, Handles, Fds
<1>2. HandlesTrue BY DEF Init, HandlesTrue, Binding, Fds
<1>3. NoneLost BY DEF Init, NoneLost, Used, Free
<1>4. Order BY DEF Init, Order, Early
<1>5. Stage BY DEF Init, Stage
<1>6. Unused BY DEF Init, Unused
<1> QED BY <1>1, <1>2, <1>3, <1>4, <1>5, <1>6 DEF IInv

-----------------------------------------------------------------------------
Tables == [Fds -> [by : Owners, flags : SUBSET Flags]]

(* What the system calls make of the table is a table again. *)
LEMMA TableTypes ==
    ASSUME TypeOK
    PROVE  /\ \A d : Closed(d) \in Tables
           /\ \A d \in Fds, b \in Owners, F \in SUBSET Flags : Opened(d, b, F) \in Tables
           /\ \A d : \A f \in Flags : Flagged(d, f) \in Tables
<1> USE DEF Tables
<1>0. table \in Tables BY DEF TypeOK
<1>1. Free \in [by : Owners, flags : SUBSET Flags] BY DEF Free, Owners
<1>2. \A d : Closed(d) \in Tables BY <1>0, <1>1 DEF Closed
<1>3. \A d \in Fds, b \in Owners, F \in SUBSET Flags : Opened(d, b, F) \in Tables
  BY <1>0 DEF Opened
<1>4. \A d : \A f \in Flags : Flagged(d, f) \in Tables
  BY <1>0 DEF Flagged
<1> QED BY <1>2, <1>3, <1>4

(* The bind loop gives up an address: its socket, if there is one, is      *)
(* closed, and the loop is at the next address or fpx_core_init ends.      *)
GiveUp ==
    /\ pc = "socket" \/ Binding
    /\ table' = Closed(fd)
    /\ tries' = 0 /\ left' = left - 1 /\ left >= 1
    /\ \/ pc' = "socket" /\ left' >= 1
       \/ pc' = "exit"
    /\ UNCHANGED <<cur, fd, lfd, cfd, cpool, others, registered>>

(* The second close of a socket that the loop had closed already changes   *)
(* nothing: no descriptor was opened in between.                           *)
LEMMA GivesUp ==
    ASSUME IInv,
           \/ pc = "socket" /\ NextAddress(table)
           \/ pc \in {"nopush", "nonblocking", "bind"} /\ NextAddress(Closed(fd))
    PROVE  GiveUp
<1> USE ListenAssumption, InvalidIsNone
<1>0. TypeOK /\ Stage BY DEF IInv
<1>1. table \in Tables BY <1>0 DEF TypeOK, Tables
<1>2. table = [e \in Fds |-> table[e]] BY <1>1 DEF Tables
<1>3. left \in Nat /\ left >= 1 BY <1>0 DEF TypeOK, Stage
<1>4. table' = Closed(fd)
  <2>1. CASE pc = "socket" /\ NextAddress(table)
    <3>1. table = Closed(fd)
      BY <2>1, <1>0, <1>2 DEF Stage, Closed
    <3>2. CASE fd = FPX_INVALID_SOCKET
      BY <2>1, <3>1, <3>2 DEF NextAddress
    <3>3. CASE fd # FPX_INVALID_SOCKET
      BY <2>1, <3>1, <3>3 DEF NextAddress, Closed
    <3> QED BY <3>2, <3>3
  <2>2. CASE NextAddress(Closed(fd))
    BY <2>2 DEF NextAddress, Closed
  <2> QED BY <2>1, <2>2
<1>5. /\ left' = left - 1 /\ tries' = 0 /\ UNCHANGED <<cur, fd>>
      /\ UNCHANGED <<lfd, cfd, cpool, others, registered>>
      /\ IF left > 1 THEN pc' = "socket" ELSE pc' = "exit"
  BY DEF NextAddress, Goto, connVars, Rest
<1>6. pc = "socket" \/ Binding BY DEF Binding
<1> QED BY <1>3, <1>4, <1>5, <1>6 DEF GiveUp

(* Every failure path of the bind loop keeps the invariant. *)
LEMMA GiveUpStep ==
    ASSUME IInv, GiveUp
    PROVE  IInv'
<1> USE ListenAssumption, InvalidIsNone
<1>0. TypeOK /\ HandlesTrue /\ NoneLost /\ Order /\ Stage /\ Unused BY DEF IInv
<1>a. pc' \in {"socket", "exit"} /\ Early /\ ~Binding' /\ UNCHANGED <<cur, fd, lfd, cfd, cpool, others, registered>>
  BY DEF GiveUp, Early, Binding
<1>b. table \in Tables BY <1>0 DEF TypeOK, Tables
<1>c. \A e \in Fds : table'[e] = IF e = fd THEN Free ELSE table[e]
  BY DEF GiveUp, Closed
<1>d. \A e \in Fds : (\/ e \in others \/ \E l \in 1..N : lfd[l] = e \/ \E c \in Conns : cfd[c] = e) => e # fd
  <2>1. CASE Binding
    <3>1. fd # FPX_INVALID_SOCKET /\ table[fd].by = Listener(cur) /\ lfd[cur] = FPX_INVALID_SOCKET /\ cur \in 1..N
      BY <2>1, <1>0 DEF HandlesTrue, Binding, Order, Early, TypeOK
    <3> QED BY <3>1, <1>0, OwnersDiffer DEF HandlesTrue, TypeOK
  <2>2. CASE pc = "socket"
    <3>1. fd # FPX_INVALID_SOCKET => table[fd].by = Nobody
      BY <2>2, <1>0 DEF Stage, Free
    <3> QED BY <3>1, <1>0, OwnersDiffer DEF HandlesTrue, TypeOK
  <2> QED BY <2>1, <2>2 DEF GiveUp
<1>1. TypeOK'
  <2>1. table' \in Tables BY <1>0, TableTypes DEF GiveUp
  <2> QED BY <2>1, <1>0 DEF TypeOK, Tables, GiveUp
<1>2. HandlesTrue'
  BY <1>0, <1>a, <1>c, <1>d DEF HandlesTrue, TypeOK, Handles
<1>3. NoneLost'
  BY <1>0, <1>a, <1>c, <1>d DEF NoneLost, Used, Free
<1>4. Order'
  <2>1. lfd[cur] = FPX_INVALID_SOCKET BY <1>0 DEF Order, Early, GiveUp, Binding
  <2>2. \A l \in 1..(cur - 1) : lfd'[l] # FPX_INVALID_SOCKET /\ table'[lfd'[l]].flags = Flags
    BY <1>0, <1>a, <1>c, <1>d DEF Order, TypeOK, Handles
  <2> QED BY <2>1, <2>2, <1>0, <1>a DEF Order, Early
<1>5. Stage'
  BY <1>0, <1>a, <1>c DEF Stage, TypeOK, Handles, GiveUp
<1>6. Unused'
  BY <1>0, <1>a DEF Unused
<1> QED BY <1>1, <1>2, <1>3, <1>4, <1>5, <1>6 DEF IInv

-----------------------------------------------------------------------------
(* A system call that changes only the flags of a descriptor. *)
LEMMA FlaggedIs ==
    ASSUME TypeOK
    PROVE  \A d, f : \A e \in Fds :
             /\ Flagged(d, f)[e].by = table[e].by
             /\ Flagged(d, f)[e].flags = IF e = d THEN table[e].flags \cup {f} ELSE table[e].flags
  BY DEF Flagged, TypeOK

(* The bind loop moves on at its descriptor. *)
LEMMA ResolveStep == IInv /\ Resolve => IInv'
<1> SUFFICES ASSUME IInv, Resolve PROVE IInv'
  OBVIOUS
<1> USE ListenAssumption, InvalidIsNone
<1>0. TypeOK /\ HandlesTrue /\ NoneLost /\ Order /\ Stage /\ Unused BY DEF IInv
<1>a. /\ pc = "resolve" /\ pc' \in {"socket", "listen", "exit"} /\ fd' = FPX_INVALID_SOCKET
      /\ tries' = 0 /\ left' \in 0..MaxAddrs /\ (pc' = "socket" => left' >= 1)
      /\ UNCHANGED <<cur, table, lfd, cfd, cpool, others, registered>>
  BY DEF Resolve, Goto, connVars
<1>1. TypeOK' BY <1>0, <1>a DEF TypeOK, Handles
<1>2. HandlesTrue' BY <1>0, <1>a DEF HandlesTrue, Binding
<1>3. NoneLost' BY <1>0, <1>a DEF NoneLost, Used, Binding
<1>4. Order' BY <1>0, <1>a DEF Order, Early
<1>5. Stage' BY <1>0, <1>a DEF Stage, Order, Early
<1>6. Unused' BY <1>0, <1>a DEF Unused
<1> QED BY <1>1, <1>2, <1>3, <1>4, <1>5, <1>6 DEF IInv

(* A descriptor that is given out was held by nobody. *)
LEMMA LowestIsFree ==
    ASSUME TypeOK, HandlesTrue, NEW d \in Fds, IsLowest(d)
    PROVE  /\ \A l \in 1..N : lfd[l] # d
           /\ \A c \in Conns : cfd[c] # d
           /\ d \notin others
           /\ Binding => fd # d
           /\ d # FPX_INVALID_SOCKET
<1>1. cur \in 1..N BY DEF TypeOK
<1> QED BY <1>1, OwnersDiffer, InvalidIsNone DEF HandlesTrue, IsLowest, Used

(* fpx_socket_init keeps the invariant. *)
LEMMA SocketStep == IInv /\ fpx_socket_init => IInv'
<1> SUFFICES ASSUME IInv, fpx_socket_init PROVE IInv'
  OBVIOUS
<1>1. CASE pc = "socket" /\ NextAddress(table)
  BY <1>1, GivesUp, GiveUpStep
<1>2. CASE pc = "socket" /\ ~NextAddress(table)
  <2> USE ListenAssumption, InvalidIsNone
  <2>0. TypeOK /\ HandlesTrue /\ NoneLost /\ Order /\ Stage /\ Unused BY DEF IInv
  <2>a. PICK d \in Fds : /\ IsLowest(d) /\ fd' = d
                         /\ table' = Opened(d, Listener(cur), {})
                         /\ Goto("nopush") /\ UNCHANGED bindVars
    BY <1>2 DEF fpx_socket_init
  <2>b. pc' = "nopush" /\ UNCHANGED <<cur, left, tries, lfd, cfd, cpool, others, registered>>
    BY <2>a DEF Goto, connVars, bindVars
  <2>c. /\ \A l \in 1..N : lfd[l] # d
        /\ \A c \in Conns : cfd[c] # d
        /\ d \notin others
        /\ d # FPX_INVALID_SOCKET
        /\ \A e \in Fds : table'[e] = IF e = d THEN [by |-> Listener(cur), flags |-> {}] ELSE table[e]
    <3>1. \A e \in Fds : Opened(d, Listener(cur), {})[e]
                            = IF e = d THEN [by |-> Listener(cur), flags |-> {}] ELSE table[e]
      BY <2>0 DEF Opened, TypeOK
    <3> QED BY <3>1, <2>0, <2>a, LowestIsFree
  <2>1. TypeOK'
    <3>1. Listener(cur) \in Owners BY <2>0 DEF Owners, TypeOK
    <3>2. table' \in Tables BY <3>1, <2>0, <2>a, TableTypes
    <3> QED BY <3>2, <2>0, <2>a, <2>b DEF TypeOK, Tables, Handles
  <2>2. HandlesTrue' BY <2>0, <2>a, <2>b, <2>c DEF HandlesTrue, Binding, TypeOK, Handles
  <2>3. NoneLost' BY <1>2, <2>0, <2>a, <2>b, <2>c DEF NoneLost, Used, Binding
  <2>4. Order'
    <3>1. Early' /\ Early /\ cur' = cur /\ lfd' = lfd /\ cpool' = cpool /\ registered' = registered
      BY <1>2, <2>b DEF Early
    <3>2. \A l \in 1..(cur - 1) : l \in 1..N /\ lfd[l] # FPX_INVALID_SOCKET /\ table[lfd[l]].flags = Flags
                                 /\ lfd[l] \in Fds
      BY <2>0, <3>1 DEF Order, TypeOK, Handles
    <3>3. \A l \in 1..(cur - 1) : lfd[l] # FPX_INVALID_SOCKET /\ table'[lfd[l]].flags = Flags
      BY <2>c, <3>2
    <3>4. lfd[cur] = FPX_INVALID_SOCKET
      BY <1>2, <2>0, <3>1 DEF Order
    <3> QED
      BY <2>0, <3>1, <3>3, <3>4 DEF Order
  <2>5. Stage' BY <1>2, <2>0, <2>a, <2>b, <2>c DEF Stage
  <2>6. Unused' BY <2>0, <2>b DEF Unused
  <2> QED BY <2>1, <2>2, <2>3, <2>4, <2>5, <2>6 DEF IInv
<1> QED BY <1>1, <1>2 DEF fpx_socket_init

(* Steps of the bind loop that keep its descriptor: the flags of the       *)
(* descriptor grow, or nothing of the table changes.                       *)
LEMMA OnWithSocket ==
    ASSUME IInv, Binding, pc' \in {"nonblocking", "bind", "getsockname"},
           tries' \in 0..(FPX_MAX_BIND_ATTEMPTS - 1),
           table' \in Tables,
           \A e \in Fds : e # fd => table'[e] = table[e],
           table'[fd].by = table[fd].by,
           pc' = "nonblocking" => table'[fd].flags = {},
           pc' = "bind" => table'[fd].flags = {"nonblocking"},
           pc' = "getsockname" => table'[fd].flags = {"nonblocking", "bound"},
           pc # "getsockname",
           UNCHANGED <<cur, left, fd, lfd, cfd, cpool, others, registered>>
    PROVE  IInv'
<1> USE ListenAssumption, InvalidIsNone
<1>0. TypeOK /\ HandlesTrue /\ NoneLost /\ Order /\ Stage /\ Unused BY DEF IInv
<1>a. /\ fd \in Fds /\ cur \in 1..N /\ Early /\ Binding' /\ Early'
      /\ lfd[cur] = FPX_INVALID_SOCKET /\ table[fd].by = Listener(cur)
      /\ pc \notin {"listen", "exit"}
  BY <1>0 DEF TypeOK, Handles, Early, Binding, Order, HandlesTrue
<1>b. \A e \in Fds : table'[e].by = table[e].by OBVIOUS
<1>1. TypeOK' BY <1>0 DEF TypeOK, Tables
<1>2. HandlesTrue' BY <1>0, <1>a, <1>b DEF HandlesTrue, TypeOK, Handles
<1>3. NoneLost' BY <1>0, <1>a, <1>b DEF NoneLost, Used
<1>4. Order'
  <2>1. \A l \in 1..(cur - 1) : lfd[l] \in Fds /\ lfd[l] # fd
    BY <1>0, <1>a, OwnersDiffer DEF Order, HandlesTrue, TypeOK, Handles
  <2> QED BY <2>1, <1>0, <1>a DEF Order
<1>5. Stage' BY <1>0, <1>a DEF Stage, Binding
<1>6. Unused' BY <1>0 DEF Unused
<1> QED BY <1>1, <1>2, <1>3, <1>4, <1>5, <1>6 DEF IInv

(* fpx_socket_nopush keeps the invariant. *)
LEMMA NopushStep == IInv /\ fpx_socket_nopush => IInv'
<1> SUFFICES ASSUME IInv, fpx_socket_nopush PROVE IInv'
  OBVIOUS
<1>1. CASE pc = "nopush" /\ NextAddress(Closed(fd))
  BY <1>1, GivesUp, GiveUpStep
<1>2. CASE pc = "nopush" /\ Goto("nonblocking") /\ UNCHANGED <<fd, table, bindVars>>
  <2>1. TypeOK /\ Stage BY DEF IInv
  <2>2. table' \in Tables /\ tries' \in 0..(FPX_MAX_BIND_ATTEMPTS - 1)
    BY <1>2, <2>1 DEF TypeOK, Tables, bindVars
  <2>3. table'[fd].flags = {} BY <1>2, <2>1 DEF Stage
  <2>4. /\ pc' = "nonblocking" /\ table' = table /\ Binding
        /\ UNCHANGED <<cur, left, fd, lfd, cfd, cpool, others, registered>>
    BY <1>2 DEF Goto, bindVars, connVars, Binding
  <2> QED BY <1>2, <2>2, <2>3, <2>4, OnWithSocket
<1> QED BY <1>1, <1>2 DEF fpx_socket_nopush, OptionFails

(* fpx_socket_nonblocking keeps the invariant. *)
LEMMA NonblockingStep == IInv /\ fpx_socket_nonblocking => IInv'
<1> SUFFICES ASSUME IInv, fpx_socket_nonblocking PROVE IInv'
  OBVIOUS
<1>1. CASE pc = "nonblocking" /\ NextAddress(Closed(fd))
  BY <1>1, GivesUp, GiveUpStep
<1>2. CASE /\ pc = "nonblocking" /\ table' = Flagged(fd, "nonblocking")
           /\ Goto("bind") /\ UNCHANGED <<fd, bindVars>>
  <2>1. TypeOK /\ Stage /\ HandlesTrue BY DEF IInv
  <2>2. table' \in Tables /\ tries' \in 0..(FPX_MAX_BIND_ATTEMPTS - 1)
    <3>1. "nonblocking" \in Flags BY DEF Flags
    <3>2. Flagged(fd, "nonblocking") \in Tables BY <2>1, <3>1, TableTypes
    <3> QED BY <1>2, <3>2, <2>1 DEF TypeOK, bindVars
  <2>3. /\ pc' = "bind" /\ Binding
        /\ UNCHANGED <<cur, left, fd, lfd, cfd, cpool, others, registered>>
    BY <1>2 DEF Goto, bindVars, connVars, Binding
  <2>4. fd \in Fds BY <2>1, <2>3 DEF TypeOK, HandlesTrue, Handles
  <2>5. /\ \A e \in Fds : e # fd => table'[e] = table[e]
        /\ table'[fd].by = table[fd].by
        /\ table'[fd].flags = {"nonblocking"}
    <3>1. \A e \in Fds : e # fd => Flagged(fd, "nonblocking")[e] = table[e] BY DEF Flagged
    <3>2. /\ Flagged(fd, "nonblocking")[fd].by = table[fd].by
          /\ Flagged(fd, "nonblocking")[fd].flags = table[fd].flags \cup {"nonblocking"}
      BY <2>1, <2>4, FlaggedIs
    <3> QED BY <1>2, <3>1, <3>2, <2>1 DEF Stage
  <2> QED BY <1>2, <2>2, <2>3, <2>5, OnWithSocket
<1> QED BY <1>1, <1>2 DEF fpx_socket_nonblocking, OptionFails

(* fpx_socket_bind keeps the invariant. *)
LEMMA BindStep == IInv /\ fpx_socket_bind => IInv'
<1> SUFFICES ASSUME IInv, fpx_socket_bind PROVE IInv'
  OBVIOUS
<1>0. TypeOK /\ Stage /\ HandlesTrue BY DEF IInv
<1>1. CASE pc = "bind" /\ NextAddress(Closed(fd))
  BY <1>1, GivesUp, GiveUpStep
<1>2. CASE /\ pc = "bind" /\ table' = Flagged(fd, "bound")
           /\ Goto("getsockname") /\ UNCHANGED <<fd, bindVars>>
  <2>2. table' \in Tables /\ tries' \in 0..(FPX_MAX_BIND_ATTEMPTS - 1)
    <3>1. "bound" \in Flags BY DEF Flags
    <3>2. Flagged(fd, "bound") \in Tables BY <1>0, <3>1, TableTypes
    <3> QED BY <1>2, <3>2, <1>0 DEF TypeOK, bindVars
  <2>3. /\ pc' = "getsockname" /\ Binding
        /\ UNCHANGED <<cur, left, fd, lfd, cfd, cpool, others, registered>>
    BY <1>2 DEF Goto, bindVars, connVars, Binding
  <2>4. fd \in Fds BY <1>0, <2>3 DEF TypeOK, HandlesTrue, Handles
  <2>5. /\ \A e \in Fds : e # fd => table'[e] = table[e]
        /\ table'[fd].by = table[fd].by
        /\ table'[fd].flags = {"nonblocking", "bound"}
    <3>1. \A e \in Fds : e # fd => Flagged(fd, "bound")[e] = table[e] BY DEF Flagged
    <3>2. /\ Flagged(fd, "bound")[fd].by = table[fd].by
          /\ Flagged(fd, "bound")[fd].flags = table[fd].flags \cup {"bound"}
      BY <1>0, <2>4, FlaggedIs
    <3> QED BY <1>2, <3>1, <3>2, <1>0 DEF Stage
  <2> QED BY <1>2, <2>2, <2>3, <2>5, OnWithSocket
<1>3. CASE /\ pc = "bind" /\ tries + 1 < FPX_MAX_BIND_ATTEMPTS /\ tries' = tries + 1
           /\ Goto("bind") /\ UNCHANGED <<cur, left, fd, table>>
  <2>1. tries' \in 0..(FPX_MAX_BIND_ATTEMPTS - 1)
    BY <1>0, <1>3, ListenAssumption DEF TypeOK
  <2>2. table' \in Tables BY <1>0, <1>3 DEF TypeOK, Tables
  <2>3. table'[fd].flags = {"nonblocking"} BY <1>0, <1>3 DEF Stage
  <2>4. /\ pc' = "bind" /\ table' = table /\ Binding
        /\ UNCHANGED <<cur, left, fd, lfd, cfd, cpool, others, registered>>
    BY <1>3 DEF Goto, connVars, Binding
  <2> QED BY <1>3, <2>1, <2>2, <2>3, <2>4, OnWithSocket
<1> QED BY <1>1, <1>2, <1>3 DEF fpx_socket_bind

(* Asking for the name of the socket keeps the invariant. *)
LEMMA GetSockNameStep == IInv /\ GetSockName => IInv'
<1> SUFFICES ASSUME IInv, GetSockName PROVE IInv'
  OBVIOUS
<1> USE ListenAssumption, InvalidIsNone
<1>0. TypeOK /\ HandlesTrue /\ NoneLost /\ Order /\ Stage /\ Unused BY DEF IInv
<1>a. /\ pc = "getsockname" /\ fd \in Fds /\ cur \in 1..N /\ table[fd].by = Listener(cur)
      /\ lfd[cur] = FPX_INVALID_SOCKET /\ lfd \in [1..N -> Handles] /\ fd \in Handles
      /\ UNCHANGED <<fd, cur, left, tries, cfd, cpool, others, registered>>
  BY <1>0 DEF GetSockName, TypeOK, HandlesTrue, Binding, Handles, Order, Early, Goto, bindVars, connVars
<1>b. \A e \in Fds : (e \in others \/ (\E l \in 1..N : lfd[l] = e) \/ (\E c \in Conns : cfd[c] = e)) => e # fd
  BY <1>0, <1>a, OwnersDiffer DEF HandlesTrue, TypeOK
<1>1. CASE Goto("exit") /\ table' = Closed(fd)
  <2>a. /\ pc' = "exit" /\ lfd' = lfd
        /\ \A e \in Fds : table'[e] = IF e = fd THEN Free ELSE table[e]
    BY <1>1 DEF Goto, Closed
  <2>1. TypeOK'
    <3>1. table' \in Tables BY <1>0, <1>1, TableTypes
    <3> QED BY <3>1, <1>0, <1>a, <2>a DEF TypeOK, Tables
  <2>2. HandlesTrue' BY <1>0, <1>a, <1>b, <2>a DEF HandlesTrue, TypeOK, Handles, Binding
  <2>3. NoneLost' BY <1>0, <1>a, <1>b, <2>a DEF NoneLost, Used, Free
  <2>4. Order' BY <1>0, <1>a, <1>b, <2>a DEF Order, Early, TypeOK, Handles
  <2>5. Stage' BY <2>a DEF Stage
  <2>6. Unused' BY <1>0, <1>a DEF Unused
  <2> QED BY <2>1, <2>2, <2>3, <2>4, <2>5, <2>6 DEF IInv
<1>2. CASE /\ lfd' = [lfd EXCEPT ![cur] = fd] /\ pc' = "listen" /\ table' = table
  <2>1. TypeOK' BY <1>0, <1>a, <1>2 DEF TypeOK
  <2>2. HandlesTrue' BY <1>0, <1>a, <1>2 DEF HandlesTrue, Binding
  <2>3. NoneLost' BY <1>0, <1>a, <1>2 DEF NoneLost, Used, Binding
  <2>4. Order' BY <1>0, <1>a, <1>2 DEF Order, Early
  <2>5. Stage' BY <1>0, <1>a, <1>2 DEF Stage
  <2>6. Unused' BY <1>0, <1>a DEF Unused
  <2> QED BY <2>1, <2>2, <2>3, <2>4, <2>5, <2>6 DEF IInv
<1> QED BY <1>1, <1>2 DEF GetSockName

-----------------------------------------------------------------------------
(* fpx_listener_open succeeds: what it leaves behind for the listener cur. *)
LEMMA Opens ==
    ASSUME IInv, pc = "listen", ListenWorks(lfd[cur]),
           table' = Flagged(lfd[cur], "listening")
    PROVE  /\ cur \in 1..N /\ lfd[cur] \in Fds
           /\ table' \in Tables
           /\ \A e \in Fds : table'[e].by = table[e].by
           /\ \A e \in Fds : e # lfd[cur] => table'[e] = table[e]
           /\ table'[lfd[cur]].flags = Flags
           /\ \A l \in 1..cur : lfd[l] \in Fds /\ table'[lfd[l]].flags = Flags
<1> USE ListenAssumption, InvalidIsNone
<1>0. TypeOK /\ HandlesTrue /\ Order /\ Stage BY DEF IInv
<1>1. cur \in 1..N /\ lfd[cur] \in Fds
  BY <1>0 DEF TypeOK, Handles, ListenWorks
<1>2. table' \in Tables
  <2>1. "listening" \in Flags BY DEF Flags
  <2> QED BY <2>1, <1>0, TableTypes
<1>3. /\ \A e \in Fds : table'[e].by = table[e].by
      /\ table'[lfd[cur]].flags = table[lfd[cur]].flags \cup {"listening"}
  <2>1. PICK d \in Fds : d = lfd[cur] BY <1>1
  <2>2. \A e \in Fds : Flagged(d, "listening")[e].by = table[e].by BY <1>0 DEF Flagged, TypeOK
  <2>3. Flagged(d, "listening")[d].flags = table[d].flags \cup {"listening"} BY <1>0, FlaggedIs
  <2> QED BY <2>1, <2>2, <2>3
<1>4. \A e \in Fds : e # lfd[cur] => table'[e] = table[e] BY DEF Flagged
<1>5. table'[lfd[cur]].flags = Flags
  BY <1>0, <1>1, <1>3 DEF Stage, Flags
<1>6. \A l \in 1..cur : lfd[l] \in Fds /\ table'[lfd[l]].flags = Flags
  <2> SUFFICES ASSUME NEW l \in 1..(cur - 1) PROVE lfd[l] \in Fds /\ table'[lfd[l]].flags = Flags
    BY <1>1, <1>5
  <2>1. lfd[l] \in Fds /\ table[lfd[l]].flags = Flags /\ l \in 1..N /\ l # cur
    BY <1>0, <1>1 DEF Order, Early, TypeOK, Handles
  <2>2. lfd[l] # lfd[cur]
    BY <2>1, <1>0, <1>1, OwnersDiffer DEF HandlesTrue
  <2> QED BY <2>1, <2>2, <1>4
<1> QED BY <1>1, <1>2, <1>3, <1>4, <1>5, <1>6

(* fpx_listener_open keeps the invariant. *)
LEMMA OpenStep == IInv /\ fpx_listener_open => IInv'
<1> SUFFICES ASSUME IInv, fpx_listener_open PROVE IInv'
  OBVIOUS
<1> USE ListenAssumption, InvalidIsNone
<1>0. TypeOK /\ HandlesTrue /\ NoneLost /\ Order /\ Stage /\ Unused /\ pc = "listen"
  BY DEF IInv, fpx_listener_open
<1>1. CASE Goto("exit") /\ UNCHANGED <<fd, table, bindVars>>
  <2>a. pc' = "exit" /\ UNCHANGED <<cur, left, fd, tries, lfd, cfd, cpool, others, registered, table>>
    BY <1>1 DEF Goto, bindVars, connVars
  <2>1. TypeOK' BY <1>0, <2>a DEF TypeOK
  <2>2. HandlesTrue' BY <1>0, <2>a DEF HandlesTrue, Binding
  <2>3. NoneLost' BY <1>0, <2>a DEF NoneLost, Used, Binding
  <2>4. Order' BY <1>0, <2>a DEF Order, Early
  <2>5. Stage' BY <2>a DEF Stage
  <2>6. Unused' BY <1>0, <2>a DEF Unused
  <2> QED BY <2>1, <2>2, <2>3, <2>4, <2>5, <2>6 DEF IInv
<1>2. CASE ~(Goto("exit") /\ UNCHANGED <<fd, table, bindVars>>)
  <2>a. /\ ListenWorks(lfd[cur]) /\ table' = Flagged(lfd[cur], "listening")
        /\ registered' = registered \cup {cur}
        /\ cur' = IF cur = N THEN N ELSE cur + 1
        /\ pc' = IF cur = N THEN "serve" ELSE "resolve"
        /\ left' = 0 /\ tries' = 0 /\ fd' = FPX_INVALID_SOCKET
        /\ UNCHANGED <<lfd, cfd, cpool, others>>
    BY <1>2 DEF fpx_listener_open, NextListener, connVars
  <2>b. /\ cur \in 1..N /\ lfd[cur] \in Fds /\ table' \in Tables
        /\ \A e \in Fds : table'[e].by = table[e].by
        /\ \A l \in 1..cur : lfd[l] \in Fds /\ table'[lfd[l]].flags = Flags
    BY <1>0, <2>a, Opens
  <2>1. TypeOK' BY <1>0, <2>a, <2>b DEF TypeOK, Tables, Handles
  <2>2. HandlesTrue' BY <1>0, <2>a, <2>b DEF HandlesTrue, Binding, TypeOK, Handles
  <2>3. NoneLost' BY <1>0, <2>a, <2>b DEF NoneLost, Used, Binding
  <2>4. Order'
    <3>1. CASE cur = N BY <3>1, <2>a DEF Order, Early
    <3>2. CASE cur # N
      <4>1. cur' = cur + 1 /\ pc' = "resolve" /\ cur + 1 \in 1..N BY <3>2, <2>a, <2>b
      <4>2. registered' = 1..(cur' - 1) BY <4>1, <2>a, <2>b, <1>0 DEF Order, Early
      <4>3. \A l \in 1..(cur' - 1) : lfd'[l] # FPX_INVALID_SOCKET /\ table'[lfd'[l]].flags = Flags
        BY <4>1, <2>a, <2>b
      <4>4. \A l \in 1..N : l > cur => lfd'[l] = FPX_INVALID_SOCKET
        BY <1>0, <2>a DEF Order, Early
      <4>5. cpool' = {} BY <1>0, <2>a DEF Order, Early
      <4> QED BY <4>1, <4>2, <4>3, <4>4, <4>5, <2>b DEF Order
    <3> QED BY <3>1, <3>2
  <2>5. Stage' BY <2>a DEF Stage
  <2>6. Unused' BY <1>0, <2>a DEF Unused
  <2> QED BY <2>1, <2>2, <2>3, <2>4, <2>5, <2>6 DEF IInv
<1> QED BY <1>1, <1>2

-----------------------------------------------------------------------------
(* Once the server runs, what is left of the invariant. *)
LEMMA Running ==
    ASSUME pc' \in {"serve", "destroyed"}, TypeOK', HandlesTrue', NoneLost', Unused'
    PROVE  IInv'
<1>1. Order' BY DEF Order, Early
<1>2. Stage' BY DEF Stage
<1> QED BY <1>1, <1>2 DEF IInv

(* fpx_connection_init keeps the invariant. *)
LEMMA ConnectionInitStep == ASSUME NEW c \in Conns, IInv, fpx_connection_init(c) PROVE IInv'
<1> USE ListenAssumption, InvalidIsNone
<1>0. TypeOK /\ HandlesTrue /\ NoneLost /\ Unused BY DEF IInv
<1>a. /\ pc = "serve" /\ c \notin cpool /\ cpool' = cpool \cup {c}
      /\ cfd' = [cfd EXCEPT ![c] = FPX_INVALID_SOCKET]
      /\ UNCHANGED <<pc, fd, cur, left, tries, lfd, others, registered, table>>
  BY DEF fpx_connection_init, Serving, bindVars
<1>b. cfd' = cfd BY <1>0, <1>a DEF Unused, TypeOK
<1>1. TypeOK' BY <1>0, <1>a, <1>b DEF TypeOK
<1>2. HandlesTrue' BY <1>0, <1>a, <1>b DEF HandlesTrue, Binding
<1>3. NoneLost' BY <1>0, <1>a, <1>b DEF NoneLost, Used, Binding
<1>4. Unused' BY <1>0, <1>a, <1>b DEF Unused
<1> QED BY <1>a, <1>1, <1>2, <1>3, <1>4, Running

(* fpx_connection_accept keeps the invariant. *)
LEMMA AcceptStep ==
    ASSUME NEW c \in Conns, NEW l \in 1..N, IInv, fpx_connection_accept(c, l)
    PROVE  IInv'
<1> USE ListenAssumption, InvalidIsNone
<1>0. TypeOK /\ HandlesTrue /\ NoneLost /\ Unused BY DEF IInv
<1>a. PICK d \in Fds : /\ IsLowest(d) /\ cfd' = [cfd EXCEPT ![c] = d]
                       /\ table' = Opened(d, Connection(c), {"nonblocking"})
  BY DEF fpx_connection_accept, fpx_socket_accept
<1>b. /\ pc = "serve" /\ c \in cpool /\ cfd[c] = FPX_INVALID_SOCKET
      /\ UNCHANGED <<pc, fd, cur, left, tries, lfd, cpool, others, registered>>
  BY DEF fpx_connection_accept, Serving, bindVars
<1>c. /\ \A k \in 1..N : lfd[k] # d
      /\ \A k \in Conns : cfd[k] # d
      /\ d \notin others /\ d # FPX_INVALID_SOCKET
  BY <1>0, <1>a, LowestIsFree
<1>d. \A e \in Fds : table'[e] = IF e = d THEN [by |-> Connection(c), flags |-> {"nonblocking"}]
                                         ELSE table[e]
  BY <1>0, <1>a DEF Opened, TypeOK
<1>1. TypeOK'
  <2>1. Connection(c) \in Owners /\ {"nonblocking"} \in SUBSET Flags BY DEF Owners, Flags
  <2>2. table' \in Tables BY <2>1, <1>0, <1>a, TableTypes
  <2> QED BY <2>2, <1>0, <1>a, <1>b DEF TypeOK, Tables, Handles
<1>2. HandlesTrue'
  <2>1. \A k \in Conns : cfd'[k] = IF k = c THEN d ELSE cfd[k] BY <1>0, <1>a DEF TypeOK
  <2>2. \A k \in Conns : cfd'[k] # FPX_INVALID_SOCKET => table'[cfd'[k]].by = Connection(k)
    BY <2>1, <1>0, <1>c, <1>d DEF HandlesTrue, TypeOK, Handles
  <2> QED BY <2>2, <1>0, <1>b, <1>c, <1>d DEF HandlesTrue, Binding, TypeOK, Handles
<1>3. NoneLost' BY <1>0, <1>a, <1>b, <1>c, <1>d DEF NoneLost, Used, Binding, TypeOK
<1>4. Unused' BY <1>0, <1>a, <1>b DEF Unused, TypeOK
<1> QED BY <1>b, <1>1, <1>2, <1>3, <1>4, Running

(* A connection gives its descriptor back, with its pool or without: the   *)
(* number it closes is its own or invalid.                                 *)
LEMMA DisconnectStep ==
    ASSUME NEW c \in Conns, IInv, pc = "serve", c \in cpool,
           table' = Closed(cfd[c]),
           cfd' = [cfd EXCEPT ![c] = FPX_INVALID_SOCKET],
           cpool' = cpool \/ cpool' = cpool \ {c},
           UNCHANGED <<pc, fd, cur, left, tries, lfd, others, registered>>
    PROVE  IInv'
<1> USE ListenAssumption, InvalidIsNone
<1>0. TypeOK /\ HandlesTrue /\ NoneLost /\ Unused BY DEF IInv
<1>a. \A e \in Fds : table'[e] = IF e = cfd[c] THEN Free ELSE table[e] BY DEF Closed
<1>b. \A k \in Conns : cfd'[k] = IF k = c THEN FPX_INVALID_SOCKET ELSE cfd[k] BY <1>0 DEF TypeOK
<1>c. /\ \A l \in 1..N : lfd[l] \in Fds => lfd[l] # cfd[c]
      /\ \A k \in Conns : k # c /\ cfd[k] \in Fds => cfd[k] # cfd[c]
      /\ \A d \in others : d # cfd[c]
  BY <1>0, OwnersDiffer DEF HandlesTrue, TypeOK
<1>1. TypeOK'
  <2>1. table' \in Tables BY <1>0, TableTypes
  <2> QED BY <2>1, <1>0 DEF TypeOK, Tables, Handles
<1>2. HandlesTrue'
  <2>1. \A k \in Conns : cfd'[k] # FPX_INVALID_SOCKET => table'[cfd'[k]].by = Connection(k)
    BY <1>0, <1>a, <1>b, <1>c DEF HandlesTrue, TypeOK, Handles
  <2>2. \A l \in 1..N : lfd[l] # FPX_INVALID_SOCKET => table'[lfd[l]].by = Listener(l)
    BY <1>0, <1>a, <1>c DEF HandlesTrue, TypeOK, Handles
  <2>3. \A d \in others : table'[d].by = Others
    BY <1>0, <1>a, <1>c DEF HandlesTrue, TypeOK
  <2> QED BY <2>1, <2>2, <2>3 DEF HandlesTrue, Binding
<1>3. NoneLost' BY <1>0, <1>a, <1>b, <1>c DEF NoneLost, Used, Binding, Free
<1>4. Unused' BY <1>0, <1>b DEF Unused
<1> QED BY <1>1, <1>2, <1>3, <1>4, Running

(* A descriptor opened by another part keeps the invariant. *)
LEMMA OthersOpenStep == IInv /\ OthersOpen => IInv'
<1> SUFFICES ASSUME IInv, OthersOpen PROVE IInv'
  OBVIOUS
<1> USE ListenAssumption, InvalidIsNone
<1>0. TypeOK /\ HandlesTrue /\ NoneLost /\ Unused BY DEF IInv
<1>a. PICK d \in Fds : IsLowest(d) /\ others' = others \cup {d} /\ table' = Opened(d, Others, {})
  BY DEF OthersOpen
<1>b. pc = "serve" /\ UNCHANGED <<pc, fd, cur, left, tries, lfd, cfd, cpool, registered>>
  BY DEF OthersOpen, Serving, bindVars, connVars
<1>c. /\ \A k \in 1..N : lfd[k] # d
      /\ \A k \in Conns : cfd[k] # d
      /\ d \notin others /\ d # FPX_INVALID_SOCKET
  BY <1>0, <1>a, LowestIsFree
<1>d. \A e \in Fds : table'[e] = IF e = d THEN [by |-> Others, flags |-> {}] ELSE table[e]
  BY <1>0, <1>a DEF Opened, TypeOK
<1>1. TypeOK'
  <2>1. Others \in Owners BY DEF Owners
  <2>2. table' \in Tables BY <2>1, <1>0, <1>a, TableTypes
  <2> QED BY <2>2, <1>0, <1>a, <1>b DEF TypeOK, Tables
<1>2. HandlesTrue' BY <1>0, <1>a, <1>b, <1>c, <1>d DEF HandlesTrue, Binding, TypeOK, Handles
<1>3. NoneLost' BY <1>0, <1>a, <1>b, <1>d DEF NoneLost, Used, Binding
<1>4. Unused' BY <1>0, <1>b DEF Unused
<1> QED BY <1>b, <1>1, <1>2, <1>3, <1>4, Running

(* A descriptor closed by another part keeps the invariant. *)
LEMMA OthersCloseStep == IInv /\ OthersClose => IInv'
<1> SUFFICES ASSUME IInv, OthersClose PROVE IInv'
  OBVIOUS
<1> USE ListenAssumption, InvalidIsNone
<1>0. TypeOK /\ HandlesTrue /\ NoneLost /\ Unused BY DEF IInv
<1>a. PICK d \in others : others' = others \ {d} /\ table' = Closed(d)
  BY DEF OthersClose
<1>b. pc = "serve" /\ UNCHANGED <<pc, fd, cur, left, tries, lfd, cfd, cpool, registered>>
  BY DEF OthersClose, Serving, bindVars, connVars
<1>c. \A e \in Fds : table'[e] = IF e = d THEN Free ELSE table[e]
  BY <1>a DEF Closed
<1>d. d \in Fds /\ (\A k \in 1..N : lfd[k] # d) /\ (\A k \in Conns : cfd[k] # d)
  BY <1>0, <1>a, OwnersDiffer DEF HandlesTrue, TypeOK
<1>1. TypeOK'
  <2>1. table' \in Tables BY <1>0, <1>a, TableTypes
  <2> QED BY <2>1, <1>0, <1>a, <1>b DEF TypeOK, Tables
<1>2. HandlesTrue' BY <1>0, <1>a, <1>b, <1>c, <1>d DEF HandlesTrue, Binding, TypeOK, Handles
<1>3. NoneLost' BY <1>0, <1>a, <1>b, <1>c DEF NoneLost, Used, Binding, Free
<1>4. Unused' BY <1>0, <1>b DEF Unused
<1> QED BY <1>b, <1>1, <1>2, <1>3, <1>4, Running

(* fpx_listener_close keeps the invariant. *)
LEMMA ListenerCloseStep == ASSUME NEW l \in 1..N, IInv, fpx_listener_close(l) PROVE IInv'
<1> USE ListenAssumption, InvalidIsNone
<1>0. TypeOK /\ HandlesTrue /\ NoneLost /\ Unused BY DEF IInv
<1>a. /\ pc = "serve" /\ table' = Closed(lfd[l])
      /\ lfd' = [lfd EXCEPT ![l] = FPX_INVALID_SOCKET]
      /\ UNCHANGED <<pc, fd, cur, left, tries, cfd, cpool, others, registered>>
  BY DEF fpx_listener_close, Serving, bindVars, connVars
<1>b. \A e \in Fds : table'[e] = IF e = lfd[l] THEN Free ELSE table[e] BY <1>a DEF Closed
<1>c. \A k \in 1..N : lfd'[k] = IF k = l THEN FPX_INVALID_SOCKET ELSE lfd[k] BY <1>0, <1>a DEF TypeOK
<1>d. /\ \A k \in 1..N : k # l /\ lfd[k] \in Fds => lfd[k] # lfd[l]
      /\ \A c \in Conns : cfd[c] \in Fds => cfd[c] # lfd[l]
      /\ \A d \in others : d # lfd[l]
  BY <1>0, OwnersDiffer DEF HandlesTrue, TypeOK
<1>1. TypeOK'
  <2>1. table' \in Tables BY <1>0, <1>a, TableTypes
  <2> QED BY <2>1, <1>0, <1>a DEF TypeOK, Tables, Handles
<1>2. HandlesTrue' BY <1>0, <1>a, <1>b, <1>c, <1>d DEF HandlesTrue, Binding, TypeOK, Handles
<1>3. NoneLost' BY <1>0, <1>a, <1>b, <1>c DEF NoneLost, Used, Binding, Free
<1>4. Unused' BY <1>0, <1>a DEF Unused
<1> QED BY <1>a, <1>1, <1>2, <1>3, <1>4, Running

(* The cleanups of the pool keep the invariant. *)
LEMMA DestroyStep == IInv /\ fpx_pool_destroy => IInv'
<1> SUFFICES ASSUME IInv, fpx_pool_destroy PROVE IInv'
  OBVIOUS
<1> USE ListenAssumption, InvalidIsNone
<1>0. TypeOK /\ HandlesTrue /\ NoneLost /\ Unused BY DEF IInv
<1>a. /\ pc = "serve" /\ pc' = "destroyed" /\ registered' = {}
      /\ UNCHANGED <<fd, cur, left, tries, cfd, cpool, others>>
  BY DEF fpx_pool_destroy, bindVars, connVars
<1>b. \A d \in Fds : table'[d] = IF \E l \in registered : lfd[l] = d THEN Free ELSE table[d]
  BY DEF fpx_pool_destroy
<1>c. \A l \in 1..N : lfd'[l] = IF l \in registered THEN FPX_INVALID_SOCKET ELSE lfd[l]
  BY DEF fpx_pool_destroy
<1>d. /\ \A k \in 1..N : k \notin registered /\ lfd[k] \in Fds => \A l \in registered : lfd[l] # lfd[k]
      /\ \A c \in Conns : cfd[c] \in Fds => \A l \in registered : lfd[l] # cfd[c]
      /\ \A d \in others : \A l \in registered : lfd[l] # d
  BY <1>0, OwnersDiffer DEF HandlesTrue, TypeOK
<1>1. TypeOK'
  <2>1. Free \in [by : Owners, flags : SUBSET Flags] BY DEF Free, Owners
  <2>2. table' \in Tables BY <2>1, <1>0 DEF fpx_pool_destroy, Tables, TypeOK
  <2>3. lfd' \in [1..N -> Handles] BY <1>0 DEF fpx_pool_destroy, TypeOK, Handles
  <2> QED BY <2>2, <2>3, <1>0, <1>a DEF TypeOK, Tables
<1>2. HandlesTrue' BY <1>0, <1>a, <1>b, <1>c, <1>d DEF HandlesTrue, Binding, TypeOK, Handles
<1>3. NoneLost'
  <2> SUFFICES ASSUME NEW d \in Fds, Used(d)'
               PROVE  d \in others \/ (\E l \in 1..N : lfd'[l] = d) \/ (\E c \in Conns : c \in cpool /\ cfd[c] = d)
    BY <1>a DEF NoneLost
  <2>1. Used(d) /\ ~\E l \in registered : lfd[l] = d BY <1>b DEF Used, Free
  <2> QED BY <2>1, <1>0, <1>a, <1>c DEF NoneLost, Binding
<1>4. Unused' BY <1>0, <1>a DEF Unused
<1> QED BY <1>a, <1>1, <1>2, <1>3, <1>4, Running

-----------------------------------------------------------------------------
(* Every step keeps the invariant. *)
LEMMA InvStep == IInv /\ [Next]_vars => IInv'
<1> SUFFICES ASSUME IInv, [Next]_vars PROVE IInv'
  OBVIOUS
<1>1. CASE fpx_core_init
  BY <1>1, ResolveStep, SocketStep, NopushStep, NonblockingStep, BindStep, GetSockNameStep, OpenStep
     DEF fpx_core_init
<1>2. ASSUME NEW c \in Conns, fpx_connection_init(c) PROVE IInv'
  BY <1>2, ConnectionInitStep
<1>3. ASSUME NEW c \in Conns, NEW l \in 1..N, fpx_connection_accept(c, l) PROVE IInv'
  BY <1>3, AcceptStep
<1>4. ASSUME NEW c \in Conns, fpx_connection_close(c) PROVE IInv'
  BY <1>4, DisconnectStep DEF fpx_connection_close, Serving, AfterClose, bindVars
<1>5. ASSUME NEW c \in Conns, fpx_connection_destroy(c) PROVE IInv'
  BY <1>5, DisconnectStep DEF fpx_connection_destroy, Serving, AfterClose, bindVars
<1>6. ASSUME NEW l \in 1..N, fpx_listener_close(l) PROVE IInv'
  BY <1>6, ListenerCloseStep
<1>7. CASE OthersOpen \/ OthersClose \/ fpx_pool_destroy
  BY <1>7, OthersOpenStep, OthersCloseStep, DestroyStep
<1>8. CASE UNCHANGED vars
  BY <1>8 DEF vars, IInv, TypeOK, HandlesTrue, NoneLost, Order, Stage, Unused, Early, Binding, Used
<1> QED BY <1>1, <1>2, <1>3, <1>4, <1>5, <1>6, <1>7, <1>8 DEF Next

(* The inductive invariant holds in every state of the listeners and       *)
(* connections (listen.c, connection.c).                                   *)
THEOREM Invariance == Spec => []IInv
  BY InvInit, InvStep, PTL DEF Spec

(* The state of the bind loop, the listeners, the connections and the      *)
(* table of descriptors stays in its types, for any number of each.        *)
THEOREM Typing == Spec => []TypeOK
<1>1. IInv => TypeOK BY DEF IInv
<1> QED BY <1>1, Invariance, PTL

(* Every descriptor a listener, a connection or the bind loop keeps is     *)
(* open and its own: the second close of the bind loop, and the closes of  *)
(* connections, listeners and the pool, never hit somebody else's.         *)
THEOREM ClosesOnlyItsOwn == Spec => []HandlesTrue
<1>1. IInv => HandlesTrue BY DEF IInv
<1> QED BY <1>1, Invariance, PTL

(* Whichever call of fpx_listener_bind fails, and whatever is accepted and *)
(* closed afterwards, no open descriptor is left that nobody will close.   *)
THEOREM NoDescriptorLost == Spec => []NoneLost
<1>1. IInv => NoneLost BY DEF IInv
<1> QED BY <1>1, Invariance, PTL

(* fpx_core_init ends well only with every listener of the list            *)
(* registered, bound, listening and non-blocking.                          *)
THEOREM ServesAllListeners == Spec => AllListening
<1>1. ASSUME IInv, IInv', [Next]_vars, pc # "serve", pc' = "serve"
      PROVE  /\ registered' = 1..N
             /\ \A l \in 1..N : lfd'[l] \in Fds /\ table'[lfd'[l]] = [by |-> Listener(l), flags |-> Flags]
  <2>1. fpx_listener_open /\ cur = N
    BY <1>1 DEF Next, vars, fpx_core_init, Resolve, fpx_socket_init, fpx_socket_nopush,
                fpx_socket_nonblocking, fpx_socket_bind, GetSockName, fpx_listener_open,
                NextAddress, OptionFails, Goto, Serving, fpx_connection_init, fpx_connection_accept,
                fpx_connection_close, fpx_connection_destroy, OthersOpen, OthersClose,
                fpx_listener_close, fpx_pool_destroy
  <2>2. /\ ListenWorks(lfd[cur]) /\ table' = Flagged(lfd[cur], "listening") /\ pc = "listen"
        /\ registered' = registered \cup {cur} /\ lfd' = lfd
    BY <1>1, <2>1 DEF fpx_listener_open, Goto
  <2>3. \A l \in 1..N : lfd'[l] \in Fds /\ table'[lfd'[l]].flags = Flags
    BY <1>1, <2>1, <2>2, Opens
  <2>4. registered' = 1..N
    BY <1>1, <2>1, <2>2, ListenAssumption DEF IInv, Order, Early
  <2>5. \A l \in 1..N : table'[lfd'[l]] = [by |-> Listener(l), flags |-> Flags]
    BY <1>1, <2>3, InvalidIsNone DEF IInv, HandlesTrue, TypeOK
  <2> QED BY <2>3, <2>4, <2>5
<1>2. IInv /\ IInv' /\ [Next]_vars =>
      [pc # "serve" /\ pc' = "serve" =>
          /\ registered' = 1..N
          /\ \A l \in 1..N : lfd'[l] \in Fds /\ table'[lfd'[l]] = [by |-> Listener(l), flags |-> Flags]]_vars
  BY <1>1
<1> QED BY <1>2, Invariance, PTL DEF Spec, AllListening
=============================================================================
