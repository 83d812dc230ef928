------------------------------- MODULE Listen -------------------------------
(***************************************************************************)
(* Listeners and connections over the table of descriptors.  fpx_core_init *)
(* binds and opens the listeners one by one, each system call of the bind  *)
(* loop may fail; then the program accepts and closes connections and in   *)
(* the end the pool that the listeners are registered with is destroyed.   *)
(* A closed number is given out again, lowest first, so a descriptor that  *)
(* is closed twice or kept after its close may be somebody else's.         *)
(***************************************************************************)
EXTENDS Naturals, Integers, Sequences, FiniteSets

CONSTANTS
    N,                      \* listeners, 1..N in the order of the list
    Conns,                  \* connection structures
    MaxFd,                  \* descriptors are 0..MaxFd
    MaxAddrs,               \* most addresses getaddrinfo finds
    FPX_MAX_BIND_ATTEMPTS

ASSUME ListenAssumption ==
    /\ N \in Nat \ {0} /\ MaxFd \in Nat /\ MaxAddrs \in Nat \ {0}
    /\ FPX_MAX_BIND_ATTEMPTS \in Nat \ {0}

VARIABLES
    pc,         \* where fpx_core_init is; "serve" once it is done
    cur,        \* the listener it is at
    left,       \* addresses from rp on
    fd,         \* local of fpx_listener_bind
    tries,
    lfd,        \* listener -> fd
    cfd,        \* connection -> fd
    cpool,      \* connections with a pool
    others,     \* descriptors the rest of the program has open
    registered, \* listeners added to the cleanup list of server->pool
    table       \* the system's table: descriptor -> who opened it, and how

vars == <<pc, cur, left, fd, tries, lfd, cfd, cpool, others, registered, table>>

bindVars == <<cur, left, tries>>
connVars == <<cfd, cpool>>

FPX_INVALID_SOCKET == -1

Fds == 0..MaxFd

Listener(l) == <<"listener", l>>

Connection(c) == <<"connection", c>>

Others == <<"others">>

Nobody == <<"nobody">>

Free == [by |-> Nobody, flags |-> {}]

Used(d) == table[d].by # Nobody

Init ==
    /\ pc = "resolve" /\ cur = 1 /\ left = 0 /\ tries = 0
    /\ fd = FPX_INVALID_SOCKET
    /\ lfd = [l \in 1..N |-> FPX_INVALID_SOCKET]
    /\ cfd = [c \in Conns |-> FPX_INVALID_SOCKET]
    /\ cpool = {} /\ registered = {}
    /\ others = {0}
    /\ table = [d \in Fds |-> IF d = 0 THEN [by |-> Others, flags |-> {}] ELSE Free]

(***************************************************************************)
(* System calls: the lowest free descriptor; close of any number.          *)
(***************************************************************************)
IsLowest(d) == d \in Fds /\ ~Used(d) /\ \A e \in 0..(d - 1) : Used(e)

Opened(d, by, flags) == [table EXCEPT ![d] = [by |-> by, flags |-> flags]]

Closed(d) == [e \in Fds |-> IF e = d THEN Free ELSE table[e]]

Flagged(d, f) ==
    [e \in Fds |-> IF e = d THEN [table[e] EXCEPT !.flags = @ \cup {f}] ELSE table[e]]

Goto(p) == pc' = p /\ UNCHANGED <<lfd, connVars, others, registered>>

(***************************************************************************)
(* fpx_listener_bind                                                       *)
(***************************************************************************)
\* getaddrinfo does not report through errno: the error that is returned
\* may be FPX_OK, and then the listener is opened without a descriptor.
Resolve ==
    /\ pc = "resolve"
    /\ fd' = FPX_INVALID_SOCKET /\ tries' = 0
    /\ \/ left' \in 1..MaxAddrs /\ Goto("socket")
       \/ left' = 0 /\ (Goto("listen") \/ Goto("exit"))
    /\ UNCHANGED <<cur, table>>

Rest_Same == left

Rest == left - 1

\* On to the next address; after the last one fd is closed, once more if it
\* was closed in the loop.
NextAddress(t) ==
    /\ left' = Rest /\ tries' = 0
    /\ UNCHANGED <<cur, fd>>
    /\ IF left > 1 THEN Goto("socket") /\ table' = t
       ELSE Goto("exit") /\ table' = IF fd = FPX_INVALID_SOCKET THEN t
                                     ELSE [e \in Fds |-> IF e = fd THEN Free ELSE t[e]]

fpx_socket_init ==
    /\ pc = "socket"
    /\ \/ NextAddress(table)
       \/ \E d \in Fds :
            /\ IsLowest(d)
            /\ fd' = d
            /\ table' = Opened(d, Listener(cur), {})
            /\ Goto("nopush")
            /\ UNCHANGED bindVars

OptionFails_KeepOpen == NextAddress(table)

OptionFails == NextAddress(Closed(fd))

fpx_socket_nopush ==
    /\ pc = "nopush"
    /\ \/ OptionFails
       \/ Goto("nonblocking") /\ UNCHANGED <<fd, table, bindVars>>

fpx_socket_nonblocking ==
    /\ pc = "nonblocking"
    /\ \/ OptionFails
       \/ /\ table' = Flagged(fd, "nonblocking")
          /\ Goto("bind")
          /\ UNCHANGED <<fd, bindVars>>

\* An attempt, with the pause after it; the socket is closed after the last.
fpx_socket_bind ==
    /\ pc = "bind"
    /\ \/ /\ table' = Flagged(fd, "bound")
          /\ Goto("getsockname")
          /\ UNCHANGED <<fd, bindVars>>
       \/ /\ tries + 1 < FPX_MAX_BIND_ATTEMPTS
          /\ tries' = tries + 1
          /\ Goto("bind")
          /\ UNCHANGED <<cur, left, fd, table>>
       \/ tries + 1 = FPX_MAX_BIND_ATTEMPTS /\ NextAddress(Closed(fd))

GetSockName ==
    /\ pc = "getsockname"
    /\ UNCHANGED <<fd, bindVars>>
    /\ \/ Goto("exit") /\ table' = Closed(fd)
       \/ /\ lfd' = [lfd EXCEPT ![cur] = fd]
          /\ pc' = "listen"
          /\ UNCHANGED <<connVars, others, registered, table>>

(***************************************************************************)
(* fpx_listener_open and the rest of the loop in fpx_core_init.            *)
(***************************************************************************)
NextListener_PastEnd == cur + 1

NextListener == IF cur = N THEN N ELSE cur + 1

ListenWorks_Unchecked(d) == TRUE

\* listen wants a descriptor.
ListenWorks(d) == d # FPX_INVALID_SOCKET

fpx_listener_open ==
    /\ pc = "listen"
    /\ \/ Goto("exit") /\ UNCHANGED <<fd, table, bindVars>>
       \/ /\ ListenWorks(lfd[cur])
          /\ table' = Flagged(lfd[cur], "listening")
          /\ registered' = registered \cup {cur}
          /\ cur' = NextListener
          /\ pc' = IF cur = N THEN "serve" ELSE "resolve"
          /\ left' = 0 /\ tries' = 0 /\ fd' = FPX_INVALID_SOCKET
          /\ UNCHANGED <<lfd, connVars, others>>

(***************************************************************************)
(* Connections.  A caller initialises a connection before it is used, and  *)
(* accepts into one that is closed.                                        *)
(***************************************************************************)
Serving == pc = "serve" /\ UNCHANGED <<pc, fd, bindVars>>

fpx_connection_init(c) ==
    /\ Serving
    /\ c \notin cpool
    /\ cpool' = cpool \cup {c}
    /\ cfd' = [cfd EXCEPT ![c] = FPX_INVALID_SOCKET]
    /\ UNCHANGED <<lfd, others, registered, table>>

\* accept of a connection from listener l gives descriptor d.
fpx_socket_accept(l, d) == lfd[l] # FPX_INVALID_SOCKET /\ IsLowest(d)

\* The descriptor is closed again, and the number given back, if it cannot
\* be made non-blocking: nothing changes then.
fpx_connection_accept(c, l) ==
    /\ Serving
    /\ c \in cpool /\ cfd[c] = FPX_INVALID_SOCKET
    /\ \E d \in Fds :
         /\ fpx_socket_accept(l, d)
         /\ cfd' = [cfd EXCEPT ![c] = d]
         /\ table' = Opened(d, Connection(c), {"nonblocking"})
    /\ UNCHANGED <<lfd, cpool, others, registered>>

AfterClose_Kept(c) == cfd

AfterClose(c) == [cfd EXCEPT ![c] = FPX_INVALID_SOCKET]

\* fpx_connection_close, and fpx_connection_clear: the pool stays.
fpx_connection_close(c) ==
    /\ Serving
    /\ c \in cpool
    /\ table' = Closed(cfd[c])
    /\ cfd' = AfterClose(c)
    /\ UNCHANGED <<lfd, cpool, others, registered>>

fpx_connection_destroy(c) ==
    /\ Serving
    /\ c \in cpool
    /\ table' = Closed(cfd[c])
    /\ cfd' = AfterClose(c)
    /\ cpool' = cpool \ {c}
    /\ UNCHANGED <<lfd, others, registered>>

(***************************************************************************)
(* The rest of the program, and the cleanup of the pool.                   *)
(***************************************************************************)
OthersOpen ==
    /\ Serving
    /\ \E d \in Fds : IsLowest(d) /\ others' = others \cup {d} /\ table' = Opened(d, Others, {})
    /\ UNCHANGED <<lfd, connVars, registered>>

OthersClose ==
    /\ Serving
    /\ \E d \in others : others' = others \ {d} /\ table' = Closed(d)
    /\ UNCHANGED <<lfd, connVars, registered>>

\* A listener is closed by the program, or by its pool as it is destroyed.
fpx_listener_close(l) ==
    /\ Serving
    /\ table' = Closed(lfd[l])
    /\ lfd' = [lfd EXCEPT ![l] = FPX_INVALID_SOCKET]
    /\ UNCHANGED <<connVars, others, registered>>

fpx_pool_destroy ==
    /\ pc = "serve" /\ pc' = "destroyed"
    /\ table' = [d \in Fds |-> IF \E l \in registered : lfd[l] = d THEN Free ELSE table[d]]
    /\ lfd' = [l \in 1..N |-> IF l \in registered THEN FPX_INVALID_SOCKET ELSE lfd[l]]
    /\ registered' = {}
    /\ UNCHANGED <<fd, bindVars, connVars, others>>

fpx_core_init ==
    \/ Resolve \/ fpx_socket_init \/ fpx_socket_nopush \/ fpx_socket_nonblocking
    \/ fpx_socket_bind \/ GetSockName \/ fpx_listener_open

Next ==
    \/ fpx_core_init
    \/ \E c \in Conns :
         \/ fpx_connection_init(c)
         \/ \E l \in 1..N : fpx_connection_accept(c, l)
         \/ fpx_connection_close(c)
         \/ fpx_connection_destroy(c)
    \/ OthersOpen \/ OthersClose
    \/ \E l \in 1..N : fpx_listener_close(l)
    \/ fpx_pool_destroy

\* fpx_core_init is run by one thread and every call it makes returns; when
\* connections come, and whether the pool is destroyed, is up to others.
Spec == Init /\ [][Next]_vars /\ WF_vars(fpx_core_init)

(***************************************************************************)
(* Properties.                                                             *)
(***************************************************************************)
Flags == {"nonblocking", "bound", "listening"}

Owners == {Listener(l) : l \in 1..N} \cup {Connection(c) : c \in Conns} \cup {Others, Nobody}

Handles == Fds \cup {FPX_INVALID_SOCKET}

\* The state stays in its types.
TypeOK ==
    /\ pc \in {"resolve", "socket", "nopush", "nonblocking", "bind", "getsockname",
               "listen", "exit", "serve", "destroyed"}
    /\ cur \in 1..N /\ left \in 0..MaxAddrs /\ tries \in 0..(FPX_MAX_BIND_ATTEMPTS - 1)
    /\ fd \in Handles /\ lfd \in [1..N -> Handles] /\ cfd \in [Conns -> Handles]
    /\ cpool \subseteq Conns /\ registered \subseteq 1..N /\ others \subseteq Fds
    /\ table \in [Fds -> [by : Owners, flags : SUBSET Flags]]

Binding == pc \in {"nopush", "nonblocking", "bind", "getsockname"}

\* A descriptor in a structure is open and was opened for that structure:
\* no close, neither the second one of the bind loop nor one of a stale
\* number, has hit a descriptor that somebody else holds.
HandlesTrue ==
    /\ \A l \in 1..N : lfd[l] # FPX_INVALID_SOCKET => table[lfd[l]].by = Listener(l)
    /\ \A c \in Conns : cfd[c] # FPX_INVALID_SOCKET => table[cfd[c]].by = Connection(c)
    /\ \A d \in others : table[d].by = Others
    /\ Binding => fd # FPX_INVALID_SOCKET /\ table[fd].by = Listener(cur)

\* No descriptor is lost: each one that is open is held by the structure it
\* was opened for, or by the bind loop that is at work on it.
NoneLost ==
    \A d \in Fds : Used(d) =>
        \/ d \in others
        \/ \E l \in 1..N : lfd[l] = d
        \/ \E c \in Conns : c \in cpool /\ cfd[c] = d
        \/ Binding /\ fd = d

\* The server starts only if every listener listens: as fpx_core_init is
\* done each one is registered and has a descriptor that is bound, listening
\* and non-blocking, whatever failed on the way.
AllListening ==
    [][pc # "serve" /\ pc' = "serve" =>
          /\ registered' = 1..N
          /\ \A l \in 1..N : lfd'[l] \in Fds /\ table'[lfd'[l]] = [by |-> Listener(l), flags |-> Flags]]_vars

\* fpx_core_init gets through the listeners or gives up: three attempts per
\* address, with a pause each, are all it waits.
BindEnds == <>(pc \in {"serve", "exit", "destroyed"})
=============================================================================
