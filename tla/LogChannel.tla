----------------------------- MODULE LogChannel -----------------------------
(***************************************************************************)
(* What the logger promises, without threads, slots or semaphores: a FIFO  *)
(* channel of bounded capacity whose oldest message is offered to every    *)
(* log and leaves once each log has handled it.                            *)
(***************************************************************************)
EXTENDS Naturals, Sequences

CONSTANTS
  Message,   \* records with a field level
  Levels,    \* the levels of messages and logs
  Capacity,  \* messages the channel holds
  Lossy      \* whether a log may fail to write a message

VARIABLES
  levels,    \* the level of each log
  queue,     \* accepted messages that have not left, oldest first
  done,      \* the logs that have handled the oldest one
  written    \* what each log holds

cvars == <<levels, queue, done, written>>

Init == levels = <<>> /\ queue = <<>> /\ done = {} /\ written = <<>>

Configure(level) ==
  /\ queue = <<>>
  /\ levels' = Append(levels, level)
  /\ written' = Append(written, <<>>)
  /\ UNCHANGED <<queue, done>>

Accept(m) ==
  /\ Len(queue) < Capacity
  /\ queue' = Append(queue, m)
  /\ UNCHANGED <<levels, done, written>>

Wants(i, m) == m.level <= levels[i]

Handle(i) ==
  /\ queue # <<>> /\ i \notin done
  /\ done' = done \cup {i}
  /\ \/ Wants(i, Head(queue)) /\ written' = [written EXCEPT ![i] = Append(@, Head(queue))]
     \/ (Lossy \/ ~Wants(i, Head(queue))) /\ UNCHANGED written
  /\ UNCHANGED <<levels, queue>>

Retire ==
  /\ queue # <<>> /\ done = DOMAIN levels
  /\ queue' = Tail(queue)
  /\ done' = {}
  /\ UNCHANGED <<levels, written>>

Next ==
  \/ \E level \in Levels : Configure(level)
  \/ \E m \in Message : Accept(m)
  \/ \E i \in DOMAIN levels : Handle(i)
  \/ Retire

Spec == Init /\ [][Next]_cvars
=============================================================================
