----------------------------- MODULE CommandFifo -----------------------------
(***************************************************************************)
(* What the command queue and its one consumer promise, without ring       *)
(* buffer, locks or threads: accepted commands are taken in the order of   *)
(* their acceptance, each at most once, one at a time; at most Capacity    *)
(* commands wait; commands still waiting at shutdown are discarded.        *)
(***************************************************************************)
EXTENDS Naturals, Sequences

CONSTANTS Capacity, Command, NULL

VARIABLES
  fifo, \* the accepted commands that nobody has taken, oldest first
  held  \* the command the consumer is working on, or NULL

vars == <<fifo, held>>

Init == fifo = <<>> /\ held = NULL

Accept(cmd) ==
  /\ Len(fifo) < Capacity
  /\ fifo' = Append(fifo, cmd)
  /\ UNCHANGED held

Take ==
  /\ fifo # <<>>
  /\ held = NULL
  /\ held' = Head(fifo)
  /\ fifo' = Tail(fifo)

Finish ==
  /\ held # NULL
  /\ held' = NULL
  /\ UNCHANGED fifo

Discard ==
  /\ fifo # <<>>
  /\ held = NULL
  /\ fifo' = Tail(fifo)
  /\ UNCHANGED held

Next ==
  \/ \E cmd \in Command : Accept(cmd)
  \/ Take
  \/ Finish
  \/ Discard

Spec == Init /\ [][Next]_vars
=============================================================================
