---------------------------- MODULE CommandQueue ----------------------------
(***************************************************************************)
(* The ring buffer of command_queue.c.  The C functions work on a          *)
(* CommandQueue*; here each of them is an operator on a queue value, a     *)
(* record with the fields of the struct in server.h.  A slot holds the     *)
(* command its pointer points to, or NULL.                                 *)
(***************************************************************************)
EXTENDS Integers, Sequences

CONSTANTS
  MAX_QUEUE_SIZE, \* number of slots (100 in server.h)
  ClientTypes,    \* the command types clients send
  MaxCommands,    \* bound: number of commands ever accepted
  NULL            \* the null pointer

\* The enum of server.h without CMD_EXIT, which is never queued; UNKNOWN is
\* any other integer (parse_command casts whatever it reads).
CommandType ==
  { "LED_ON", "LED_OFF", "SET_BRIGHTNESS", "BUZZER_ON", "BUZZER_OFF",
    "SENSOR_ON", "SENSOR_OFF", "SEGMENT_DISPLAY", "SEGMENT_STOP", "UNKNOWN" }

\* A heap-allocated Command.  The id tells commands of one type apart: the
\* n-th command ever accepted has id n.
Command == [type : ClientTypes, id : 1 .. MaxCommands]

ASSUME QueueSizeAssumption == MAX_QUEUE_SIZE \in Nat \ {0}
ASSUME MaxCommandsAssumption == MaxCommands \in Nat
ASSUME ClientTypesAssumption == ClientTypes \subseteq CommandType
ASSUME NullAssumption == NULL \notin Command

Index == 0 .. MAX_QUEUE_SIZE - 1

\* The values of the struct, field by field.
Queue ==
  [ commands : [Index -> Command \cup {NULL}],
    front    : Index,
    rear     : Index,
    count    : 0 .. MAX_QUEUE_SIZE ]

Wrap(x) == x % MAX_QUEUE_SIZE

Advance(i) == Wrap(i + 1)

queue_init ==
  [ commands |-> [i \in Index |-> NULL], front |-> 0, rear |-> 0, count |-> 0 ]

queue_is_empty(q) == q.count = 0

\* The queue after cmd has been stored, without the capacity test.
Stored(q, cmd) ==
  [ commands |-> [q.commands EXCEPT ![q.rear] = cmd],
    front    |-> q.front,
    rear     |-> Advance(q.rear),
    count    |-> q.count + 1 ]

\* Mutant of queue_push: the capacity test is missing.
queue_push_Unbounded(q, cmd) == {[ok |-> TRUE, queue |-> Stored(q, cmd)]}

\* The outcomes of queue_push: refused when the queue is full, refused when
\* malloc fails, stored otherwise.
queue_push(q, cmd) ==
  {[ok |-> FALSE, queue |-> q]}
    \cup (IF q.count >= MAX_QUEUE_SIZE
          THEN {}
          ELSE {[ok |-> TRUE, queue |-> Stored(q, cmd)]})

\* The queue after its first command has been unlinked.
Unlinked(q) ==
  [ commands |-> [q.commands EXCEPT ![q.front] = NULL],
    front    |-> Advance(q.front),
    rear     |-> q.rear,
    count    |-> q.count - 1 ]

queue_pop(q) ==
  IF q.count = 0
  THEN [cmd |-> NULL, queue |-> q]
  ELSE [cmd |-> q.commands[q.front], queue |-> Unlinked(q)]

-----------------------------------------------------------------------------
(***************************************************************************)
(* What a queue means: the sequence of its commands, oldest first.         *)
(***************************************************************************)

\* Slot of the i-th oldest command, i counted from 1.
Slot(q, i) == Wrap(q.front + i - 1)

Contents(q) == [i \in 1 .. q.count |-> q.commands[Slot(q, i)]]

\* Slot i is one of the count slots from front on, with wrap-around.
InWindow(i, front, count) ==
  IF i >= front THEN i < front + count ELSE i + MAX_QUEUE_SIZE < front + count

\* rear is where the window of count slots starting at front ends, the slots
\* of the window hold commands and all the others are NULL.
WellFormed(q) ==
  /\ q \in Queue
  /\ q.rear = Wrap(q.front + q.count)
  /\ \A i \in Index :
       q.commands[i] # NULL <=> InWindow(i, q.front, q.count)
=============================================================================
