------------------------- MODULE CommandQueueProofs -------------------------
(***************************************************************************)
(* What the operations of the ring buffer do to the sequence a queue       *)
(* stands for, for every capacity.                                         *)
(***************************************************************************)
EXTENDS CommandQueue, SequenceTheorems, TLAPS

\* Indices stay below twice the capacity, where % is at most one subtraction.
LEMMA WrapOnce ==
  \A x \in Nat :
    x < 2 * MAX_QUEUE_SIZE =>
      Wrap(x) = IF x < MAX_QUEUE_SIZE THEN x ELSE x - MAX_QUEUE_SIZE
  BY QueueSizeAssumption, Z3 DEF Wrap

\* Advance steps to the next slot and wraps around at the end.
LEMMA AdvanceIndex ==
  ASSUME NEW i \in Index
  PROVE  /\ Advance(i) \in Index
         /\ Advance(i) = IF i + 1 = MAX_QUEUE_SIZE THEN 0 ELSE i + 1
<1>1. i + 1 \in Nat /\ i + 1 < 2 * MAX_QUEUE_SIZE
  BY QueueSizeAssumption DEF Index
<1>2. Advance(i) = IF i + 1 < MAX_QUEUE_SIZE THEN i + 1 ELSE i + 1 - MAX_QUEUE_SIZE
  BY <1>1, WrapOnce, QueueSizeAssumption DEF Advance, Index
<1> QED
  BY <1>2, QueueSizeAssumption DEF Index

(***************************************************************************)
(* The arithmetic of the window of c slots that starts at slot f.          *)
(***************************************************************************)

\* Storing a command: the window grows by the slot behind its end.
LEMMA WindowGrows ==
  ASSUME NEW f \in Index, NEW c \in 0 .. MAX_QUEUE_SIZE - 1
  PROVE  /\ Advance(Wrap(f + c)) = Wrap(f + (c + 1))
         /\ Wrap(f + c) \in Index
         /\ \A i \in Index :
              InWindow(i, f, c + 1) <=> InWindow(i, f, c) \/ i = Wrap(f + c)
<1>1. Wrap(f + c) = IF f + c < MAX_QUEUE_SIZE THEN f + c ELSE f + c - MAX_QUEUE_SIZE
  BY WrapOnce, QueueSizeAssumption DEF Index
<1>2. Wrap(f + (c + 1)) = IF f + (c + 1) < MAX_QUEUE_SIZE
                          THEN f + (c + 1) ELSE f + (c + 1) - MAX_QUEUE_SIZE
  BY WrapOnce, QueueSizeAssumption DEF Index
<1>3. Wrap(f + c) \in Index
  BY <1>1, QueueSizeAssumption DEF Index
<1>4. Advance(Wrap(f + c))
        = IF Wrap(f + c) + 1 = MAX_QUEUE_SIZE THEN 0 ELSE Wrap(f + c) + 1
  BY <1>3, AdvanceIndex
<1>5. Advance(Wrap(f + c)) = Wrap(f + (c + 1))
  BY <1>1, <1>2, <1>3, <1>4, QueueSizeAssumption DEF Index
<1>6. \A i \in Index : InWindow(i, f, c + 1) <=> InWindow(i, f, c) \/ i = Wrap(f + c)
  BY <1>1, QueueSizeAssumption DEF Index, InWindow
<1> QED
  BY <1>3, <1>5, <1>6

\* Removing a command: the window loses its first slot and keeps its end.
LEMMA WindowShrinks ==
  ASSUME NEW f \in Index, NEW c \in 1 .. MAX_QUEUE_SIZE
  PROVE  /\ Wrap(Advance(f) + (c - 1)) = Wrap(f + c)
         /\ \A i \in Index :
              InWindow(i, Advance(f), c - 1) <=> InWindow(i, f, c) /\ i # f
<1>1. /\ Advance(f) \in Index
      /\ Advance(f) = IF f + 1 = MAX_QUEUE_SIZE THEN 0 ELSE f + 1
  BY AdvanceIndex
<1>2. Wrap(f + c) = IF f + c < MAX_QUEUE_SIZE THEN f + c ELSE f + c - MAX_QUEUE_SIZE
  BY WrapOnce, QueueSizeAssumption DEF Index
<1>3. CASE f + 1 = MAX_QUEUE_SIZE
  <2>1. Wrap(0 + (c - 1)) = IF c - 1 < MAX_QUEUE_SIZE THEN c - 1 ELSE c - 1 - MAX_QUEUE_SIZE
    BY WrapOnce, QueueSizeAssumption DEF Index
  <2> QED
    BY <1>1, <1>2, <1>3, <2>1, QueueSizeAssumption DEF Index, InWindow
<1>4. CASE f + 1 # MAX_QUEUE_SIZE
  <2>1. f + 1 + (c - 1) = f + c
    BY QueueSizeAssumption DEF Index
  <2> QED
    BY <1>1, <1>2, <1>4, <2>1, QueueSizeAssumption DEF Index, InWindow
<1> QED
  BY <1>3, <1>4

\* The i-th slot of a window is in the window; it is the slot behind the first
\* c only if i is c + 1.
LEMMA WindowSlot ==
  ASSUME NEW f \in Index, NEW c \in 0 .. MAX_QUEUE_SIZE, NEW i \in 1 .. MAX_QUEUE_SIZE
  PROVE  /\ Wrap(f + i - 1) \in Index
         /\ i <= c => InWindow(Wrap(f + i - 1), f, c)
         /\ i <= c + 1 /\ c < MAX_QUEUE_SIZE
              => (Wrap(f + i - 1) = Wrap(f + c) <=> i = c + 1)
<1>1. Wrap(f + i - 1) = IF f + i - 1 < MAX_QUEUE_SIZE
                        THEN f + i - 1 ELSE f + i - 1 - MAX_QUEUE_SIZE
  BY WrapOnce, QueueSizeAssumption DEF Index
<1>2. Wrap(f + c) = IF f + c < MAX_QUEUE_SIZE THEN f + c ELSE f + c - MAX_QUEUE_SIZE
  BY WrapOnce, QueueSizeAssumption DEF Index
<1> QED
  BY <1>1, <1>2, QueueSizeAssumption DEF Index, InWindow

\* After the first slot is gone, the slot that was (i + 1)-st is i-th.
LEMMA WindowShift ==
  ASSUME NEW f \in Index, NEW i \in 1 .. MAX_QUEUE_SIZE - 1
  PROVE  /\ Wrap(Advance(f) + i - 1) = Wrap(f + (i + 1) - 1)
         /\ Wrap(Advance(f) + i - 1) # f
<1>1. Advance(f) = IF f + 1 = MAX_QUEUE_SIZE THEN 0 ELSE f + 1
  BY AdvanceIndex
<1>2. Wrap(f + (i + 1) - 1) = IF f + (i + 1) - 1 < MAX_QUEUE_SIZE
                              THEN f + (i + 1) - 1 ELSE f + (i + 1) - 1 - MAX_QUEUE_SIZE
  BY WrapOnce, QueueSizeAssumption DEF Index
<1>3. CASE f + 1 = MAX_QUEUE_SIZE
  <2>1. Wrap(0 + i - 1) = IF i - 1 < MAX_QUEUE_SIZE THEN i - 1 ELSE i - 1 - MAX_QUEUE_SIZE
    BY WrapOnce, QueueSizeAssumption DEF Index
  <2> QED
    BY <1>1, <1>2, <1>3, <2>1, QueueSizeAssumption DEF Index
<1>4. CASE f + 1 # MAX_QUEUE_SIZE
  <2>1. f + 1 + i - 1 = f + (i + 1) - 1
    BY QueueSizeAssumption DEF Index
  <2> QED
    BY <1>1, <1>2, <1>4, <2>1, QueueSizeAssumption DEF Index
<1> QED
  BY <1>3, <1>4

(***************************************************************************)
(* The operations on queues.                                               *)
(***************************************************************************)

\* The contents of a well-formed queue are a sequence of count commands.
LEMMA ContentsType ==
  ASSUME NEW q, WellFormed(q)
  PROVE  /\ Contents(q) \in Seq(Command)
         /\ Len(Contents(q)) = q.count
         /\ DOMAIN Contents(q) = 1 .. q.count
<1>1. /\ q.front \in Index
      /\ q.count \in 0 .. MAX_QUEUE_SIZE
      /\ q.commands \in [Index -> Command \cup {NULL}]
  BY DEF WellFormed, Queue
<1>2. ASSUME NEW i \in 1 .. q.count
      PROVE  q.commands[Slot(q, i)] \in Command
  <2>1. i \in 1 .. MAX_QUEUE_SIZE /\ i <= q.count
    BY <1>1, QueueSizeAssumption
  <2>2. Slot(q, i) \in Index /\ InWindow(Slot(q, i), q.front, q.count)
    BY <1>1, <2>1, WindowSlot DEF Slot
  <2>3. q.commands[Slot(q, i)] # NULL
    BY <2>2 DEF WellFormed
  <2> QED
    BY <1>1, <2>2, <2>3
<1>3. q.count \in Nat
  BY <1>1, QueueSizeAssumption
<1> QED
  BY <1>2, <1>3, SeqDef DEF Contents

\* queue_push appends: it keeps the queue well-formed and adds the command
\* behind all the others.
LEMMA PushAppends ==
  ASSUME NEW q, WellFormed(q), q.count < MAX_QUEUE_SIZE, NEW cmd \in Command
  PROVE  /\ WellFormed(Stored(q, cmd))
         /\ Contents(Stored(q, cmd)) = Append(Contents(q), cmd)
<1> DEFINE p == Stored(q, cmd)
<1>1. /\ q.front \in Index /\ q.rear \in Index
      /\ q.count \in 0 .. MAX_QUEUE_SIZE - 1
      /\ q.commands \in [Index -> Command \cup {NULL}]
      /\ q.rear = Wrap(q.front + q.count)
  BY QueueSizeAssumption DEF WellFormed, Queue
<1>2. /\ p.commands = [q.commands EXCEPT ![q.rear] = cmd]
      /\ p.front = q.front
      /\ p.rear = Advance(q.rear)
      /\ p.count = q.count + 1
  BY DEF Stored
<1>3. p \in Queue
  <2>1. p.commands \in [Index -> Command \cup {NULL}]
    BY <1>1, <1>2
  <2>2. p.rear \in Index
    BY <1>1, <1>2, AdvanceIndex
  <2>3. p.count \in 0 .. MAX_QUEUE_SIZE
    BY <1>1, <1>2, QueueSizeAssumption
  <2> QED
    BY <1>1, <1>2, <2>1, <2>2, <2>3 DEF Queue, Stored
<1>4. p.rear = Wrap(p.front + p.count)
  BY <1>1, <1>2, WindowGrows
<1>5. ASSUME NEW i \in Index
      PROVE  p.commands[i] # NULL <=> InWindow(i, p.front, p.count)
  <2>1. q.commands[i] # NULL <=> InWindow(i, q.front, q.count)
    BY DEF WellFormed
  <2>2. p.commands[i] = IF i = q.rear THEN cmd ELSE q.commands[i]
    BY <1>1, <1>2
  <2>3. cmd # NULL
    BY NullAssumption
  <2>4. InWindow(i, q.front, q.count + 1) <=> InWindow(i, q.front, q.count) \/ i = q.rear
    BY <1>1, WindowGrows
  <2> QED
    BY <1>2, <2>1, <2>2, <2>3, <2>4
<1>6. WellFormed(p)
  BY <1>3, <1>4, <1>5 DEF WellFormed
<1>7. Contents(p) = Append(Contents(q), cmd)
  <2>1. /\ Contents(q) \in Seq(Command)
        /\ Len(Contents(q)) = q.count
    BY ContentsType
  <2>2. /\ Contents(p) \in Seq(Command)
        /\ Len(Contents(p)) = q.count + 1
    BY <1>2, <1>6, ContentsType
  <2>3. /\ Append(Contents(q), cmd) \in Seq(Command)
        /\ Len(Append(Contents(q), cmd)) = q.count + 1
        /\ \A i \in 1 .. q.count : Append(Contents(q), cmd)[i] = Contents(q)[i]
        /\ Append(Contents(q), cmd)[q.count + 1] = cmd
    BY <2>1, AppendProperties
  <2>4. ASSUME NEW i \in 1 .. q.count + 1
        PROVE  Contents(p)[i] = Append(Contents(q), cmd)[i]
    <3>1. i \in 1 .. MAX_QUEUE_SIZE /\ i <= q.count + 1
      BY <1>1, QueueSizeAssumption
    <3>2. Slot(p, i) = Slot(q, i)
      BY <1>2 DEF Slot
    <3>3. Slot(q, i) \in Index /\ (Slot(q, i) = q.rear <=> i = q.count + 1)
      <4>1. q.count \in 0 .. MAX_QUEUE_SIZE /\ q.count < MAX_QUEUE_SIZE
        BY <1>1, QueueSizeAssumption
      <4> QED
        BY <1>1, <3>1, <4>1, WindowSlot DEF Slot
    <3>4. Contents(p)[i] = p.commands[Slot(q, i)]
      BY <1>2, <3>2 DEF Contents
    <3>5. p.commands[Slot(q, i)] = IF i = q.count + 1 THEN cmd ELSE q.commands[Slot(q, i)]
      BY <1>1, <1>2, <3>3
    <3>6. CASE i = q.count + 1
      BY <3>4, <3>5, <3>6, <2>3
    <3>7. CASE i # q.count + 1
      <4>1. i \in 1 .. q.count
        BY <1>1, <3>7, QueueSizeAssumption
      <4> QED
        BY <3>4, <3>5, <3>7, <4>1, <2>3 DEF Contents
    <3> QED
      BY <3>6, <3>7
  <2> QED
    BY <2>2, <2>3, <2>4, SeqEqual
<1> QED
  BY <1>6, <1>7

\* queue_pop removes the oldest command: it returns the head of the sequence
\* and leaves a well-formed queue that stands for the tail.
LEMMA PopTakesHead ==
  ASSUME NEW q, WellFormed(q), q.count # 0
  PROVE  /\ WellFormed(Unlinked(q))
         /\ q.commands[q.front] \in Command
         /\ Contents(q) # <<>>
         /\ q.commands[q.front] = Head(Contents(q))
         /\ Contents(Unlinked(q)) = Tail(Contents(q))
<1> DEFINE p == Unlinked(q)
<1>1. /\ q.front \in Index /\ q.rear \in Index
      /\ q.count \in 1 .. MAX_QUEUE_SIZE
      /\ q.commands \in [Index -> Command \cup {NULL}]
      /\ q.rear = Wrap(q.front + q.count)
  BY QueueSizeAssumption DEF WellFormed, Queue
<1>2. /\ p.commands = [q.commands EXCEPT ![q.front] = NULL]
      /\ p.front = Advance(q.front)
      /\ p.rear = q.rear
      /\ p.count = q.count - 1
  BY DEF Unlinked
<1>3. p \in Queue
  <2>1. p.commands \in [Index -> Command \cup {NULL}]
    BY <1>1, <1>2
  <2>2. p.front \in Index
    BY <1>1, <1>2, AdvanceIndex
  <2>3. p.count \in 0 .. MAX_QUEUE_SIZE
    BY <1>1, <1>2, QueueSizeAssumption
  <2> QED
    BY <1>1, <1>2, <2>1, <2>2, <2>3 DEF Queue, Unlinked
<1>4. p.rear = Wrap(p.front + p.count)
  BY <1>1, <1>2, WindowShrinks
<1>5. ASSUME NEW i \in Index
      PROVE  p.commands[i] # NULL <=> InWindow(i, p.front, p.count)
  <2>1. q.commands[i] # NULL <=> InWindow(i, q.front, q.count)
    BY DEF WellFormed
  <2>2. p.commands[i] = IF i = q.front THEN NULL ELSE q.commands[i]
    BY <1>1, <1>2
  <2>3. InWindow(i, Advance(q.front), q.count - 1)
          <=> InWindow(i, q.front, q.count) /\ i # q.front
    BY <1>1, WindowShrinks
  <2> QED
    BY <1>2, <2>1, <2>2, <2>3
<1>6. WellFormed(p)
  BY <1>3, <1>4, <1>5 DEF WellFormed
<1>7. /\ Contents(q) \in Seq(Command)
      /\ Len(Contents(q)) = q.count
      /\ Contents(q) # <<>>
  BY <1>1, ContentsType
<1>8. q.commands[q.front] = Head(Contents(q)) /\ q.commands[q.front] \in Command
  <2>1. Slot(q, 1) = q.front
    <3>1. /\ q.front + 1 - 1 = q.front
          /\ q.front \in Nat
          /\ q.front < MAX_QUEUE_SIZE /\ q.front < 2 * MAX_QUEUE_SIZE
      BY <1>1, QueueSizeAssumption DEF Index
    <3> QED
      BY <3>1, WrapOnce DEF Slot
  <2>2. Contents(q)[1] = q.commands[q.front]
    BY <1>1, <2>1 DEF Contents
  <2>3. Head(Contents(q)) = Contents(q)[1] /\ Contents(q)[1] \in Command
    BY <1>1, <1>7
  <2> QED
    BY <2>2, <2>3
<1>9. Contents(p) = Tail(Contents(q))
  <2>1. /\ Contents(p) \in Seq(Command)
        /\ Len(Contents(p)) = q.count - 1
    BY <1>2, <1>6, ContentsType
  <2>2. /\ Tail(Contents(q)) \in Seq(Command)
        /\ Len(Tail(Contents(q))) = q.count - 1
        /\ \A i \in 1 .. q.count - 1 : Tail(Contents(q))[i] = Contents(q)[i + 1]
    BY <1>7, HeadTailProperties
  <2>3. ASSUME NEW i \in 1 .. q.count - 1
        PROVE  Contents(p)[i] = Tail(Contents(q))[i]
    <3>1. i \in 1 .. MAX_QUEUE_SIZE - 1 /\ i \in 1 .. MAX_QUEUE_SIZE /\ i + 1 \in 1 .. q.count
      BY <1>1, QueueSizeAssumption
    <3>2. Slot(p, i) = Slot(q, i + 1) /\ Slot(p, i) # q.front
      BY <1>1, <1>2, <3>1, WindowShift DEF Slot
    <3>3. Slot(p, i) \in Index
      <4>1. p.front \in Index /\ p.count \in 0 .. MAX_QUEUE_SIZE
        BY <1>3 DEF Queue
      <4> QED
        BY <3>1, <4>1, WindowSlot DEF Slot
    <3>4. Contents(p)[i] = p.commands[Slot(p, i)]
      BY <1>2 DEF Contents
    <3>5. p.commands[Slot(p, i)] = q.commands[Slot(q, i + 1)]
      BY <1>1, <1>2, <3>2, <3>3
    <3>6. Contents(q)[i + 1] = q.commands[Slot(q, i + 1)]
      BY <3>1 DEF Contents
    <3> QED
      BY <3>4, <3>5, <3>6, <2>2
  <2> QED
    BY <2>1, <2>2, <2>3, SeqEqual
<1> QED
  BY <1>6, <1>7, <1>8, <1>9

\* A fresh queue is well-formed and empty.
LEMMA InitEmpty == WellFormed(queue_init) /\ Contents(queue_init) = <<>>
<1>1. queue_init \in Queue
  BY QueueSizeAssumption DEF queue_init, Queue, Index
<1>2. queue_init.rear = Wrap(queue_init.front + queue_init.count)
  <2>1. Wrap(0) = 0
    BY WrapOnce, QueueSizeAssumption
  <2> QED
    BY <2>1 DEF queue_init
<1>3. WellFormed(queue_init)
  BY <1>1, <1>2, QueueSizeAssumption DEF WellFormed, queue_init, Index, InWindow
<1>4. Len(Contents(queue_init)) = 0 /\ Contents(queue_init) \in Seq(Command)
  BY <1>3, ContentsType DEF queue_init
<1> QED
  BY <1>3, <1>4, EmptySeq
=============================================================================
