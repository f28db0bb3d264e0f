---------------------------- MODULE ServerProofs ----------------------------
(***************************************************************************)
(* Proofs about Server, for every queue size, number of commands and       *)
(* number of clients.  The inductive invariant has one part per concern;   *)
(* each part is proved with the help of the parts before it.               *)
(***************************************************************************)
EXTENDS Server, CommandQueueProofs, TLAPS

-----------------------------------------------------------------------------
(***************************************************************************)
(* The inductive invariant                                                 *)
(***************************************************************************)

\* The ring buffer is well-formed and holds the commands from popped + 1 to
\* pushed, in this order.
QueueInv ==
  /\ WellFormed(cmd_queue)
  /\ cmd_queue.count = pushed - popped
  /\ \A i \in 1 .. cmd_queue.count : Contents(cmd_queue)[i].id = popped + i

\* The request of comm is the command it is about to queue, or queued last.
RequestInv ==
  /\ pcComm \in {"param", "push"} => request # NULL /\ request.id = pushed + 1
  /\ pcComm \in {"wait", "timedout"} => request # NULL /\ request.id = pushed

\* Between pop and free the device thread holds the last command popped.
HeldInv ==
  /\ dev_cmd # NULL <=> pcDev \in {"exec", "respond", "free"}
  /\ dev_cmd # NULL => dev_cmd.id = popped

\* The response answers the last command popped, except between its pop and
\* its answer and while server_cleanup empties the queue.
ResponseInv ==
  /\ response <= popped
  /\ pcDev \in {"exec", "respond"} => response = popped - 1
  /\ pcDev \notin {"exec", "respond"} /\ pcMain \notin {"teardown", "stopped"}
       => response = popped

\* Clients that wait for accept and accepted ones do not exceed the bound.
ClientsInv == accepted + backlog <= MaxClients

\* Who is where: comm exists while main joins it, device is gone when
\* server_cleanup empties the queue; the mutexes are held exactly in the
\* critical sections and only threads in a wait wait.
ControlInv ==
  /\ pcMain # "rejoin"
  /\ pcComm # "none" <=> pcMain = "join"
  /\ pcMain \in {"teardown", "stopped"} => pcDev = "done"
  /\ destroyed <=> pcMain = "stopped"
  /\ pcMain = "stopped" => cmd_queue.count = 0
  /\ queue_mutex = "device" <=> pcDev \in {"check", "enter_wait", "dispatch", "monitor"}
  /\ state_mutex = "main" <=> pcMain = "registering"
  /\ state_mutex = "comm" <=> pcComm = "exiting"
  /\ "comm" \in waiting => pcComm = "wait" /\ ~spurious
  /\ "device" \in waiting => pcDev = "wait"

\* A client is registered from MainRegister to CommDisconnect, and its socket
\* is the only open one.
InSession == pcMain = "spawn" \/ (pcMain = "join" /\ pcComm # "done")
SessionInv ==
  /\ client_connected <=> InSession
  /\ client_socket = IF InSession THEN accepted ELSE -1
  /\ pcComm \notin {"none", "start", "done"} => comm_socket = accepted
  /\ open_sockets = IF InSession \/ pcMain \in {"register", "registering"}
                    THEN {accepted} ELSE {}
  /\ InSession \/ pcMain \in {"register", "registering"} => accepted > 0

\* What comm can rely on when it is woken.
AnswerInv ==
  /\ pcComm = "wait" /\ "comm" \in waiting => response < request.id
  /\ pcComm = "wait" /\ ~overlap => response >= request.id - 1
  /\ CommWoken /\ ~overlap /\ ~spurious => response = request.id

\* Responses are sent in the order they are published, each once.
SentInv ==
  /\ reply.response <= response
  /\ CommWoken /\ ~spurious => reply.response < response

-----------------------------------------------------------------------------
(***************************************************************************)
(* Every step proof below expands the actions of the step it is about and  *)
(* the tuples of variables in their UNCHANGED conjuncts.                   *)
(***************************************************************************)
USE DEF queueVars, stateVars, flagVars, socketVars, commVars, devVars,
  ClientConnect, signal_handler, MainStep, MainLoop, MainAcceptNone,
  MainAcceptError, MainAccept, MainLockState, MainRegister, MainSpawn,
  MainSpawnFail, MainJoin, MainCleanup, MainJoinDevice, MainDrain, MainTeardown,
  CommGoto, CommStep, CommStart, CommLoop, CommPush, CommPushFail, CommReply,
  CommTimeout, CommSpuriousWakeup, CommTimedOut, CommLockState, CommDisconnect,
  CommRecv, CommRecvClosed, CommRecvInvalid, CommRecvExit, CommRecvCommand,
  CommRecvParam, DevGoto, DevStep, DevLoop, DevLockQueue, DevCheck, DevWait,
  DevStop, DevPop, DevTimeout, DevWake, DevMonitor, DevSense, DevExec,
  DevRespond, DevFree

\* Every step is a step of one of the threads or of their environment, or
\* changes nothing.
EnvStep == ClientConnect \/ signal_handler \/ CommSpuriousWakeup

\* A step is one of the environment or of a thread, or stutters.
LEMMA StepCases ==
  [Next]_vars => EnvStep \/ MainStep \/ CommStep \/ CommRecv \/ DevStep \/ UNCHANGED vars
BY DEF Next, Terminated, EnvStep

\* Only three steps touch the queue.
LEMMA QueueFrame ==
  [Next]_vars => \/ CommPush \/ DevPop \/ MainDrain
                 \/ UNCHANGED <<cmd_queue, pushed, popped>>
BY StepCases DEF EnvStep, vars

\* Only these steps change what the abstract queue sees.
LEMMA FifoFrame ==
  [Next]_vars => \/ CommPush \/ DevPop \/ MainDrain \/ DevFree
                 \/ UNCHANGED <<cmd_queue, dev_cmd>>
BY StepCases DEF EnvStep, vars

-----------------------------------------------------------------------------
(***************************************************************************)
(* What the three steps do to the queue                                    *)
(***************************************************************************)

\* A command comm reads is a Command, numbered behind the last one queued.
LEMMA RecvCommand ==
  ASSUME TypeOK, NEW type \in ClientTypes, NEW hasParam \in BOOLEAN,
         CommRecvCommand(type, hasParam)
  PROVE  /\ request' \in Command /\ request' # NULL
         /\ request'.id = pushed + 1
         /\ pushed' = pushed
         /\ pcComm' \in {"param", "push"}
<1>1. pushed + 1 \in 1 .. MaxCommands
  BY MaxCommandsAssumption DEF TypeOK
<1>2. request' = [type |-> type, id |-> pushed + 1]
  OBVIOUS
<1>3. request' \in Command
  BY <1>1, <1>2 DEF Command
<1> QED
  BY <1>2, <1>3, NullAssumption

\* CommPush appends the request, which is a proper Command.
LEMMA PushStep ==
  ASSUME TypeOK, QueueInv, RequestInv, CommPush
  PROVE  /\ cmd_queue.count < MAX_QUEUE_SIZE
         /\ request \in Command /\ request.id = pushed + 1
         /\ cmd_queue' = Stored(cmd_queue, request)
         /\ WellFormed(cmd_queue')
         /\ Contents(cmd_queue') = Append(Contents(cmd_queue), request)
         /\ cmd_queue'.count = cmd_queue.count + 1
         /\ pushed' \in 0 .. MaxCommands
<1>1. request \in Command /\ request.id = pushed + 1
  BY DEF TypeOK, RequestInv
<1>2. cmd_queue.count \in Nat
  BY QueueSizeAssumption DEF TypeOK, Queue
<1>3. cmd_queue.count < MAX_QUEUE_SIZE /\ cmd_queue' = Stored(cmd_queue, request)
  BY <1>2, QueueSizeAssumption DEF queue_push
<1>4. cmd_queue'.count = cmd_queue.count + 1
  BY <1>3 DEF Stored
<1>5. pushed' \in 0 .. MaxCommands
  BY <1>1, MaxCommandsAssumption DEF Command, TypeOK
<1> QED
  BY <1>1, <1>3, <1>4, <1>5, PushAppends DEF QueueInv

\* Taking a command out of a queue that has one yields the command numbered
\* popped + 1.
LEMMA PopStep ==
  ASSUME TypeOK, QueueInv, cmd_queue.count # 0
  PROVE  /\ queue_pop(cmd_queue).queue = Unlinked(cmd_queue)
         /\ queue_pop(cmd_queue).cmd = Head(Contents(cmd_queue))
         /\ queue_pop(cmd_queue).cmd \in Command
         /\ queue_pop(cmd_queue).cmd # NULL
         /\ queue_pop(cmd_queue).cmd.id = popped + 1
         /\ WellFormed(Unlinked(cmd_queue))
         /\ Contents(cmd_queue) # <<>>
         /\ Contents(Unlinked(cmd_queue)) = Tail(Contents(cmd_queue))
         /\ Unlinked(cmd_queue).count = cmd_queue.count - 1
         /\ popped + 1 \in 0 .. MaxCommands
<1>1. cmd_queue.count \in Nat \ {0} /\ cmd_queue.count = pushed - popped
  BY QueueSizeAssumption DEF TypeOK, Queue, QueueInv
<1>2. /\ queue_pop(cmd_queue).queue = Unlinked(cmd_queue)
      /\ queue_pop(cmd_queue).cmd = cmd_queue.commands[cmd_queue.front]
  BY DEF queue_pop
<1>3. /\ WellFormed(Unlinked(cmd_queue))
      /\ queue_pop(cmd_queue).cmd \in Command
      /\ Contents(cmd_queue) # <<>>
      /\ queue_pop(cmd_queue).cmd = Head(Contents(cmd_queue))
      /\ Contents(Unlinked(cmd_queue)) = Tail(Contents(cmd_queue))
  BY <1>2, PopTakesHead DEF QueueInv
<1>4. Head(Contents(cmd_queue)) = Contents(cmd_queue)[1]
  BY <1>3, ContentsType DEF QueueInv
<1>5. Contents(cmd_queue)[1].id = popped + 1
  BY <1>1 DEF QueueInv
<1>6. Unlinked(cmd_queue).count = cmd_queue.count - 1
  BY DEF Unlinked
<1>7. popped + 1 \in 0 .. MaxCommands
  BY <1>1, MaxCommandsAssumption DEF TypeOK
<1> QED
  BY <1>2, <1>3, <1>4, <1>5, <1>6, <1>7, NullAssumption

\* DevPop finds a command or leaves the queue alone.
LEMMA DevPopStep ==
  ASSUME TypeOK, QueueInv, DevPop
  PROVE  \/ /\ cmd_queue.count # 0
            /\ cmd_queue' = Unlinked(cmd_queue)
            /\ dev_cmd' = Head(Contents(cmd_queue))
            /\ dev_cmd' \in Command /\ dev_cmd' # NULL /\ dev_cmd'.id = popped + 1
            /\ popped' = popped + 1
            /\ pcDev' = "exec"
         \/ /\ dev_cmd' = NULL
            /\ pcDev' = "loop"
            /\ UNCHANGED <<cmd_queue, popped>>
<1>1. CASE cmd_queue.count # 0
  BY <1>1, PopStep
<1>2. CASE cmd_queue.count = 0
  <2>1. queue_pop(cmd_queue).cmd = NULL /\ queue_pop(cmd_queue).queue = cmd_queue
    BY <1>2 DEF queue_pop
  <2> QED
    BY <2>1
<1> QED
  BY <1>1, <1>2

\* What is left after the first command of the queue is gone.
LEMMA UnlinkedInv ==
  ASSUME TypeOK, QueueInv, cmd_queue.count # 0,
         cmd_queue' = Unlinked(cmd_queue), popped' = popped + 1, pushed' = pushed
  PROVE  QueueInv'
<1>1. /\ WellFormed(cmd_queue')
      /\ Contents(cmd_queue) # <<>>
      /\ Contents(cmd_queue') = Tail(Contents(cmd_queue))
      /\ cmd_queue'.count = cmd_queue.count - 1
  BY PopStep
<1>2. cmd_queue.count \in Nat /\ cmd_queue.count = pushed - popped
  BY QueueSizeAssumption DEF TypeOK, Queue, QueueInv
<1>3. cmd_queue'.count = pushed' - popped'
  BY <1>1, <1>2 DEF TypeOK
<1>4. ASSUME NEW i \in 1 .. cmd_queue'.count
      PROVE  Contents(cmd_queue')[i].id = popped' + i
  <2>1. i \in 1 .. cmd_queue.count - 1 /\ i + 1 \in 1 .. cmd_queue.count
    BY <1>1, <1>2
  <2>2. Contents(cmd_queue) \in Seq(Command) /\ Len(Contents(cmd_queue)) = cmd_queue.count
    BY ContentsType DEF QueueInv
  <2>3. Tail(Contents(cmd_queue))[i] = Contents(cmd_queue)[i + 1]
    BY <1>1, <2>1, <2>2, HeadTailProperties
  <2>4. Contents(cmd_queue)[i + 1].id = popped + (i + 1)
    BY <2>1 DEF QueueInv
  <2>5. popped + (i + 1) = popped + 1 + i
    BY <2>1, <1>2 DEF TypeOK
  <2> QED
    BY <1>1, <2>3, <2>4, <2>5
<1> QED
  BY <1>1, <1>3, <1>4 DEF QueueInv

-----------------------------------------------------------------------------
(***************************************************************************)
(* Each part of the invariant is preserved by every step                   *)
(***************************************************************************)

\* Every step keeps the queue well-formed and its commands numbered in order.
LEMMA QueueStep ==
  ASSUME TypeOK, QueueInv, RequestInv, [Next]_vars
  PROVE  QueueInv'
<1>1. CASE CommPush
  <2>1. /\ cmd_queue' = Stored(cmd_queue, request)
        /\ request.id = pushed + 1
        /\ WellFormed(cmd_queue')
        /\ Contents(cmd_queue') = Append(Contents(cmd_queue), request)
        /\ cmd_queue'.count = cmd_queue.count + 1
    BY <1>1, PushStep
  <2>2. cmd_queue.count \in Nat /\ cmd_queue.count = pushed - popped
    BY QueueSizeAssumption DEF TypeOK, Queue, QueueInv
  <2>3. pushed' = pushed + 1 /\ popped' = popped
    BY <1>1
  <2>4. cmd_queue'.count = pushed' - popped'
    BY <2>1, <2>2, <2>3 DEF TypeOK
  <2>5. ASSUME NEW i \in 1 .. cmd_queue'.count
        PROVE  Contents(cmd_queue')[i].id = popped' + i
    <3>1. /\ Contents(cmd_queue) \in Seq(Command)
          /\ Len(Contents(cmd_queue)) = cmd_queue.count
      BY ContentsType DEF QueueInv
    <3>2. request \in Command
      BY <1>1, PushStep
    <3>3. CASE i = cmd_queue.count + 1
      <4>1. Append(Contents(cmd_queue), request)[i] = request
        BY <3>1, <3>2, <3>3, AppendProperties
      <4>2. pushed + 1 = popped + i
        BY <2>2, <3>3 DEF TypeOK
      <4> QED
        BY <2>1, <2>3, <4>1, <4>2
    <3>4. CASE i # cmd_queue.count + 1
      <4>1. i \in 1 .. cmd_queue.count
        BY <2>1, <2>2, <3>4
      <4>2. Append(Contents(cmd_queue), request)[i] = Contents(cmd_queue)[i]
        BY <3>1, <3>2, <4>1, AppendProperties
      <4> QED
        BY <2>1, <2>3, <4>1, <4>2 DEF QueueInv
    <3> QED
      BY <3>3, <3>4
  <2> QED
    BY <2>1, <2>4, <2>5 DEF QueueInv
<1>2. CASE DevPop
  BY <1>2, DevPopStep, UnlinkedInv DEF QueueInv
<1>3. CASE MainDrain
  BY <1>3, PopStep, UnlinkedInv DEF queue_is_empty
<1>4. CASE UNCHANGED <<cmd_queue, pushed, popped>>
  BY <1>4 DEF QueueInv
<1> QED
  BY <1>1, <1>2, <1>3, <1>4, QueueFrame

\* Every step keeps the number of the request comm is working on.
LEMMA RequestStep ==
  ASSUME TypeOK, RequestInv, [Next]_vars
  PROVE  RequestInv'
<1>1. CASE CommRecv
  <2>1. CASE \E type \in ClientTypes, hasParam \in BOOLEAN : CommRecvCommand(type, hasParam)
    BY <2>1, RecvCommand DEF RequestInv
  <2>2. CASE CommRecvClosed \/ CommRecvInvalid \/ CommRecvExit \/ CommRecvParam
    BY <2>2 DEF RequestInv
  <2> QED
    BY <1>1, <2>1, <2>2
<1>2. CASE CommStep
  BY <1>2 DEF RequestInv
<1>3. CASE DevStep
  BY <1>3 DEF RequestInv
<1>4. CASE MainStep
  BY <1>4 DEF RequestInv
<1>5. CASE EnvStep \/ UNCHANGED vars
  BY <1>5 DEF RequestInv, EnvStep, vars
<1> QED
  BY <1>1, <1>2, <1>3, <1>4, <1>5, StepCases

\* Every step keeps what the device thread holds in line with where it is.
LEMMA HeldStep ==
  ASSUME TypeOK, QueueInv, HeldInv, ControlInv, [Next]_vars
  PROVE  HeldInv'
<1>1. CASE DevPop
  BY <1>1, DevPopStep DEF HeldInv
<1>2. CASE DevStep /\ ~DevPop
  BY <1>2 DEF HeldInv
<1>3. CASE MainStep
  BY <1>3 DEF HeldInv, ControlInv
<1>4. CASE EnvStep \/ CommStep \/ CommRecv \/ UNCHANGED vars
  BY <1>4 DEF HeldInv, EnvStep, vars
<1> QED
  BY <1>1, <1>2, <1>3, <1>4, StepCases

\* Every step keeps the last response in line with the commands taken.
LEMMA ResponseStep ==
  ASSUME TypeOK, QueueInv, HeldInv, ResponseInv, ControlInv, [Next]_vars
  PROVE  ResponseInv'
<1>1. CASE DevPop
  BY <1>1, DevPopStep DEF ResponseInv, ControlInv, TypeOK
<1>2. CASE DevStep /\ ~DevPop
  BY <1>2 DEF ResponseInv, ControlInv, HeldInv, TypeOK
<1>3. CASE MainStep
  BY <1>3 DEF ResponseInv, ControlInv, TypeOK
<1>4. CASE EnvStep \/ CommStep \/ CommRecv \/ UNCHANGED vars
  BY <1>4 DEF ResponseInv, EnvStep, vars
<1> QED
  BY <1>1, <1>2, <1>3, <1>4, StepCases

\* Every step keeps the connections within their bound.
LEMMA ClientsStep ==
  ASSUME TypeOK, ClientsInv, [Next]_vars
  PROVE  ClientsInv'
<1>1. CASE EnvStep \/ MainStep
  BY <1>1, MaxClientsAssumption DEF ClientsInv, EnvStep, TypeOK
<1>2. CASE CommStep \/ CommRecv \/ DevStep \/ UNCHANGED vars
  BY <1>2 DEF ClientsInv, vars
<1> QED
  BY <1>1, <1>2, StepCases

\* Every step keeps the owners of the mutexes where the threads are.
LEMMA ControlStep ==
  ASSUME TypeOK, ControlInv, SessionInv, [Next]_vars
  PROVE  ControlInv'
<1>1. CASE MainStep
  BY <1>1 DEF ControlInv, SessionInv, InSession, TypeOK, queue_is_empty
<1>2. CASE CommStep
  BY <1>2 DEF ControlInv, TypeOK
<1>3. CASE CommRecv
  BY <1>3 DEF ControlInv, TypeOK
<1>4. CASE DevStep
  BY <1>4 DEF ControlInv, TypeOK
<1>5. CASE EnvStep \/ UNCHANGED vars
  BY <1>5 DEF ControlInv, EnvStep, vars
<1> QED
  BY <1>1, <1>2, <1>3, <1>4, <1>5, StepCases

\* Every step keeps the session and its socket in line with main and comm.
LEMMA SessionStep ==
  ASSUME TypeOK, ControlInv, SessionInv, [Next]_vars
  PROVE  SessionInv'
<1>1. CASE MainStep
  BY <1>1 DEF ControlInv, SessionInv, InSession, TypeOK
<1>2. CASE CommStep
  BY <1>2 DEF ControlInv, SessionInv, InSession, TypeOK
<1>3. CASE CommRecv
  BY <1>3 DEF ControlInv, SessionInv, InSession, TypeOK
<1>4. CASE DevStep
  BY <1>4 DEF SessionInv, InSession
<1>5. CASE EnvStep \/ UNCHANGED vars
  BY <1>5 DEF SessionInv, InSession, EnvStep, vars
<1> QED
  BY <1>1, <1>2, <1>3, <1>4, <1>5, StepCases

\* Every step keeps the relation of the request in wait to the last response.
LEMMA AnswerStep ==
  ASSUME TypeOK, QueueInv, RequestInv, HeldInv, ResponseInv, ControlInv, SessionInv,
         AnswerInv, [Next]_vars
  PROVE  AnswerInv'
<1>1. popped <= pushed
  BY QueueSizeAssumption DEF QueueInv, TypeOK, Queue
<1>2. CASE DevRespond
  BY <1>1, <1>2 DEF AnswerInv, CommWoken, RequestInv, HeldInv, ResponseInv, TypeOK
<1>3. CASE DevStep /\ ~DevRespond
  BY <1>3 DEF AnswerInv, CommWoken
<1>4. CASE CommPush
  <2>1. /\ request' = request /\ request.id = pushed + 1
        /\ response' = response /\ response <= pushed
        /\ "comm" \in waiting'
    BY <1>1, <1>4 DEF RequestInv, ResponseInv, TypeOK
  <2>2. ~overlap' => response = pushed
    BY <1>4
  <2> QED
    BY <2>1, <2>2 DEF AnswerInv, CommWoken, TypeOK
<1>5. CASE CommStep /\ ~CommPush
  BY <1>5 DEF AnswerInv, CommWoken
<1>6. CASE CommRecv
  BY <1>6 DEF AnswerInv, CommWoken
<1>7. CASE MainStep
  BY <1>7 DEF AnswerInv, CommWoken, ControlInv, SessionInv, InSession
<1>8. CASE EnvStep \/ UNCHANGED vars
  BY <1>8 DEF AnswerInv, CommWoken, EnvStep, vars
<1> QED
  BY <1>2, <1>3, <1>4, <1>5, <1>6, <1>7, <1>8, StepCases

\* Every step keeps what has been sent behind what has been answered.
LEMMA SentStep ==
  ASSUME TypeOK, HeldInv, ResponseInv, ControlInv, SessionInv, SentInv, [Next]_vars
  PROVE  SentInv'
<1>1. CASE DevRespond
  BY <1>1 DEF SentInv, CommWoken, HeldInv, ResponseInv, TypeOK
<1>2. CASE DevStep /\ ~DevRespond
  BY <1>2 DEF SentInv, CommWoken
<1>3. CASE CommStep
  BY <1>3 DEF SentInv, CommWoken, TypeOK
<1>4. CASE CommRecv
  BY <1>4 DEF SentInv, CommWoken
<1>5. CASE MainStep
  BY <1>5 DEF SentInv, CommWoken, ControlInv, SessionInv, InSession
<1>6. CASE EnvStep \/ UNCHANGED vars
  BY <1>6 DEF SentInv, CommWoken, EnvStep, vars
<1> QED
  BY <1>1, <1>2, <1>3, <1>4, <1>5, <1>6, StepCases

(***************************************************************************)
(* Type correctness, by groups of variables                                *)
(***************************************************************************)
TypeFlags ==
  /\ g_running \in BOOLEAN /\ server_running \in BOOLEAN /\ destroyed \in BOOLEAN
  /\ sensor_monitoring \in BOOLEAN /\ client_connected \in BOOLEAN
  /\ overlap \in BOOLEAN /\ spurious \in BOOLEAN

TypeControl ==
  /\ queue_mutex \in {"free", "device"}
  /\ state_mutex \in {"free", "main", "comm"}
  /\ waiting \subseteq {"comm", "device"}
  /\ pcMain \in MainLabels /\ pcComm \in CommLabels /\ pcDev \in DevLabels

TypeSockets ==
  /\ client_socket \in {-1} \cup 1 .. MaxClients
  /\ comm_socket \in {-1} \cup 1 .. MaxClients
  /\ backlog \in 0 .. MaxClients
  /\ accepted \in 0 .. MaxClients
  /\ open_sockets \subseteq 1 .. MaxClients

TypeCommands ==
  /\ cmd_queue \in Queue
  /\ response \in 0 .. MaxCommands
  /\ request \in Command \cup {NULL}
  /\ dev_cmd \in Command \cup {NULL}
  /\ pushed \in 0 .. MaxCommands
  /\ popped \in 0 .. MaxCommands
  /\ reply \in [request : 0 .. MaxCommands, response : 0 .. MaxCommands]

\* The type invariant, split into four groups of variables.
LEMMA TypeParts == TypeOK <=> TypeFlags /\ TypeControl /\ TypeSockets /\ TypeCommands
BY DEF TypeOK, TypeFlags, TypeControl, TypeSockets, TypeCommands

\* Every step keeps the types of the flags.
LEMMA TypeFlagsStep ==
  ASSUME TypeOK, [Next]_vars
  PROVE  TypeFlags'
<1>1. TypeFlags
  BY TypeParts
<1>2. CASE MainStep
  BY <1>1, <1>2, Zenon DEF TypeFlags
<1>3. CASE CommStep
  BY <1>1, <1>3, Zenon DEF TypeFlags
<1>4. CASE CommRecv
  BY <1>1, <1>4, Zenon DEF TypeFlags
<1>5. CASE DevStep
  BY <1>1, <1>5, Zenon DEF TypeFlags
<1>6. CASE EnvStep
  BY <1>1, <1>6, Zenon DEF TypeFlags, EnvStep
<1>7. CASE UNCHANGED vars
  BY <1>1, <1>7, Zenon DEF TypeFlags, vars
<1> QED
  BY <1>2, <1>3, <1>4, <1>5, <1>6, <1>7, StepCases

\* Every step keeps the types of the control state.
LEMMA TypeControlStep ==
  ASSUME TypeOK, QueueInv, [Next]_vars
  PROVE  TypeControl'
<1> USE DEF TypeControl
<1>1. TypeControl
  BY TypeParts
<1>2. CASE MainStep
  <2>1. CASE MainCleanup
    <3>1. waiting' \subseteq waiting
      BY <2>1
    <3> QED
      BY <1>1, <2>1, <3>1 DEF MainLabels
  <2>2. CASE ~MainCleanup
    BY <1>1, <1>2, <2>2 DEF MainLabels, CommLabels
  <2> QED
    BY <2>1, <2>2
<1>3. CASE CommStep
  BY <1>1, <1>3 DEF CommLabels
<1>4. CASE CommRecv
  BY <1>1, <1>4 DEF CommLabels
<1>5. CASE DevStep
  BY <1>1, <1>5 DEF DevLabels
<1>6. CASE EnvStep
  BY <1>1, <1>6 DEF EnvStep, CommLabels
<1>7. CASE UNCHANGED vars
  BY <1>1, <1>7 DEF vars
<1> QED
  BY <1>2, <1>3, <1>4, <1>5, <1>6, <1>7, StepCases

\* Every step keeps the types of the sockets and connections.
LEMMA TypeSocketsStep ==
  ASSUME TypeOK, ClientsInv, SessionInv, [Next]_vars
  PROVE  TypeSockets'
<1> USE DEF TypeSockets
<1>1. TypeSockets
  BY TypeParts
<1>2. CASE MainStep
  BY <1>1, <1>2, MaxClientsAssumption DEF ClientsInv, SessionInv
<1>3. CASE CommStep
  BY <1>1, <1>3
<1>4. CASE CommRecv
  BY <1>1, <1>4
<1>5. CASE DevStep
  BY <1>1, <1>5
<1>6. CASE EnvStep
  <2>1. CASE ClientConnect
    BY <1>1, <2>1, MaxClientsAssumption
  <2>2. CASE signal_handler \/ CommSpuriousWakeup
    BY <1>1, <2>2
  <2> QED
    BY <1>6, <2>1, <2>2 DEF EnvStep
<1>7. CASE UNCHANGED vars
  BY <1>1, <1>7 DEF vars
<1> QED
  BY <1>2, <1>3, <1>4, <1>5, <1>6, <1>7, StepCases

\* Every step keeps the types of the commands and of their numbers.
LEMMA TypeCommandsStep ==
  ASSUME TypeOK, QueueInv, RequestInv, HeldInv, [Next]_vars
  PROVE  TypeCommands'
<1>1. TypeCommands
  BY TypeParts
<1>2. CASE MainStep
  <2>1. CASE MainDrain
    <3>1. cmd_queue' \in Queue /\ popped' \in 0 .. MaxCommands
      BY <2>1, PopStep DEF WellFormed, queue_is_empty
    <3> QED
      BY <1>1, <2>1, <3>1 DEF TypeCommands
  <2>2. CASE ~MainDrain
    BY <1>1, <1>2, <2>2 DEF TypeCommands
  <2> QED
    BY <2>1, <2>2
<1>3. CASE CommStep
  <2>1. CASE CommPush
    <3>1. cmd_queue' \in Queue /\ pushed' \in 0 .. MaxCommands
      BY <2>1, PushStep DEF WellFormed
    <3> QED
      BY <1>1, <2>1, <3>1 DEF TypeCommands
  <2>2. CASE \E sent \in BOOLEAN : CommReply(sent)
    <3>1. request.id \in 0 .. MaxCommands
      BY <1>1, <2>2, MaxCommandsAssumption DEF RequestInv, Command, TypeCommands
    <3>2. reply' \in [request : 0 .. MaxCommands, response : 0 .. MaxCommands]
      BY <1>1, <2>2, <3>1 DEF TypeCommands
    <3> QED
      BY <1>1, <2>2, <3>2 DEF TypeCommands
  <2>3. CASE ~CommPush /\ ~\E sent \in BOOLEAN : CommReply(sent)
    BY <1>1, <1>3, <2>3 DEF TypeCommands
  <2> QED
    BY <2>1, <2>2, <2>3
<1>4. CASE CommRecv
  <2>1. CASE \E type \in ClientTypes, hasParam \in BOOLEAN : CommRecvCommand(type, hasParam)
    BY <1>1, <2>1, RecvCommand DEF TypeCommands
  <2>2. CASE CommRecvClosed \/ CommRecvInvalid \/ CommRecvExit \/ CommRecvParam
    BY <1>1, <2>2 DEF TypeCommands
  <2> QED
    BY <1>4, <2>1, <2>2
<1>5. CASE DevStep
  <2>1. CASE DevPop
    <3>1. /\ cmd_queue' \in Queue
          /\ dev_cmd' \in Command \cup {NULL}
          /\ popped' \in 0 .. MaxCommands
      BY <1>1, <2>1, DevPopStep, PopStep DEF WellFormed, TypeCommands
    <3> QED
      BY <1>1, <2>1, <3>1 DEF TypeCommands
  <2>2. CASE DevRespond
    <3>1. response' \in 0 .. MaxCommands
      BY <1>1, <2>2, MaxCommandsAssumption DEF HeldInv, Command, TypeCommands
    <3> QED
      BY <1>1, <2>2, <3>1 DEF TypeCommands
  <2>3. CASE ~DevPop /\ ~DevRespond
    BY <1>1, <1>5, <2>3 DEF TypeCommands
  <2> QED
    BY <2>1, <2>2, <2>3
<1>6. CASE EnvStep
  BY <1>1, <1>6 DEF EnvStep, TypeCommands
<1>7. CASE UNCHANGED vars
  BY <1>1, <1>7 DEF vars, TypeCommands
<1> QED
  BY <1>2, <1>3, <1>4, <1>5, <1>6, <1>7, StepCases

\* Every step preserves the type invariant.
LEMMA TypeStep ==
  ASSUME TypeOK, QueueInv, RequestInv, HeldInv, ClientsInv, SessionInv, [Next]_vars
  PROVE  TypeOK'
BY TypeFlagsStep, TypeControlStep, TypeSocketsStep, TypeCommandsStep
   DEF TypeOK, TypeFlags, TypeControl, TypeSockets, TypeCommands

-----------------------------------------------------------------------------
(***************************************************************************)
(* The invariant holds, and what follows from it                           *)
(***************************************************************************)
IInv ==
  /\ TypeOK /\ QueueInv /\ RequestInv /\ HeldInv /\ ResponseInv
  /\ ClientsInv /\ ControlInv /\ SessionInv /\ AnswerInv /\ SentInv

\* The inductive invariant holds when server_init is done.
LEMMA InitIInv == Init => IInv
<1> SUFFICES ASSUME Init PROVE IInv
  OBVIOUS
<1>1. WellFormed(cmd_queue) /\ cmd_queue \in Queue /\ cmd_queue.count = 0
  BY InitEmpty DEF Init, WellFormed, queue_init
<1>2. TypeOK
  <2>1. TypeFlags /\ TypeControl
    BY DEF Init, TypeFlags, TypeControl, MainLabels, CommLabels, DevLabels
  <2>2. TypeSockets
    BY MaxClientsAssumption DEF Init, TypeSockets
  <2>3. TypeCommands
    BY <1>1, MaxCommandsAssumption DEF Init, TypeCommands
  <2> QED
    BY <2>1, <2>2, <2>3, TypeParts
<1>3. QueueInv
  BY <1>1 DEF Init, QueueInv
<1>4. RequestInv /\ HeldInv /\ ResponseInv /\ ClientsInv
  BY MaxClientsAssumption DEF Init, RequestInv, HeldInv, ResponseInv, ClientsInv
<1>5. ControlInv /\ SessionInv
  BY DEF Init, ControlInv, SessionInv, InSession
<1>6. AnswerInv /\ SentInv
  BY DEF Init, AnswerInv, SentInv, CommWoken
<1> QED
  BY <1>2, <1>3, <1>4, <1>5, <1>6 DEF IInv

\* Every step preserves the inductive invariant.
LEMMA NextIInv == IInv /\ [Next]_vars => IInv'
BY QueueStep, RequestStep, HeldStep, ResponseStep, ClientsStep, ControlStep,
   SessionStep, AnswerStep, SentStep, TypeStep DEF IInv

\* IInv is an invariant of the server, whatever the sizes.
THEOREM Inductive == Spec => []IInv
BY InitIInv, NextIInv, PTL DEF Spec

\* The variables keep their types: no index leaves the ring buffer, no counter
\* its range.
THEOREM TypeCorrect == Spec => []TypeOK
<1>1. IInv => TypeOK
  BY DEF IInv
<1> QED
  BY <1>1, Inductive, PTL

\* No accepted command is lost, executed twice or reordered.
THEOREM Accounting == Spec => []CommandAccounting
<1>1. IInv => CommandAccounting
  <2> SUFFICES ASSUME IInv PROVE CommandAccounting
    OBVIOUS
  <2>1. /\ Len(Contents(cmd_queue)) = cmd_queue.count
        /\ cmd_queue.count = pushed - popped
        /\ \A i \in 1 .. cmd_queue.count : Contents(cmd_queue)[i].id = popped + i
    <3>1. QueueInv
      BY DEF IInv
    <3>2. WellFormed(cmd_queue)
      BY <3>1 DEF QueueInv
    <3>3. Len(Contents(cmd_queue)) = cmd_queue.count
      BY <3>2, ContentsType
    <3> QED
      BY <3>1, <3>3 DEF QueueInv
  <2>2. pcMain \notin {"teardown", "stopped"} =>
          IF pcDev \in {"exec", "respond"}
          THEN response = popped - 1 /\ dev_cmd.id = popped
          ELSE response = popped
    BY DEF IInv, HeldInv, ResponseInv
  <2>3. pcMain = "stopped" => popped = pushed /\ dev_cmd = NULL
    BY <2>1 DEF IInv, ControlInv, HeldInv, TypeOK
  <2> QED
    BY <2>1, <2>2, <2>3 DEF CommandAccounting
<1> QED
  BY <1>1, Inductive, PTL

\* The signal for a request comm waits for is never in the past.
THEOREM Wakeups == Spec => []NoLostWakeup
<1>1. IInv => NoLostWakeup
  BY DEF IInv, AnswerInv, NoLostWakeup
<1> QED
  BY <1>1, Inductive, PTL

\* Without timeouts and spurious wakeups a client gets its own answer.
THEOREM OwnAnswer == Spec => []AnswersOwnRequest
<1>1. IInv => AnswersOwnRequest
  BY DEF IInv, AnswerInv, AnswersOwnRequest
<1> QED
  BY <1>1, Inductive, PTL

\* The server never serves two clients at once, nor joins a thread twice.
THEOREM Sessions == Spec => []OneSession
<1>1. IInv => OneSession
  BY DEF IInv, ControlInv, SessionInv, InSession, OneSession
<1> QED
  BY <1>1, Inductive, PTL

\* Client sockets are closed exactly once.
THEOREM Sockets == Spec => []SocketDiscipline
<1>1. IInv => SocketDiscipline
  BY DEF IInv, ControlInv, SessionInv, InSession, SocketDiscipline
<1> QED
  BY <1>1, Inductive, PTL

\* Of main, comm and the device thread none holds or waits for a mutex or condition
\* variable that has been destroyed.
THEOREM SafeTeardown == Spec => []DestroyedAfterJoins
<1>1. IInv => DestroyedAfterJoins
  BY DEF IInv, ControlInv, TypeOK, DestroyedAfterJoins
<1> QED
  BY <1>1, Inductive, PTL

\* One response is never sent for two requests, and never before the command
\* it answers was accepted, unless the wait ended spuriously.
ResponseSentOnce ==
  [][reply' # reply =>
       /\ reply'.response <= reply'.request
       /\ spurious \/ reply'.response > reply.response]_vars

\* No response goes out twice, or before its command was accepted.
THEOREM SentOnce == Spec => ResponseSentOnce
<1>1. IInv /\ [Next]_vars =>
        [reply' # reply => /\ reply'.response <= reply'.request
                           /\ spurious \/ reply'.response > reply.response]_vars
  <2> SUFFICES ASSUME IInv, [Next]_vars, reply' # reply
               PROVE  /\ reply'.response <= reply'.request
                      /\ spurious \/ reply'.response > reply.response
    OBVIOUS
  <2>1. PICK sent \in BOOLEAN : CommReply(sent)
    BY StepCases DEF EnvStep, vars
  <2>2. /\ reply' = [request |-> request.id, response |-> response]
        /\ CommWoken
    BY <2>1 DEF CommWoken
  <2>3. request.id = pushed /\ response <= pushed
    BY <2>2, QueueSizeAssumption
       DEF IInv, CommWoken, RequestInv, ResponseInv, QueueInv, TypeOK, Queue
  <2>4. spurious \/ response > reply.response
    BY <2>2 DEF IInv, SentInv, TypeOK
  <2> QED
    BY <2>2, <2>3, <2>4 DEF IInv, TypeOK
<1> QED
  BY <1>1, Inductive, PTL DEF Spec, ResponseSentOnce

\* The threads implement the abstract queue of CommandFifo.
THEOREM Refinement == Spec => FifoRefinement
<1>1. Init => Fifo!Init
  BY InitEmpty DEF Init, Fifo!Init
<1>2. IInv /\ [Next]_vars => [Fifo!Next]_(Fifo!vars)
  <2> SUFFICES ASSUME IInv, [Next]_vars
               PROVE  Fifo!Next \/ UNCHANGED <<Contents(cmd_queue), dev_cmd>>
    BY DEF Fifo!vars
  <2> USE DEF IInv
  <2>1. CASE CommPush
    <3>1. Fifo!Accept(request)
      BY <2>1, PushStep, ContentsType DEF Fifo!Accept, QueueInv
    <3> QED
      BY <2>1, <3>1, PushStep DEF Fifo!Next
  <2>2. CASE DevPop
    <3>1. dev_cmd = NULL
      BY <2>2 DEF HeldInv
    <3>2. CASE cmd_queue.count # 0 /\ cmd_queue' = Unlinked(cmd_queue)
                 /\ dev_cmd' = Head(Contents(cmd_queue))
      BY <3>1, <3>2, PopStep DEF Fifo!Next, Fifo!Take
    <3>3. CASE dev_cmd' = NULL /\ UNCHANGED cmd_queue
      BY <3>1, <3>3
    <3> QED
      BY <2>2, <3>2, <3>3, DevPopStep
  <2>3. CASE MainDrain
    <3>1. dev_cmd = NULL /\ dev_cmd' = NULL
      BY <2>3 DEF ControlInv, HeldInv
    <3> QED
      BY <2>3, <3>1, PopStep DEF queue_is_empty, Fifo!Next, Fifo!Discard
  <2>4. CASE DevFree
    <3>1. dev_cmd # NULL /\ dev_cmd' = NULL /\ UNCHANGED cmd_queue
      BY <2>4 DEF HeldInv
    <3> QED
      BY <3>1 DEF Fifo!Next, Fifo!Finish
  <2>5. CASE UNCHANGED <<cmd_queue, dev_cmd>>
    BY <2>5
  <2> QED
    BY <2>1, <2>2, <2>3, <2>4, <2>5, FifoFrame
<1> QED
  BY <1>1, <1>2, Inductive, PTL DEF Spec, FifoRefinement, Fifo!Spec

-----------------------------------------------------------------------------
(***************************************************************************)
(* The threads implement the service of RemoteControl                      *)
(***************************************************************************)
serviceView == <<accepted, open_sockets, pushed, response, ClientWait, reply, destroyed>>

\* Accepting a connection opens a session: no other one is open.
LEMMA AcceptConnects == ASSUME IInv, MainAccept PROVE Service!Next
<1>1. ~(open_sockets # {}) /\ (open_sockets # {})'
  BY DEF IInv, ControlInv, SessionInv, InSession
<1>2. ~destroyed
  BY DEF IInv, ControlInv
<1> QED
  BY <1>1, <1>2 DEF Service!Next, Service!Connect, ClientWait

\* The session ends with the socket of its client, and only outside a wait.
LEMMA ClosingDisconnects ==
  ASSUME IInv, MainSpawnFail \/ CommDisconnect
  PROVE  Service!Next
<1>1. open_sockets # {} /\ ~(open_sockets # {})'
  BY DEF IInv, ControlInv, SessionInv, InSession
<1>2. ~destroyed
  BY DEF IInv, ControlInv
<1>3. ClientWait = "no" /\ ClientWait' = "no"
  BY DEF IInv, ControlInv, ClientWait
<1> QED
  BY <1>1, <1>2, <1>3 DEF Service!Next, Service!Disconnect

\* Queueing a request is asking.
LEMMA PushAsks == ASSUME IInv, CommPush PROVE Service!Next
<1>1. open_sockets # {}
  BY DEF IInv, ControlInv, SessionInv, InSession
<1>2. ~destroyed
  BY DEF IInv, ControlInv
<1>3. ClientWait = "no" /\ ClientWait' = "blocked"
  BY DEF ClientWait
<1> QED
  BY <1>1, <1>2, <1>3 DEF Service!Next, Service!Ask

\* Publishing a response is performing the oldest request not yet performed,
\* and wakes the client that waits, if there is one.
LEMMA RespondPerforms == ASSUME IInv, DevRespond PROVE Service!Next
<1>1. response' = response + 1
  BY DEF IInv, HeldInv, ResponseInv, TypeOK
<1>2. response < pushed
  BY QueueSizeAssumption DEF IInv, ResponseInv, QueueInv, TypeOK, Queue
<1>3. ~destroyed
  BY DEF IInv, ControlInv
<1>4. ClientWait' = IF ClientWait = "blocked" THEN "signalled" ELSE ClientWait
  BY DEF IInv, ControlInv, ClientWait
<1> QED
  BY <1>1, <1>2, <1>3, <1>4 DEF Service!Next, Service!Perform

\* Sending a response is answering the last request with the latest result.
LEMMA ReplyAnswers == ASSUME IInv, NEW sent \in BOOLEAN, CommReply(sent) PROVE Service!Next
<1>1. request.id = pushed
  BY DEF IInv, RequestInv
<1>2. ClientWait \in {"signalled", "spurious"} /\ ClientWait' = "no"
  BY DEF ClientWait
<1>3. ~destroyed
  BY DEF IInv, ControlInv
<1> QED
  BY <1>1, <1>2, <1>3 DEF Service!Next, Service!Answer

\* The wait ends without a response.
LEMMA TimeoutGivesUp == ASSUME IInv, CommTimeout \/ CommSpuriousWakeup PROVE Service!Next
<1>1. ~destroyed
  BY DEF IInv, ControlInv
<1>2. CASE CommTimeout
  BY <1>1, <1>2 DEF Service!Next, Service!GiveUp, ClientWait
<1>3. CASE CommSpuriousWakeup
  BY <1>1, <1>3 DEF Service!Next, Service!WakeSpuriously, ClientWait
<1> QED
  BY <1>2, <1>3

\* The end of server_cleanup stops the service, outside any session.
LEMMA TeardownStops == ASSUME IInv, MainTeardown PROVE Service!Next
<1>1. open_sockets = {} /\ ~destroyed /\ open_sockets' = {}
  BY DEF IInv, ControlInv, SessionInv, InSession
<1> QED
  BY <1>1 DEF Service!Next, Service!Stop, ClientWait

\* The other steps are not visible to a client: in particular the branches for a
\* client that is already connected are never taken.
LEMMA OthersInvisible ==
  ASSUME IInv, [Next]_vars
  PROVE  \/ MainAccept \/ MainSpawnFail \/ CommDisconnect \/ CommPush \/ DevRespond
         \/ (\E sent \in BOOLEAN : CommReply(sent))
         \/ CommTimeout \/ CommSpuriousWakeup \/ MainTeardown
         \/ UNCHANGED serviceView
<1> USE DEF serviceView, ClientWait
<1>1. CASE MainStep
  BY <1>1 DEF IInv, ControlInv, SessionInv, InSession
<1>2. CASE CommStep
  BY <1>2
<1>3. CASE CommRecv
  BY <1>3
<1>4. CASE DevStep
  BY <1>4
<1>5. CASE EnvStep \/ UNCHANGED vars
  BY <1>5 DEF EnvStep, vars
<1> QED
  BY <1>1, <1>2, <1>3, <1>4, <1>5, StepCases

\* What clients see of the server is a behaviour of RemoteControl.
THEOREM Serves == Spec => ServiceRefinement
<1>1. Init => Service!Init
  BY DEF Init, Service!Init, ClientWait
<1>2. IInv /\ [Next]_vars => [Service!Next]_(Service!vars)
  <2> SUFFICES ASSUME IInv, [Next]_vars
               PROVE  Service!Next \/ UNCHANGED Service!vars
    OBVIOUS
  <2> HIDE DEF MainAccept, MainSpawnFail, MainTeardown, CommDisconnect, CommPush, CommReply,
               CommTimeout, CommSpuriousWakeup, DevRespond
  <2>1. UNCHANGED serviceView => UNCHANGED Service!vars
    BY DEF serviceView, Service!vars
  <2>2. CASE MainAccept
    BY <2>2, AcceptConnects
  <2>3. CASE MainSpawnFail \/ CommDisconnect
    BY <2>3, ClosingDisconnects
  <2>4. CASE CommPush
    BY <2>4, PushAsks
  <2>5. CASE DevRespond
    BY <2>5, RespondPerforms
  <2>6. CASE \E sent \in BOOLEAN : CommReply(sent)
    BY <2>6, ReplyAnswers
  <2>7. CASE CommTimeout \/ CommSpuriousWakeup
    BY <2>7, TimeoutGivesUp
  <2>8. CASE MainTeardown
    BY <2>8, TeardownStops
  <2> QED
    BY <2>1, <2>2, <2>3, <2>4, <2>5, <2>6, <2>7, <2>8, OthersInvisible
<1> QED
  BY <1>1, <1>2, Inductive, PTL DEF Spec, ServiceRefinement, Service!Spec

\* The threads never wait for each other in a circle.
THEOREM DeadlockFree == Spec => []NoCircularWait
<1>1. IInv => NoCircularWait
  <2> SUFFICES ASSUME IInv PROVE NoCircularWait
    OBVIOUS
  <2> USE DEF IInv, ControlInv, TypeOK, WaitsFor, WantsQueue, WantsState, CommWoken, Threads
  <2>1. /\ ~WaitsFor("main", "main") /\ ~WaitsFor("comm", "comm")
        /\ ~WaitsFor("device", "device")
    OBVIOUS
  <2>2. state_mutex = "main" =>
          \A t \in Threads : ~WaitsFor("main", t) /\ ~WaitsFor("device", "comm")
    OBVIOUS
  <2>3. state_mutex = "comm" =>
          \A t \in Threads : ~WaitsFor("comm", t) /\ ~WaitsFor("device", "main")
    OBVIOUS
  <2>4. state_mutex = "free" =>
          \A t \in Threads : ~WaitsFor("device", t) /\ ~WaitsFor("comm", "main")
    OBVIOUS
  <2>5. ASSUME NEW S \in (SUBSET Threads) \ {{}}
        PROVE  \E t \in S : \A u \in S : ~WaitsFor(t, u)
    <3>1. state_mutex \in {"free", "main", "comm"}
      OBVIOUS
    <3> HIDE DEF IInv, ControlInv, TypeOK, WaitsFor, WantsQueue, WantsState, CommWoken
    <3>2. CASE state_mutex = "main"
      <4>0. "main" \in S \/ "device" \in S \/ S = {"comm"}
        BY DEF Threads
      <4>1. CASE "main" \in S
        BY <2>2, <3>2, <4>1
      <4>2. CASE "main" \notin S /\ "device" \in S
        BY <2>1, <2>2, <3>2, <4>2
      <4>3. CASE S = {"comm"}
        BY <2>1, <4>3
      <4> QED
        BY <4>0, <4>1, <4>2, <4>3
    <3>3. CASE state_mutex = "comm"
      <4>0. "comm" \in S \/ "device" \in S \/ S = {"main"}
        BY DEF Threads
      <4>1. CASE "comm" \in S
        BY <2>3, <3>3, <4>1
      <4>2. CASE "comm" \notin S /\ "device" \in S
        BY <2>1, <2>3, <3>3, <4>2
      <4>3. CASE S = {"main"}
        BY <2>1, <4>3
      <4> QED
        BY <4>0, <4>1, <4>2, <4>3
    <3>4. CASE state_mutex = "free"
      <4>0. "device" \in S \/ "comm" \in S \/ S = {"main"}
        BY DEF Threads
      <4>1. CASE "device" \in S
        BY <2>4, <3>4, <4>1
      <4>2. CASE "device" \notin S /\ "comm" \in S
        BY <2>1, <2>4, <3>4, <4>2
      <4>3. CASE S = {"main"}
        BY <2>1, <4>3
      <4> QED
        BY <4>0, <4>1, <4>2, <4>3
    <3> QED
      BY <3>1, <3>2, <3>3, <3>4
  <2>6. /\ pcDev = "done" => queue_mutex = "free"
        /\ pcComm \in {"none", "done"} => state_mutex # "comm"
    OBVIOUS
  <2> QED
    BY <2>5, <2>6 DEF NoCircularWait
<1> QED
  BY <1>1, Inductive, PTL

-----------------------------------------------------------------------------
(***************************************************************************)
(* The shutdown takes a bounded number of steps                            *)
(***************************************************************************)
Moves == StepsLeft' < StepsLeft
Rests == UNCHANGED <<pcMain, pcComm, pcDev, waiting, cmd_queue>>

\* The numbers of steps are natural numbers.
LEMMA LeftType ==
  /\ \A label \in MainLabels : MainLeft[label] \in Nat
  /\ \A label \in CommLabels : CommLeft[label] \in Nat
  /\ \A label \in DevLabels : DevLeft[label] \in Nat
<1>1. \A label \in MainLabels : MainLeft[label] \in Nat
  BY DEF MainLabels, MainLeft
<1>2. \A label \in CommLabels : CommLeft[label] \in Nat
  BY DEF CommLabels, CommLeft
<1>3. \A label \in DevLabels : DevLeft[label] \in Nat
  BY DEF DevLabels, DevLeft
<1> QED
  BY <1>1, <1>2, <1>3

\* All parts of the sum are natural numbers, before and after a step.
LEMMA PartsType ==
  ASSUME IInv, Next
  PROVE  /\ MainLeft[pcMain] \in Nat /\ CommLeft[pcComm] \in Nat /\ DevLeft[pcDev] \in Nat
         /\ cmd_queue.count \in Nat /\ Waits("comm") \in 0 .. 1 /\ Waits("device") \in 0 .. 1
         /\ MainLeft[pcMain'] \in Nat /\ CommLeft[pcComm'] \in Nat
         /\ DevLeft[pcDev'] \in Nat /\ cmd_queue'.count \in Nat
         /\ Waits("comm")' \in 0 .. 1 /\ Waits("device")' \in 0 .. 1
<1>1. TypeControl /\ cmd_queue \in Queue /\ TypeControl' /\ cmd_queue' \in Queue
  BY NextIInv, TypeParts DEF IInv, TypeOK, TypeControl
<1>2. Waits("comm") \in 0 .. 1 /\ Waits("device") \in 0 .. 1
      /\ Waits("comm")' \in 0 .. 1 /\ Waits("device")' \in 0 .. 1
  BY DEF Waits
<1>3. cmd_queue.count \in Nat /\ cmd_queue'.count \in Nat
  BY <1>1, QueueSizeAssumption DEF Queue
<1> QED
  BY <1>1, <1>2, <1>3, LeftType DEF TypeControl

\* The device thread: it only touches its own part and comm's wait.
LEMMA DevMoves ==
  ASSUME IInv, ~server_running, Next, DevStep
  PROVE  Moves
<1>1. cmd_queue' = cmd_queue /\ pcMain' = pcMain /\ pcComm' = pcComm
  OBVIOUS
<1>2. Waits("comm")' <= Waits("comm")
  BY DEF Waits
<1>3. DevLeft[pcDev'] + Waits("device")' < DevLeft[pcDev] + Waits("device")
  <2> USE DEF DevLeft, Waits
  <2>1. CASE DevLoop \/ DevLockQueue \/ DevCheck \/ DevStop \/ DevPop
    BY <2>1
  <2>2. CASE DevWait
    <3>1. "device" \notin waiting
      BY <2>2 DEF IInv, ControlInv
    <3> QED
      BY <2>2, <3>1
  <2>3. CASE DevTimeout
    BY <2>3
  <2>4. CASE DevWake \/ DevMonitor \/ DevSense
    BY <2>4
  <2>5. CASE DevExec \/ DevRespond \/ DevFree
    BY <2>5
  <2> QED
    BY <2>1, <2>2, <2>3, <2>4, <2>5
<1> HIDE DEF DevStep
<1> QED
  BY <1>1, <1>2, <1>3, PartsType DEF Moves, StepsLeft

\* Comm: CommPush moves it by three, the queue and its own wait by one each.
LEMMA CommMoves ==
  ASSUME IInv, ~server_running, Next, CommStep \/ CommRecv \/ CommSpuriousWakeup
  PROVE  Moves
<1>1. pcDev' = pcDev /\ pcMain' = pcMain
  OBVIOUS
<1>2. Waits("device")' <= Waits("device")
  BY DEF Waits
<1>3. CASE CommPush
  <2>1. cmd_queue'.count = cmd_queue.count + 1
    BY <1>3, PushStep DEF IInv
  <2>2. CommLeft[pcComm] = 9 /\ CommLeft[pcComm'] = 6
    BY <1>3 DEF CommLeft
  <2> HIDE DEF CommPush, CommStep, CommRecv, CommSpuriousWakeup
  <2>3. MainLeft[pcMain'] = MainLeft[pcMain] /\ DevLeft[pcDev'] = DevLeft[pcDev]
    BY <1>1
  <2> QED
    BY <1>2, <2>1, <2>2, <2>3, PartsType DEF Moves, StepsLeft
<1>4. CASE ~CommPush
  <2>1. cmd_queue' = cmd_queue
    BY <1>4
  <2>2. CommLeft[pcComm'] + Waits("comm")' < CommLeft[pcComm] + Waits("comm")
    <3> USE DEF CommLeft, Waits
    <3>1. CASE CommTimeout \/ CommSpuriousWakeup
      BY <3>1
    <3>2. CASE CommStep /\ ~CommTimeout
      BY <1>4, <3>2
    <3>3. CASE CommRecv
      BY <3>3
    <3> QED
      BY <3>1, <3>2, <3>3
  <2> HIDE DEF CommPush, CommStep, CommRecv, CommSpuriousWakeup
  <2> QED
    BY <1>1, <1>2, <2>1, <2>2, PartsType DEF Moves, StepsLeft
<1> QED
  BY <1>3, <1>4

\* Main: creating comm and joining it move both, MainDrain empties the queue.
LEMMA MainMoves ==
  ASSUME IInv, ~server_running, Next, MainStep
  PROVE  Moves
<1>1. pcDev' = pcDev
  OBVIOUS
<1>2. Waits("device")' <= Waits("device") /\ Waits("comm")' <= Waits("comm")
  BY DEF Waits
<1>3. CASE MainDrain
  <2>1. cmd_queue'.count = cmd_queue.count - 1
    BY <1>3, PopStep DEF IInv, queue_is_empty
  <2>2. pcMain' = pcMain /\ pcComm' = pcComm
    BY <1>3
  <2> HIDE DEF MainStep, MainDrain
  <2> QED
    BY <1>1, <1>2, <2>1, <2>2, PartsType DEF Moves, StepsLeft
<1>4. CASE ~MainDrain
  <2>1. cmd_queue' = cmd_queue
    BY <1>4
  <2>2. MainLeft[pcMain'] + CommLeft[pcComm'] < MainLeft[pcMain] + CommLeft[pcComm]
    <3>1. CASE MainSpawn \/ MainJoin
      BY <3>1 DEF MainLeft, CommLeft, IInv, ControlInv
    <3>2. CASE ~MainSpawn /\ ~MainJoin
      <4>1. pcComm' = pcComm
        BY <1>4, <3>2
      <4>2. MainLeft[pcMain'] < MainLeft[pcMain]
        BY <1>4, <3>2 DEF MainLeft, IInv, ControlInv, SessionInv, InSession
      <4> HIDE DEF MainStep, MainDrain, MainSpawn, MainJoin
      <4> QED
        BY <4>1, <4>2, PartsType
    <3> QED
      BY <3>1, <3>2
  <2> HIDE DEF MainStep, MainDrain
  <2> QED
    BY <1>1, <1>2, <2>1, <2>2, PartsType DEF Moves, StepsLeft
<1> QED
  BY <1>3, <1>4

\* Once server_running is cleared it stays so, and every step of a thread moves
\* the server nearer to its end.
THEOREM BoundedShutdown == Spec => WindsDown
<1>1. IInv /\ [Next]_vars =>
        [~server_running => ~server_running' /\ (Rests \/ Moves)]_vars
  <2> SUFFICES ASSUME IInv, Next, ~server_running
               PROVE  ~server_running' /\ (Rests \/ Moves)
    OBVIOUS
  <2>1. ~server_running'
    BY StepCases DEF EnvStep, vars
  <2>2. CASE ClientConnect \/ UNCHANGED vars
    BY <2>2 DEF Rests, vars
  <2>3. CASE signal_handler
    <3>1. CASE UNCHANGED pcComm
      BY <2>3, <3>1 DEF Rests
    <3>2. CASE pcComm \in {"recv", "param"} /\ pcComm' = "exit"
      <4>1. /\ CommLeft[pcComm'] < CommLeft[pcComm]
            /\ UNCHANGED <<cmd_queue, pcMain, pcDev, waiting>>
        BY <2>3, <3>2 DEF CommLeft
      <4>2. Waits("comm")' = Waits("comm") /\ Waits("device")' = Waits("device")
        BY <4>1 DEF Waits
      <4> HIDE DEF signal_handler
      <4> QED
        BY <2>1, <4>1, <4>2, PartsType DEF Moves, StepsLeft
    <3> QED
      BY <2>3, <3>1, <3>2
  <2> HIDE DEF ClientConnect, signal_handler, MainStep, CommStep, CommRecv,
               CommSpuriousWakeup, DevStep
  <2> QED
    BY <2>1, <2>2, <2>3, DevMoves, CommMoves, MainMoves, StepCases DEF EnvStep
<1> QED
  BY <1>1, Inductive, PTL DEF Spec, WindsDown, Rests, Moves
=============================================================================
