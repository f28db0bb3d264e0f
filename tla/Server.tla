------------------------------- MODULE Server -------------------------------
(***************************************************************************)
(* The three threads of the server process and what they share: the main   *)
(* thread (accept loop and shutdown, main.c and server_cleanup), the       *)
(* communication thread of the connected client (communication.c) and the  *)
(* device thread (device_control_thread).  The clients, the clock and the  *)
(* signal are the environment.                                             *)
(*                                                                         *)
(* A step of a thread is a stretch of code between two points where other  *)
(* threads can interfere.  A critical section that takes no second lock    *)
(* and does not wait is one step; the sections that do are split, with     *)
(* the owner of the mutex in queue_mutex and state_mutex.                  *)
(***************************************************************************)
EXTENDS CommandQueue

CONSTANTS
  MaxClients,      \* bound: number of clients that ever connect
  SpuriousWakeups  \* whether pthread_cond_timedwait may return 0 unsignalled

ASSUME MaxClientsAssumption == MaxClients \in Nat
ASSUME SpuriousAssumption == SpuriousWakeups \in BOOLEAN

VARIABLES
  g_running,         \* main.c: cleared by the SIGINT handler
  server_running,    \* ServerState: read by all threads without a lock
  cmd_queue,         \* ServerState: guarded by queue_mutex
  response,          \* ServerState: id of the command last answered, 0 if none
  sensor_monitoring, \* ServerState: guarded by state_mutex
  client_connected,  \* ServerState: guarded by state_mutex
  client_socket,     \* ServerState: -1 or the socket of the connected client
  queue_mutex,       \* owner of the mutex, or "free"
  state_mutex,       \* owner of the mutex, or "free"
  waiting,           \* threads blocked in pthread_cond_timedwait
  destroyed,         \* whether server_cleanup destroyed the mutexes
  pcMain, pcComm, pcDev, \* where each thread is
  request,           \* comm thread: the local variable cmd
  comm_socket,       \* comm thread: the local variable client_socket
  dev_cmd,           \* device thread: the local variable cmd
  backlog,           \* connections the kernel has queued for accept
  accepted,          \* number of accepted connections; names the sockets
  open_sockets       \* client sockets the server has open

\* History variables: they record what happened and no step reads them.
VARIABLES
  pushed,   \* number of commands put into the queue
  popped,   \* number of commands taken out of it
  overlap,  \* an earlier command was unanswered when the request was queued
  spurious, \* the wait for the response ended without a signal
  reply     \* the last response sent: to which request, answering which

queueVars  == <<cmd_queue, queue_mutex, pushed, popped>>
stateVars  == <<sensor_monitoring, client_connected, client_socket, state_mutex>>
flagVars   == <<g_running, server_running, destroyed>>
socketVars == <<backlog, accepted, open_sockets>>
commVars   == <<pcComm, request, comm_socket, overlap, spurious, reply>>
devVars    == <<pcDev, dev_cmd>>
vars == <<queueVars, stateVars, flagVars, socketVars, commVars, devVars,
          response, waiting, pcMain>>

MainLabels == { "loop", "accept", "register", "registering", "spawn", "join",
                "cleanup", "rejoin", "join_device", "teardown", "stopped" }
CommLabels == { "none", "start", "loop", "recv", "param", "push", "wait",
                "timedout", "exit", "exiting", "done" }
DevLabels  == { "loop", "lock", "check", "enter_wait", "wait", "monitor",
                "sense", "dispatch", "exec", "respond", "free", "sense_after",
                "done" }

\* The commands comm asks a parameter for when the line carried none.
NeedsParam == { "SET_BRIGHTNESS", "BUZZER_ON", "SEGMENT_DISPLAY" }

Init ==
  /\ g_running = TRUE
  /\ server_running = TRUE
  /\ cmd_queue = queue_init
  /\ response = 0
  /\ sensor_monitoring = FALSE
  /\ client_connected = FALSE
  /\ client_socket = -1
  /\ queue_mutex = "free"
  /\ state_mutex = "free"
  /\ waiting = {}
  /\ destroyed = FALSE
  /\ pcMain = "loop"
  /\ pcComm = "none"
  /\ pcDev = "loop"
  /\ request = NULL
  /\ comm_socket = -1
  /\ dev_cmd = NULL
  /\ backlog = 0
  /\ accepted = 0
  /\ open_sockets = {}
  /\ pushed = 0
  /\ popped = 0
  /\ overlap = FALSE
  /\ spurious = FALSE
  /\ reply = [request |-> 0, response |-> 0]

-----------------------------------------------------------------------------
(***************************************************************************)
(* Environment                                                             *)
(***************************************************************************)

\* A client connects: the kernel queues the connection for accept.
ClientConnect ==
  /\ pcMain # "stopped"
  /\ accepted + backlog < MaxClients
  /\ backlog' = backlog + 1
  /\ UNCHANGED <<queueVars, stateVars, flagVars, commVars, devVars, response,
                 waiting, pcMain, accepted, open_sockets>>

\* SIGINT: signal_handler clears both flags.  The handler is installed without
\* SA_RESTART, so if the kernel picks the comm thread to run it while that
\* thread is in recv, recv fails with EINTR and the thread leaves its loop.
signal_handler ==
  /\ pcMain # "stopped"
  /\ g_running' = FALSE
  /\ server_running' = FALSE
  /\ \/ UNCHANGED pcComm
     \/ /\ pcComm \in {"recv", "param"}
        /\ pcComm' = "exit"
  /\ UNCHANGED <<queueVars, stateVars, socketVars, devVars, destroyed, response,
                 waiting, pcMain, request, comm_socket, overlap, spurious, reply>>

-----------------------------------------------------------------------------
(***************************************************************************)
(* Main thread                                                             *)
(***************************************************************************)

\* while (g_running && server_running)
MainLoop ==
  /\ pcMain = "loop"
  /\ pcMain' = IF g_running /\ server_running THEN "accept" ELSE "cleanup"
  /\ UNCHANGED <<queueVars, stateVars, flagVars, socketVars, commVars, devVars,
                 response, waiting>>

\* EAGAIN: nobody is waiting; usleep and continue.  (EINTR would do the same,
\* but a non-blocking accept does not return it.)
MainAcceptNone ==
  /\ pcMain = "accept"
  /\ backlog = 0
  /\ pcMain' = "loop"
  /\ UNCHANGED <<queueVars, stateVars, flagVars, socketVars, commVars, devVars,
                 response, waiting>>

\* Any other error of accept leaves the loop.
MainAcceptError ==
  /\ pcMain = "accept"
  /\ pcMain' = "cleanup"
  /\ UNCHANGED <<queueVars, stateVars, flagVars, socketVars, commVars, devVars,
                 response, waiting>>

MainAccept ==
  /\ pcMain = "accept"
  /\ backlog > 0
  /\ backlog' = backlog - 1
  /\ accepted' = accepted + 1
  /\ open_sockets' = open_sockets \cup {accepted + 1}
  /\ pcMain' = "register"
  /\ UNCHANGED <<queueVars, stateVars, flagVars, commVars, devVars, response,
                 waiting>>

MainLockState ==
  /\ pcMain = "register"
  /\ state_mutex = "free"
  /\ state_mutex' = "main"
  /\ pcMain' = "registering"
  /\ UNCHANGED <<queueVars, flagVars, socketVars, commVars, devVars, response,
                 waiting, sensor_monitoring, client_connected, client_socket>>

\* Mutant of MainRegister: state_mutex stays locked until the session is over.
MainRegister_KeepsLock ==
  /\ pcMain = "registering"
  /\ IF client_connected
     THEN /\ open_sockets' = open_sockets \ {accepted}
          /\ state_mutex' = "free"
          /\ pcMain' = "loop"
          /\ UNCHANGED <<client_connected, client_socket>>
     ELSE /\ client_socket' = accepted
          /\ client_connected' = TRUE
          /\ pcMain' = "spawn"
          /\ UNCHANGED <<open_sockets, state_mutex>>
  /\ UNCHANGED <<queueVars, flagVars, commVars, devVars, response, waiting,
                 sensor_monitoring, backlog, accepted>>

\* Under state_mutex: turn the client away if another one is connected,
\* otherwise make it the connected client.
MainRegister ==
  /\ pcMain = "registering"
  /\ state_mutex' = "free"
  /\ IF client_connected
     THEN /\ open_sockets' = open_sockets \ {accepted}
          /\ pcMain' = "loop"
          /\ UNCHANGED <<client_connected, client_socket>>
     ELSE /\ client_socket' = accepted
          /\ client_connected' = TRUE
          /\ pcMain' = "spawn"
          /\ UNCHANGED open_sockets
  /\ UNCHANGED <<queueVars, flagVars, commVars, devVars, response, waiting,
                 sensor_monitoring, backlog, accepted>>

MainSpawn ==
  /\ pcMain = "spawn"
  /\ pcComm' = "start"
  /\ pcMain' = "join"
  /\ UNCHANGED <<queueVars, stateVars, flagVars, socketVars, devVars, response,
                 waiting, request, comm_socket, overlap, spurious, reply>>

\* Mutant of MainSpawnFail: the socket is not closed.
MainSpawnFail_Leak ==
  /\ pcMain = "spawn"
  /\ state_mutex = "free"
  /\ client_socket' = -1
  /\ client_connected' = FALSE
  /\ pcMain' = "loop"
  /\ UNCHANGED <<queueVars, flagVars, socketVars, commVars, devVars, response,
                 waiting, sensor_monitoring, state_mutex>>

\* pthread_create fails: undo the registration under state_mutex.
MainSpawnFail ==
  /\ pcMain = "spawn"
  /\ state_mutex = "free"
  /\ open_sockets' = open_sockets \ {accepted}
  /\ client_socket' = -1
  /\ client_connected' = FALSE
  /\ pcMain' = "loop"
  /\ UNCHANGED <<queueVars, flagVars, commVars, devVars, response, waiting,
                 sensor_monitoring, state_mutex, backlog, accepted>>

MainJoin ==
  /\ pcMain = "join"
  /\ pcComm = "done"
  /\ pcComm' = "none"
  /\ pcMain' = "loop"
  /\ UNCHANGED <<queueVars, stateVars, flagVars, socketVars, devVars, response,
                 waiting, request, comm_socket, overlap, spurious, reply>>

\* server_cleanup up to the joins.  If a client is connected it signals both
\* conditions and joins the comm thread, which the accept loop has already
\* joined: undefined, so nothing leaves "rejoin".
MainCleanup ==
  /\ pcMain = "cleanup"
  /\ server_running' = FALSE
  /\ waiting' = waiting \ IF client_connected THEN {"comm", "device"} ELSE {"device"}
  /\ pcMain' = IF client_connected THEN "rejoin" ELSE "join_device"
  /\ UNCHANGED <<queueVars, stateVars, socketVars, commVars, devVars, response,
                 g_running, destroyed>>

\* Mutant of MainJoinDevice: the device thread is not waited for.
MainJoinDevice_NoWait ==
  /\ pcMain = "join_device"
  /\ pcMain' = "teardown"
  /\ UNCHANGED <<queueVars, stateVars, flagVars, socketVars, commVars, devVars,
                 response, waiting>>

MainJoinDevice ==
  /\ pcMain = "join_device"
  /\ pcDev = "done"
  /\ pcMain' = "teardown"
  /\ UNCHANGED <<queueVars, stateVars, flagVars, socketVars, commVars, devVars,
                 response, waiting>>

\* One round of the loop of queue_cleanup.
MainDrain ==
  /\ pcMain = "teardown"
  /\ ~queue_is_empty(cmd_queue)
  /\ cmd_queue' = queue_pop(cmd_queue).queue
  /\ popped' = popped + 1
  /\ UNCHANGED <<stateVars, flagVars, socketVars, commVars, devVars, response,
                 waiting, pcMain, queue_mutex, pushed>>

\* Mutant of MainTeardown: the queue is not emptied first.
MainTeardown_NoDrain ==
  /\ pcMain = "teardown"
  /\ destroyed' = TRUE
  /\ pcMain' = "stopped"
  /\ UNCHANGED <<queueVars, stateVars, socketVars, commVars, devVars, response,
                 waiting, g_running, server_running>>

\* The rest of server_cleanup: the sockets are closed, the mutexes and the
\* condition variables destroyed.  A counting thread in its last round, which is
\* not modelled here, may lock state_mutex even after this (device_control.c:13).
MainTeardown ==
  /\ pcMain = "teardown"
  /\ queue_is_empty(cmd_queue)
  /\ open_sockets' = open_sockets \ {client_socket}
  /\ destroyed' = TRUE
  /\ pcMain' = "stopped"
  /\ UNCHANGED <<queueVars, stateVars, commVars, devVars, response, waiting,
                 g_running, server_running, backlog, accepted>>

-----------------------------------------------------------------------------
(***************************************************************************)
(* Communication thread                                                    *)
(***************************************************************************)

CommGoto(label) ==
  /\ pcComm' = label
  /\ UNCHANGED <<queueVars, stateVars, flagVars, socketVars, devVars, response,
                 waiting, pcMain, request, comm_socket, overlap, spurious, reply>>

\* Read client_socket, send the welcome message.
CommStart ==
  /\ pcComm = "start"
  /\ comm_socket' = client_socket
  /\ pcComm' = "loop"
  /\ UNCHANGED <<queueVars, stateVars, flagVars, socketVars, devVars, response,
                 waiting, pcMain, request, overlap, spurious, reply>>

\* while (server_running): send the menu and block in recv.
CommLoop ==
  /\ pcComm = "loop"
  /\ CommGoto(IF server_running THEN "recv" ELSE "exit")

\* The client has closed the connection, or recv fails, at either recv.
CommRecvClosed ==
  /\ pcComm \in {"recv", "param"}
  /\ CommGoto("exit")

\* A line that parse_command refuses.
CommRecvInvalid ==
  /\ pcComm = "recv"
  /\ CommGoto("loop")

CommRecvExit ==
  /\ pcComm = "recv"
  /\ CommGoto("exit")

\* A command, with or without its parameter on the line.
CommRecvCommand(type, hasParam) ==
  /\ pcComm = "recv"
  /\ pushed < MaxCommands
  /\ request' = [type |-> type, id |-> pushed + 1]
  /\ pcComm' = IF type \in NeedsParam /\ ~hasParam THEN "param" ELSE "push"
  /\ UNCHANGED <<queueVars, stateVars, flagVars, socketVars, devVars, response,
                 waiting, pcMain, comm_socket, overlap, spurious, reply>>

CommRecvParam ==
  /\ pcComm = "param"
  /\ CommGoto("push")

CommRecv ==
  \/ CommRecvClosed
  \/ CommRecvInvalid
  \/ CommRecvExit
  \/ \E type \in ClientTypes, hasParam \in BOOLEAN : CommRecvCommand(type, hasParam)
  \/ CommRecvParam

\* Under queue_mutex: queue the request, signal queue_not_empty and block on
\* response_ready, which releases the mutex.
CommPush ==
  /\ pcComm = "push"
  /\ queue_mutex = "free"
  /\ \E result \in queue_push(cmd_queue, request) :
       /\ result.ok
       /\ cmd_queue' = result.queue
  /\ pushed' = pushed + 1
  /\ overlap' = (response # pushed)
  /\ spurious' = FALSE
  /\ waiting' = (waiting \ {"device"}) \cup {"comm"}
  /\ pcComm' = "wait"
  /\ UNCHANGED <<stateVars, flagVars, socketVars, devVars, response, pcMain,
                 queue_mutex, popped, request, comm_socket, reply>>

\* queue_push fails: tell the client and carry on.
CommPushFail ==
  /\ pcComm = "push"
  /\ queue_mutex = "free"
  /\ \E result \in queue_push(cmd_queue, request) : ~result.ok
  /\ CommGoto("loop")

\* The wait returned 0: copy the response under queue_mutex, then send it.
CommReply(sent) ==
  /\ pcComm = "wait"
  /\ "comm" \notin waiting
  /\ queue_mutex = "free"
  /\ reply' = [request |-> request.id, response |-> response]
  /\ pcComm' = IF sent THEN "loop" ELSE "exit"
  /\ UNCHANGED <<queueVars, stateVars, flagVars, socketVars, devVars, response,
                 waiting, pcMain, request, comm_socket, overlap, spurious>>

\* The five seconds are over (CLOCK_REALTIME: also when the clock is set).
CommTimeout ==
  /\ pcComm = "wait"
  /\ "comm" \in waiting
  /\ waiting' = waiting \ {"comm"}
  /\ pcComm' = "timedout"
  /\ UNCHANGED <<queueVars, stateVars, flagVars, socketVars, devVars, response,
                 pcMain, request, comm_socket, overlap, spurious, reply>>

\* pthread_cond_timedwait returns 0 although nobody signalled.
CommSpuriousWakeup ==
  /\ SpuriousWakeups
  /\ pcComm = "wait"
  /\ "comm" \in waiting
  /\ waiting' = waiting \ {"comm"}
  /\ spurious' = TRUE
  /\ UNCHANGED <<queueVars, stateVars, flagVars, socketVars, devVars, response,
                 pcMain, pcComm, request, comm_socket, overlap, reply>>

\* ETIMEDOUT: take the mutex again, release it, report the timeout.
CommTimedOut ==
  /\ pcComm = "timedout"
  /\ queue_mutex = "free"
  /\ CommGoto("loop")

CommLockState ==
  /\ pcComm = "exit"
  /\ state_mutex = "free"
  /\ state_mutex' = "comm"
  /\ pcComm' = "exiting"
  /\ UNCHANGED <<queueVars, flagVars, socketVars, devVars, response, waiting,
                 pcMain, request, comm_socket, overlap, spurious, reply,
                 sensor_monitoring, client_connected, client_socket>>

\* Mutant of CommDisconnect: client_connected is not cleared.
CommDisconnect_StaysConnected ==
  /\ pcComm = "exiting"
  /\ open_sockets' = open_sockets \ {comm_socket}
  /\ client_socket' = -1
  /\ state_mutex' = "free"
  /\ pcComm' = "done"
  /\ UNCHANGED <<queueVars, flagVars, devVars, response, waiting, pcMain, request,
                 comm_socket, overlap, spurious, reply, sensor_monitoring,
                 client_connected, backlog, accepted>>

\* The end of communication_thread, under state_mutex.
CommDisconnect ==
  /\ pcComm = "exiting"
  /\ client_connected' = FALSE
  /\ open_sockets' = open_sockets \ {comm_socket}
  /\ client_socket' = -1
  /\ state_mutex' = "free"
  /\ pcComm' = "done"
  /\ UNCHANGED <<queueVars, flagVars, devVars, response, waiting, pcMain, request,
                 comm_socket, overlap, spurious, reply, sensor_monitoring, backlog,
                 accepted>>
-----------------------------------------------------------------------------
(***************************************************************************)
(* Device thread                                                           *)
(***************************************************************************)

DevGoto(label) ==
  /\ pcDev' = label
  /\ UNCHANGED <<queueVars, stateVars, flagVars, socketVars, commVars, response,
                 waiting, pcMain, dev_cmd>>

DevLoop ==
  /\ pcDev = "loop"
  /\ DevGoto(IF server_running THEN "lock" ELSE "done")

DevLockQueue ==
  /\ pcDev = "lock"
  /\ queue_mutex = "free"
  /\ queue_mutex' = "device"
  /\ pcDev' = "check"
  /\ UNCHANGED <<stateVars, flagVars, socketVars, commVars, response, waiting,
                 pcMain, dev_cmd, cmd_queue, pushed, popped>>

\* Mutant of DevCheck: the condition is inverted, the wait is for an empty queue.
DevCheck_Inverted ==
  /\ pcDev = "check"
  /\ DevGoto(IF ~queue_is_empty(cmd_queue) /\ server_running
             THEN "enter_wait" ELSE "dispatch")

\* Mutant of DevCheck: the inner loop does not look at server_running.
DevCheck_IgnoresStop ==
  /\ pcDev = "check"
  /\ DevGoto(IF queue_is_empty(cmd_queue) THEN "enter_wait" ELSE "dispatch")

\* The condition of the inner loop: the flag is read here and may be cleared
\* before the thread blocks.
DevCheck ==
  /\ pcDev = "check"
  /\ DevGoto(IF queue_is_empty(cmd_queue) /\ server_running
             THEN "enter_wait" ELSE "dispatch")

\* Wait on queue_not_empty for at most a second, releasing the mutex.
DevWait ==
  /\ pcDev = "enter_wait"
  /\ queue_mutex' = "free"
  /\ waiting' = waiting \cup {"device"}
  /\ pcDev' = "wait"
  /\ UNCHANGED <<stateVars, flagVars, socketVars, commVars, response, pcMain,
                 dev_cmd, cmd_queue, pushed, popped>>

\* Shutdown: leave with whatever is still queued.
DevStop ==
  /\ pcDev = "dispatch"
  /\ ~server_running
  /\ queue_mutex' = "free"
  /\ pcDev' = "done"
  /\ UNCHANGED <<stateVars, flagVars, socketVars, commVars, response, waiting,
                 pcMain, dev_cmd, cmd_queue, pushed, popped>>

\* Take the first command; go on with the outer loop if there is none.
DevPop ==
  /\ pcDev = "dispatch"
  /\ server_running
  /\ LET result == queue_pop(cmd_queue)
     IN /\ cmd_queue' = result.queue
        /\ dev_cmd' = result.cmd
        /\ popped' = IF result.cmd = NULL THEN popped ELSE popped + 1
        /\ pcDev' = IF result.cmd = NULL THEN "loop" ELSE "exec"
  /\ queue_mutex' = "free"
  /\ UNCHANGED <<stateVars, flagVars, socketVars, commVars, response, waiting,
                 pcMain, pushed>>

\* Mutant of DevTimeout: the wait has no time limit.
DevTimeout_Never == FALSE

\* A second has passed, or a spurious wakeup: the result is not looked at.
DevTimeout ==
  /\ pcDev = "wait"
  /\ "device" \in waiting
  /\ waiting' = waiting \ {"device"}
  /\ UNCHANGED <<queueVars, stateVars, flagVars, socketVars, commVars, devVars,
                 response, pcMain>>

\* The wait returns with the mutex.
DevWake ==
  /\ pcDev = "wait"
  /\ "device" \notin waiting
  /\ queue_mutex = "free"
  /\ queue_mutex' = "device"
  /\ pcDev' = "monitor"
  /\ UNCHANGED <<stateVars, flagVars, socketVars, commVars, response, waiting,
                 pcMain, dev_cmd, cmd_queue, pushed, popped>>

\* Read sensor_monitoring under state_mutex while holding queue_mutex, which
\* is released for the time the sensor is handled.
DevMonitor ==
  /\ pcDev = "monitor"
  /\ state_mutex = "free"
  /\ IF sensor_monitoring
     THEN pcDev' = "sense" /\ queue_mutex' = "free"
     ELSE pcDev' = "check" /\ UNCHANGED queue_mutex
  /\ UNCHANGED <<stateVars, flagVars, socketVars, commVars, response, waiting,
                 pcMain, dev_cmd, cmd_queue, pushed, popped>>

\* handle_sensor_monitoring, which locks state_mutex only when the brightness
\* has changed; then queue_mutex is taken again, or the outer loop goes on.
DevSense ==
  /\ pcDev \in {"sense", "sense_after"}
  /\ DevGoto(IF pcDev = "sense" THEN "lock" ELSE "loop")

\* The switch on cmd->type.  Of the effects only the one on the monitoring
\* flag steers this module's threads; the other commands lock state_mutex only
\* if the device call succeeds.
DevExec ==
  /\ pcDev = "exec"
  /\ dev_cmd.type \in {"SENSOR_ON", "SENSOR_OFF"} => state_mutex = "free"
  /\ sensor_monitoring' = IF dev_cmd.type \in {"SENSOR_ON", "SENSOR_OFF"}
                          THEN dev_cmd.type = "SENSOR_ON"
                          ELSE sensor_monitoring
  /\ pcDev' = "respond"
  /\ UNCHANGED <<queueVars, flagVars, socketVars, commVars, response, waiting,
                 pcMain, dev_cmd, client_connected, client_socket, state_mutex>>

\* Mutant of DevRespond: response_ready is not signalled.
DevRespond_NoSignal ==
  /\ pcDev = "respond"
  /\ queue_mutex = "free"
  /\ response' = dev_cmd.id
  /\ pcDev' = "free"
  /\ UNCHANGED <<queueVars, stateVars, flagVars, socketVars, commVars, waiting,
                 pcMain, dev_cmd>>

\* Under queue_mutex: publish the response and signal response_ready.
DevRespond ==
  /\ pcDev = "respond"
  /\ queue_mutex = "free"
  /\ response' = dev_cmd.id
  /\ waiting' = waiting \ {"comm"}
  /\ pcDev' = "free"
  /\ UNCHANGED <<queueVars, stateVars, flagVars, socketVars, commVars, pcMain,
                 dev_cmd>>

\* Mutant of DevFree: response_ready is signalled a second time.
DevFree_SignalsAgain ==
  /\ pcDev = "free"
  /\ state_mutex = "free"
  /\ dev_cmd' = NULL
  /\ waiting' = waiting \ {"comm"}
  /\ pcDev' = IF sensor_monitoring THEN "sense_after" ELSE "loop"
  /\ UNCHANGED <<queueVars, stateVars, flagVars, socketVars, commVars, response,
                 pcMain>>

\* Free the command, read sensor_monitoring under state_mutex.
DevFree ==
  /\ pcDev = "free"
  /\ state_mutex = "free"
  /\ dev_cmd' = NULL
  /\ pcDev' = IF sensor_monitoring THEN "sense_after" ELSE "loop"
  /\ UNCHANGED <<queueVars, stateVars, flagVars, socketVars, commVars, response,
                 waiting, pcMain>>

-----------------------------------------------------------------------------
MainStep ==
  \/ MainLoop \/ MainAcceptNone \/ MainAcceptError \/ MainAccept
  \/ MainLockState \/ MainRegister \/ MainSpawn \/ MainSpawnFail \/ MainJoin
  \/ MainCleanup \/ MainJoinDevice \/ MainDrain \/ MainTeardown

\* The steps comm takes by itself, without input from the client.
CommStep ==
  \/ CommStart \/ CommLoop \/ CommPush \/ CommPushFail
  \/ \E sent \in BOOLEAN : CommReply(sent)
  \/ CommTimeout \/ CommTimedOut \/ CommLockState \/ CommDisconnect

DevStep ==
  \/ DevLoop \/ DevLockQueue \/ DevCheck \/ DevWait \/ DevStop \/ DevPop
  \/ DevTimeout \/ DevWake \/ DevMonitor \/ DevSense \/ DevExec \/ DevRespond \/ DevFree

\* The process has exited; nothing happens any more.
Terminated == pcMain = "stopped" /\ UNCHANGED vars

Next ==
  \/ ClientConnect
  \/ signal_handler
  \/ MainStep
  \/ CommStep
  \/ CommRecv
  \/ CommSpuriousWakeup
  \/ DevStep
  \/ Terminated

Spec == Init /\ [][Next]_vars

(***************************************************************************)
(* Fairness.  The threads are scheduled and the clock runs, so a thread    *)
(* that can take a step does.  Nothing makes a client send or close.       *)
(***************************************************************************)
Fairness == WF_vars(MainStep) /\ WF_vars(CommStep) /\ WF_vars(DevStep)

FairSpec == Spec /\ Fairness

\* A client that keeps sending or hangs up: every recv returns.
LiveClientSpec == FairSpec /\ WF_vars(CommRecv)

-----------------------------------------------------------------------------
(***************************************************************************)
(* Properties                                                              *)
(***************************************************************************)

\* The variables hold values of their C types.
TypeOK ==
  /\ g_running \in BOOLEAN
  /\ server_running \in BOOLEAN
  /\ cmd_queue \in Queue
  /\ response \in 0 .. MaxCommands
  /\ sensor_monitoring \in BOOLEAN
  /\ client_connected \in BOOLEAN
  /\ client_socket \in {-1} \cup 1 .. MaxClients
  /\ queue_mutex \in {"free", "device"}
  /\ state_mutex \in {"free", "main", "comm"}
  /\ waiting \subseteq {"comm", "device"}
  /\ destroyed \in BOOLEAN
  /\ pcMain \in MainLabels
  /\ pcComm \in CommLabels
  /\ pcDev \in DevLabels
  /\ request \in Command \cup {NULL}
  /\ comm_socket \in {-1} \cup 1 .. MaxClients
  /\ dev_cmd \in Command \cup {NULL}
  /\ backlog \in 0 .. MaxClients
  /\ accepted \in 0 .. MaxClients
  /\ open_sockets \subseteq 1 .. MaxClients
  /\ pushed \in 0 .. MaxCommands
  /\ popped \in 0 .. MaxCommands
  /\ overlap \in BOOLEAN
  /\ spurious \in BOOLEAN
  /\ reply \in [request : 0 .. MaxCommands, response : 0 .. MaxCommands]

\* The steps of the three threads never leave the FIFO discipline: the ring
\* buffer under its mutex, filled by comm, emptied by the device thread and at
\* the end by server_cleanup, implements the abstract queue.
Fifo == INSTANCE CommandFifo WITH
  Capacity <- MAX_QUEUE_SIZE, fifo <- Contents(cmd_queue), held <- dev_cmd
FifoRefinement == Fifo!Spec

\* Every accepted command is in exactly one place: answered, in the hands of
\* the device thread, or in the queue, in the order of acceptance.  So none is
\* lost, executed twice or freed twice, whatever the timeouts.
CommandAccounting ==
  /\ pushed - popped = Len(Contents(cmd_queue))
  /\ \A i \in 1 .. Len(Contents(cmd_queue)) : Contents(cmd_queue)[i].id = popped + i
  /\ pcMain \notin {"teardown", "stopped"} =>
       IF pcDev \in {"exec", "respond"}
       THEN response = popped - 1 /\ dev_cmd.id = popped
       ELSE response = popped
  /\ pcMain = "stopped" => popped = pushed /\ dev_cmd = NULL

CommWoken == pcComm = "wait" /\ "comm" \notin waiting

\* No lost wakeup: while comm is blocked on response_ready, the answer to its
\* request has not been published yet, so the signal that comes with it is
\* still ahead.
NoLostWakeup ==
  pcComm = "wait" /\ "comm" \in waiting => response < request.id

\* When comm sends a response it has been signalled for a request that was
\* alone in the queue, the response is the answer to that request: mix-ups need
\* a request queued while an earlier one, given up after a timeout, was still
\* unanswered, or a spurious wakeup.
AnswersOwnRequest ==
  CommWoken /\ ~overlap /\ ~spurious => response = request.id

\* What comm waits for, as its client sees it.
ClientWait ==
  IF pcComm # "wait" THEN "no"
  ELSE IF "comm" \in waiting THEN "blocked"
  ELSE IF spurious THEN "spurious" ELSE "signalled"

\* The three threads together implement the service of RemoteControl: however
\* the timeouts, the shutdown and late responses of abandoned requests fall, a
\* client sees one of its behaviours.
Service == INSTANCE RemoteControl WITH
  Spurious <- SpuriousWakeups, sessions <- accepted, open <- (open_sockets # {}),
  asked <- pushed, done <- response, wait <- ClientWait, stopped <- destroyed
ServiceRefinement == Service!Spec

\* Sessions do not overlap: whenever main looks for a connected client, to turn
\* a new one away or to join its thread at shutdown, there is none; the comm
\* thread exists exactly while main waits for it.  (The "Server busy" answer
\* and the second join of server_cleanup are dead code.)
OneSession ==
  /\ pcMain \in {"loop", "accept", "register", "registering", "cleanup"} => ~client_connected
  /\ pcMain # "rejoin"
  /\ pcComm # "none" <=> pcMain = "join"

\* Sockets are neither leaked nor closed twice: the client socket a thread is
\* about to close is open, and outside a session none is.
SocketDiscipline ==
  /\ pcComm \notin {"none", "start", "done"} => open_sockets = {comm_socket}
  /\ pcMain \in {"register", "registering", "spawn"} => open_sockets = {accepted}
  /\ pcMain \in {"loop", "accept", "cleanup", "join_device", "teardown", "stopped"}
       => open_sockets = {} /\ client_socket = -1

Threads == {"main", "comm", "device"}

\* The threads that need a mutex to go on (DevSense and DevExec: may need).
WantsQueue ==
  {t \in Threads : \/ t = "comm" /\ (pcComm \in {"push", "timedout"} \/ CommWoken)
                   \/ t = "device" /\ pcDev \in {"lock", "respond"}
                   \/ t = "device" /\ pcDev = "wait" /\ t \notin waiting}
WantsState ==
  {t \in Threads : \/ t = "main" /\ pcMain \in {"register", "spawn"}
                   \/ t = "comm" /\ pcComm = "exit"
                   \/ t = "device" /\ pcDev \in {"monitor", "sense", "sense_after", "exec", "free"}}

\* Thread t cannot go on before u has released a mutex or ended.
WaitsFor(t, u) ==
  \/ t \in WantsQueue /\ queue_mutex = u
  \/ t \in WantsState /\ state_mutex = u
  \/ t = "main" /\ pcMain = "join" /\ u = "comm"
  \/ t = "main" /\ pcMain = "join_device" /\ u = "device"

\* No deadlock: the threads never wait for each other in a circle, by way of the
\* two mutexes, one of which the device thread takes inside the other, and the
\* joins of main; and no thread ends with a mutex locked.
NoCircularWait ==
  /\ \A S \in (SUBSET Threads) \ {{}} : \E t \in S : \A u \in S : ~WaitsFor(t, u)
  /\ pcDev = "done" => queue_mutex = "free"
  /\ pcComm \in {"none", "done"} => state_mutex # "comm"

\* server_cleanup destroys the mutexes and the condition variables only after the
\* joins of the server's own threads: comm and the device thread are gone, and
\* neither they nor main hold or wait for one.  The detached counting thread, whose
\* callback locks state_mutex too (device_control.c:13), is not a thread of this
\* module and not covered: CleanupStopsCounting in DeviceControl says how far it
\* can still get.
DestroyedAfterJoins ==
  destroyed =>
    /\ pcComm = "none" /\ pcDev = "done"
    /\ queue_mutex = "free" /\ state_mutex = "free" /\ waiting = {}

\* Every accepted command is executed and answered, unless the server stops: the
\* responses, which come in the order of the commands, catch up with them (whose
\* number is bounded).
EveryCommandServed == response < pushed ~> response = pushed \/ ~server_running

\* Once server_running is cleared, the steps each thread takes at most until it
\* ends, by where it is; main also takes those of the comm thread it creates, and
\* one for each command that is still queued.
MainLeft ==
  [accept |-> 14, register |-> 13, registering |-> 12, spawn |-> 11, join |-> 5, loop |-> 4,
   cleanup |-> 3, rejoin |-> 0, join_device |-> 2, teardown |-> 1, stopped |-> 0]
CommLeft ==
  [recv |-> 11, param |-> 10, push |-> 9, wait |-> 6, timedout |-> 5, start |-> 5,
   loop |-> 4, exit |-> 3, exiting |-> 2, done |-> 1, none |-> 0]
DevLeft ==
  [exec |-> 8, respond |-> 7, free |-> 6, sense_after |-> 5, loop |-> 4,
   enter_wait |-> 8, wait |-> 6, monitor |-> 5, sense |-> 4, lock |-> 3,
   check |-> 2, dispatch |-> 1, done |-> 0]
Waits(t) == IF t \in waiting THEN 1 ELSE 0
StepsLeft ==
  MainLeft[pcMain] + CommLeft[pcComm] + DevLeft[pcDev] + cmd_queue.count
  + Waits("comm") + Waits("device")

\* After Ctrl+C no thread goes round its loop again: every step of every thread,
\* in whatever order they come, and also if the comm thread is being created or
\* a request being queued at that moment, brings the end nearer.
WindsDown ==
  [][~server_running =>
       /\ ~server_running'
       /\ \/ UNCHANGED <<pcMain, pcComm, pcDev, waiting, cmd_queue>>
          \/ StepsLeft' < StepsLeft]_vars

\* Ctrl+C stops the server.
SigintStopsServer == ~g_running ~> pcMain = "stopped"

\* The response sent for a request is the answer to that request.
ReplyMatchesRequest == reply.request = reply.response
=============================================================================
