----------------------------- MODULE Lifecycle -----------------------------
(***************************************************************************)
(* The life of server processes on one machine, from main to its return:   *)
(* the PID file of the daemon mode, server_init with its failures, the web *)
(* server, the device thread, server_cleanup, and crashes at any time.     *)
(* Several instances share the PID file and the port.                      *)
(*                                                                         *)
(* What happens between start-up and clean-up is modelled in Server.       *)
(***************************************************************************)
EXTENDS WebServer, Sequences

CONSTANTS
  NoPid, \* there is no PID file
  Empty  \* the PID file is empty

ASSUME PidAssumption == NoPid \notin Instance /\ Empty \notin Instance

VARIABLES
  daemon_mode, \* which instances are started with -d
  pidfile,     \* the PID file
  open,        \* who would write to the PID file, and not to one since removed
  seen,        \* what an instance has read in the PID file
  raced,       \* history: whose check of the PID file met that of another
  main,        \* where the main thread of each instance is
  step,        \* the next step of server_init
  held         \* what each instance has acquired and not released

fileVars == <<pidfile, open, seen, raced>>
vars == <<webVars, fileVars, daemon_mode, main, step, held>>

MainLabels == {"off", "pid_check", "pid_test", "pid_write", "pid_print", "init", "fork", "web",
               "thread", "serving", "stop_early", "cleanup", "stop", "release",
               "pid_remove", "exited", "crashed"}

Sync == {"queue_mutex", "state_mutex", "queue_not_empty", "response_ready"}
Devices == {"seg7", "music", "led", "light_sensor"}

\* The steps of server_init in order; "port" stands for the options, bind and
\* listen.
InitSteps == <<"queue_mutex", "state_mutex", "queue_not_empty", "response_ready",
               "seg7", "music", "led", "light_sensor", "socket", "port">>
Resources == Sync \cup Devices \cup {"socket", "port"}

\* Mutant of Undo: a failure of the buzzer leaves the display initialised.
Undo_ForgetsSeg7 ==
  [queue_mutex |-> {},
   state_mutex |-> {"queue_mutex"},
   queue_not_empty |-> {"queue_mutex", "state_mutex"},
   response_ready |-> {"queue_not_empty", "queue_mutex", "state_mutex"},
   seg7 |-> Sync,
   music |-> Sync,
   led |-> {"music", "seg7"} \cup Sync,
   light_sensor |-> {"led", "music", "seg7"} \cup Sync,
   socket |-> Devices \cup Sync,
   port |-> {"socket"} \cup Devices \cup Sync]

\* What server_init releases when a step fails.
Undo ==
  [queue_mutex |-> {},
   state_mutex |-> {"queue_mutex"},
   queue_not_empty |-> {"queue_mutex", "state_mutex"},
   response_ready |-> {"queue_not_empty", "queue_mutex", "state_mutex"},
   seg7 |-> Sync,
   music |-> {"seg7"} \cup Sync,
   led |-> {"music", "seg7"} \cup Sync,
   light_sensor |-> {"led", "music", "seg7"} \cup Sync,
   socket |-> Devices \cup Sync,
   port |-> {"socket"} \cup Devices \cup Sync]

Init ==
  /\ WebInit
  /\ daemon_mode \in [Instance -> BOOLEAN]
  /\ pidfile = NoPid
  /\ open = {}
  /\ seen = [i \in Instance |-> NoPid]
  /\ raced = [i \in Instance |-> FALSE]
  /\ main = [i \in Instance |-> "off"]
  /\ step = [i \in Instance |-> 1]
  /\ held = [i \in Instance |-> {}]

\* The process exists.
Up(i) == main[i] \notin {"off", "exited", "crashed"}

MainGoto(i, label) ==
  main' = [main EXCEPT ![i] = label] /\ UNCHANGED daemon_mode

\* Someone listens on the port: a server, or a web server, which inherits the
\* listening socket.
PortBusy == \E i \in Instance : "port" \in held[i] \/ child[i] \in Alive

-----------------------------------------------------------------------------
(***************************************************************************)
(* main                                                                    *)
(***************************************************************************)

\* daemonize forks twice before the daemon goes on; it may fail.
Daemonize(i) == MainGoto(i, "pid_check") \/ MainGoto(i, "exited")

Start(i) ==
  /\ main[i] = "off"
  /\ IF daemon_mode[i] THEN Daemonize(i) ELSE MainGoto(i, "init")
  /\ UNCHANGED <<webVars, fileVars, step, held>>

\* A daemon between its look at the PID file and the end of its own writing, and
\* one that has passed the check.
InWindow(i) == main[i] \in {"pid_test", "pid_write", "pid_print"}
PastCheck(i) == daemon_mode[i] /\ Up(i) /\ main[i] \notin {"pid_check", "pid_test"}

\* The daemons whose start meets that of i if i looks at the PID file now: those
\* about to write it, and those that may be running unnamed because of a race.
Rivals(i) ==
  {j \in Instance \ {i} : InWindow(j) \/ (PastCheck(j) /\ raced[j])}

\* write_pid_file looks for a PID in the file.
PidCheck(i) ==
  /\ main[i] = "pid_check"
  /\ seen' = [seen EXCEPT ![i] = pidfile]
  /\ raced' = [k \in Instance |->
                 raced[k] \/ k \in Rivals(i) \/ (k = i /\ Rivals(i) # {})]
  /\ MainGoto(i, "pid_test")
  /\ UNCHANGED <<webVars, pidfile, open, step, held>>

\* Mutant of PidTest: a refused start removes the PID file, as the other failures
\* of main do.
PidTest_RefusedRemoves(i) ==
  /\ main[i] = "pid_test"
  /\ \/ seen[i] \in Instance /\ MainGoto(i, "pid_remove")
     \/ (seen[i] \in Instance => ~Up(seen[i])) /\ MainGoto(i, "pid_write")
  /\ seen' = [seen EXCEPT ![i] = NoPid]
  /\ UNCHANGED <<webVars, pidfile, open, raced, step, held>>

\* kill(pid, 0) tells whether the process found there exists.  The PID of a
\* process that has gone may have been given to another process.
PidTest(i) ==
  /\ main[i] = "pid_test"
  /\ \/ seen[i] \in Instance /\ MainGoto(i, "exited")
     \/ (seen[i] \in Instance => ~Up(seen[i])) /\ MainGoto(i, "pid_write")
  /\ seen' = [seen EXCEPT ![i] = NoPid]
  /\ UNCHANGED <<webVars, pidfile, open, raced, step, held>>

\* fopen creates or truncates the file; it may fail.
PidWrite(i) ==
  /\ main[i] = "pid_write"
  /\ \/ pidfile' = Empty /\ open' = open \cup {i} /\ MainGoto(i, "pid_print")
     \/ MainGoto(i, "exited") /\ UNCHANGED <<pidfile, open>>
  /\ UNCHANGED <<webVars, seen, raced, step, held>>

\* The PID goes to the file that was opened, which may have been removed since.
PidPrint(i) ==
  /\ main[i] = "pid_print"
  /\ pidfile' = IF i \in open THEN i ELSE pidfile
  /\ open' = open \ {i}
  /\ MainGoto(i, "init")
  /\ UNCHANGED <<webVars, seen, raced, step, held>>

\* A step of server_init; bind needs a free port.
InitStep(i) ==
  /\ main[i] = "init"
  /\ InitSteps[step[i]] = "port" => ~PortBusy
  /\ held' = [held EXCEPT ![i] = @ \cup {InitSteps[step[i]]}]
  /\ step' = [step EXCEPT ![i] = @ + 1]
  /\ MainGoto(i, IF step[i] = Len(InitSteps) THEN "fork" ELSE "init")
  /\ UNCHANGED <<webVars, fileVars>>

\* Mutant of InitFails: the PID file is not removed.
InitFails_KeepsPid(i) ==
  /\ main[i] = "init"
  /\ held' = [held EXCEPT ![i] = @ \ Undo[InitSteps[step[i]]]]
  /\ MainGoto(i, "exited")
  /\ UNCHANGED <<webVars, fileVars, step>>

InitFails(i) ==
  /\ main[i] = "init"
  /\ held' = [held EXCEPT ![i] = @ \ Undo[InitSteps[step[i]]]]
  /\ MainGoto(i, "pid_remove")
  /\ UNCHANGED <<webVars, fileVars, step>>

StartWebServer(i) ==
  /\ main[i] = "fork"
  /\ StartFork(i)
  /\ MainGoto(i, "web")
  /\ UNCHANGED <<fileVars, step, held>>

\* start_web_server has returned.
WebStarted(i) ==
  /\ main[i] = "web" /\ call[i] = "idle"
  /\ MainGoto(i, "thread")
  /\ UNCHANGED <<webVars, fileVars, step, held>>

\* Call stop_web_server, if there is a web server, and then go on at label.
StopWebServer(i, label) ==
  /\ MainGoto(i, label)
  /\ IF web_server_pid[i] THEN CallGoto(i, "term") ELSE UNCHANGED call
  /\ UNCHANGED <<child, web_server_pid, count, killed, fileVars, step, held>>

CreateDeviceThread(i) ==
  /\ main[i] = "thread"
  /\ MainGoto(i, "serving")
  /\ UNCHANGED <<webVars, fileVars, step, held>>

NoDeviceThread(i) ==
  /\ main[i] = "thread"
  /\ StopWebServer(i, "stop_early")

\* server_cleanup then joins a thread that was never created, which is
\* undefined: the process crashes (Crash) or goes on.  It calls stop_web_server
\* a second time.
JoinNoThread(i) ==
  /\ main[i] = "stop_early" /\ call[i] = "idle"
  /\ StopWebServer(i, "stop")

\* The accept loop has ended: SIGINT or an error.
ServeEnds(i) ==
  /\ main[i] = "serving"
  /\ MainGoto(i, "cleanup")
  /\ UNCHANGED <<webVars, fileVars, step, held>>

\* server_cleanup has joined the device thread.
CleanupJoined(i) ==
  /\ main[i] = "cleanup"
  /\ StopWebServer(i, "stop")

\* The rest of server_cleanup.
Release(i) ==
  /\ main[i] = "stop" /\ call[i] = "idle"
  /\ held' = [held EXCEPT ![i] = @ \ ({"socket", "port"} \cup Devices \cup Sync)]
  /\ MainGoto(i, "pid_remove")
  /\ UNCHANGED <<webVars, fileVars, step>>

\* remove_pid_file removes the file whoever has written it.
PidRemove(i) ==
  /\ main[i] = "pid_remove"
  /\ IF daemon_mode[i] THEN pidfile' = NoPid /\ open' = {} ELSE UNCHANGED <<pidfile, open>>
  /\ MainGoto(i, "exited")
  /\ UNCHANGED <<webVars, seen, raced, step, held>>

WebStep(i) ==
  /\ Up(i)
  /\ WebCall(i)
  /\ UNCHANGED <<fileVars, daemon_mode, main, step, held>>

MainStep(i) ==
  \/ PidCheck(i) \/ PidTest(i) \/ PidWrite(i) \/ PidPrint(i) \/ InitStep(i) \/ InitFails(i)
  \/ StartWebServer(i) \/ WebStarted(i) \/ CreateDeviceThread(i) \/ NoDeviceThread(i)
  \/ JoinNoThread(i) \/ CleanupJoined(i) \/ Release(i) \/ PidRemove(i) \/ WebStep(i)

-----------------------------------------------------------------------------
\* The handler of the server, or init once the server has gone.
Reap(i) == sigchld_handler(i) /\ UNCHANGED <<fileVars, daemon_mode, main, step, held>>

WebChild(i) == ChildStep(i) /\ UNCHANGED <<fileVars, daemon_mode, main, step, held>>

\* The process is killed or crashes: the kernel closes its sockets, the PID file
\* and the web server stay.
Crash(i) ==
  /\ Up(i)
  /\ MainGoto(i, "crashed")
  /\ held' = [held EXCEPT ![i] = {}]
  /\ UNCHANGED <<webVars, fileVars, step>>

Over == (\A i \in Instance : ~Up(i) /\ main[i] # "off") /\ UNCHANGED vars

Next ==
  \/ \E i \in Instance :
       Start(i) \/ MainStep(i) \/ ServeEnds(i) \/ Reap(i) \/ WebChild(i) \/ Crash(i)
  \/ Over

Spec == Init /\ [][Next]_vars

(***************************************************************************)
(* Fairness: the main thread goes on and SIGCHLD is delivered; nothing     *)
(* makes the web server react to SIGTERM, and nobody has to press Ctrl+C.  *)
(***************************************************************************)
FairSpec ==
  Spec /\ \A i \in Instance : WF_vars(MainStep(i)) /\ WF_vars(Reap(i))

-----------------------------------------------------------------------------
(***************************************************************************)
(* Properties                                                              *)
(***************************************************************************)

\* The variables have their types; the count of the polls stays in its bound.
TypeOK ==
  /\ child \in [Instance -> ChildStates]
  /\ web_server_pid \in [Instance -> BOOLEAN]
  /\ call \in [Instance -> CallLabels]
  /\ count \in [Instance -> 0 .. MaxPolls]
  /\ killed \in [Instance -> ChildStates]
  /\ daemon_mode \in [Instance -> BOOLEAN]
  /\ pidfile \in Instance \cup {NoPid, Empty}
  /\ open \in SUBSET Instance
  /\ seen \in [Instance -> Instance \cup {NoPid, Empty}]
  /\ raced \in [Instance -> BOOLEAN]
  /\ main \in [Instance -> MainLabels]
  /\ step \in [Instance -> 1 .. 11]
  /\ held \in [Instance -> SUBSET Resources]

\* At whatever step server_init fails, it releases exactly what it has acquired:
\* nothing stays behind and nothing is released that is not there.
UndoExact == \A i \in Instance : main[i] = "init" => Undo[InitSteps[step[i]]] = held[i]

\* A server that returns from main leaves nothing behind, also after a failed
\* start and whoever reaped the web server: no resource, no running web server
\* (which would keep the port) and no zombie.
CleanExit ==
  \A i \in Instance : main[i] = "exited" => held[i] = {} /\ child[i] \in Gone

\* The PID file names a running instance or one that has crashed: an instance
\* that exits in order never leaves its PID behind, whatever others do to the
\* file.
PidFileHasOwner == pidfile \in Instance => main[pidfile] \notin {"off", "exited"}

\* A daemon that has written its PID is named by the PID file until it removes it,
\* whatever was left there by a crash and whoever else is started: a second start
\* is refused and leaves the file alone.  The one exception is a race: the check
\* of another daemon fell between its own check and its writing, or met a daemon
\* that such a race had left running without a PID file.
PidFileNamesDaemon ==
  \A i \in Instance : PastCheck(i) /\ ~InWindow(i) /\ ~raced[i] => pidfile = i

\* The steps main has still to take, at most, until it returns: those of the
\* call of stop_web_server it is in, and those behind it.
CallLeft(i) ==
  CASE call[i] = "term" -> MaxPolls + 4
    [] call[i] = "poll" -> MaxPolls - count[i] + 3
    [] call[i] = "force" -> 2
    [] call[i] = "wait" -> 1
    [] OTHER -> 0
MainLeft(i) ==
  CASE main[i] \in {"cleanup", "stop_early"} -> MaxPolls + 7
    [] main[i] = "stop" -> 2
    [] main[i] = "pid_remove" -> 1
    [] OTHER -> 0
StepsLeft(i) == MainLeft(i) + CallLeft(i)

ShuttingDown(i) == main[i] \in {"cleanup", "stop_early", "stop", "pid_remove"}

\* The shutdown is bounded: every step of main brings it nearer to its return,
\* whatever the web server, the handler and other instances do in between, and
\* the last waitpid, which has no time limit, does not block.
ShutdownAdvances ==
  [][\A i \in Instance : ShuttingDown(i) =>
       /\ call[i] = "wait" => child[i] \notin Alive
       /\ \/ main'[i] = main[i] /\ call'[i] = call[i] /\ count'[i] = count[i]
          \/ main'[i] = "crashed"
          \/ StepsLeft(i)' < StepsLeft(i)]_vars

\* A shutdown ends, even if the web server does not react to SIGTERM.
ShutdownEnds == \A i \in Instance : main[i] \in {"stop_early", "cleanup"} ~> ~Up(i)

\* stop_web_server sends SIGKILL only to a web server that is still running.
\* Does not hold: after the handler has reaped the child every waitpid fails,
\* which is taken for "still running".
KillOnlyRunning == \A i \in Instance : killed[i] # "reaped"
=============================================================================
