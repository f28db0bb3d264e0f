-------------------------- MODULE LifecycleProofs --------------------------
(***************************************************************************)
(* Proofs about the life of server processes, for any number of instances  *)
(* and any number of polls.                                                *)
(***************************************************************************)
EXTENDS Lifecycle, TLAPS

Early == {"off", "pid_check", "pid_test", "pid_write", "pid_print"}

\* server_init has acquired what a failure would release, and returns no later
\* than its last step.
Starting(i) ==
  /\ main[i] \in Early => held[i] = {} /\ step[i] = 1
  /\ main[i] = "init" => step[i] \in 1 .. 10 /\ held[i] = Undo[InitSteps[step[i]]]
  /\ main[i] \in Early \ {"off"} => daemon_mode[i]

\* Main is in start_web_server or stop_web_server only where it calls them.
Calling(i) ==
  \/ main[i] = "crashed"
  \/ main[i] = "web" /\ call[i] \in {"idle", "sleep"}
  \/ main[i] \in {"stop_early", "stop"} /\ call[i] # "sleep"
  \/ call[i] = "idle"

\* There is no child that main does not know of, and none when stop_web_server
\* has returned.
ChildKnown(i) ==
  /\ call[i] # "sleep" /\ ~web_server_pid[i] => child[i] \in Gone
  /\ main[i] \in Early \cup {"init", "fork"} => ~web_server_pid[i]
  /\ main[i] \in {"stop_early", "stop"} /\ call[i] = "idle" => child[i] \in Gone
  /\ main[i] \in {"pid_remove", "exited"} => held[i] = {} /\ child[i] \in Gone

\* The instance in the PID file has written it and has not removed it.
Owner ==
  pidfile \in Instance =>
    main[pidfile] \notin Early \cup {"exited"} /\ daemon_mode[pidfile]

\* SIGKILL has ended the child before main waits for it.
Awaited(i) == call[i] = "wait" => child[i] \notin Alive

Local(i) == Starting(i) /\ Calling(i) /\ ChildKnown(i) /\ Awaited(i)

\* A daemon whose start met no other is alone behind the check.  While it looks
\* at the PID file nobody else does, and a daemon that runs is the one it has
\* seen; the file it has opened is still there when it writes; from then on the
\* file names it, and so does whatever another daemon has read.
Solo(i) ==
  ~raced[i] =>
    /\ InWindow(i) => \A j \in Instance \ {i} : ~InWindow(j)
    /\ main[i] = "pid_test" => \A j \in Instance \ {i} : PastCheck(j) => seen[i] = j
    /\ PastCheck(i) => \A j \in Instance \ {i} : ~PastCheck(j)
    /\ main[i] = "pid_print" => i \in open
    /\ PastCheck(i) /\ ~InWindow(i) =>
         /\ pidfile = i
         /\ \A j \in Instance \ {i} : main[j] = "pid_test" => seen[j] = i

IInv ==
  TypeOK /\ (\A i \in Instance : Local(i)) /\ Owner /\ (\A i \in Instance : Solo(i))

\* Every step of server_init adds to the undo list what it acquires.
LEMMA UndoGrows ==
  /\ Undo[InitSteps[1]] = {}
  /\ \A k \in 1 .. 9 : Undo[InitSteps[k + 1]] = Undo[InitSteps[k]] \cup {InitSteps[k]}
  /\ \A k \in 1 .. 10 : InitSteps[k] \in Resources
  /\ Len(InitSteps) = 10
<1> DEFINE s == InitSteps
<1>1. /\ s[1] = "queue_mutex" /\ s[2] = "state_mutex" /\ s[3] = "queue_not_empty"
      /\ s[4] = "response_ready" /\ s[5] = "seg7" /\ s[6] = "music" /\ s[7] = "led"
      /\ s[8] = "light_sensor" /\ s[9] = "socket" /\ s[10] = "port" /\ Len(s) = 10
  BY DEF InitSteps
<1>2. \A k \in 1 .. 10 : k = 1 \/ k = 2 \/ k = 3 \/ k = 4 \/ k = 5 \/ k = 6 \/ k = 7
                         \/ k = 8 \/ k = 9 \/ k = 10
  OBVIOUS
<1>3. \A k \in 1 .. 10 : InitSteps[k] \in Resources
  BY <1>1, <1>2 DEF Resources, Sync, Devices
<1>4. Undo[s[1]] = {} /\ Undo[s[2]] = {"queue_mutex"}
      /\ Undo[s[3]] = {"queue_mutex", "state_mutex"}
      /\ Undo[s[4]] = {"queue_not_empty", "queue_mutex", "state_mutex"}
      /\ Undo[s[5]] = Sync /\ Undo[s[6]] = {"seg7"} \cup Sync
      /\ Undo[s[7]] = {"music", "seg7"} \cup Sync
      /\ Undo[s[8]] = {"led", "music", "seg7"} \cup Sync
      /\ Undo[s[9]] = Devices \cup Sync /\ Undo[s[10]] = {"socket"} \cup Devices \cup Sync
  BY <1>1 DEF Undo
<1>5. ASSUME NEW k \in 1 .. 9
      PROVE  Undo[s[k + 1]] = Undo[s[k]] \cup {s[k]}
  <2> HIDE DEF s
  <2>1. k = 1 \/ k = 2 \/ k = 3 \/ k = 4 \/ k = 5 \/ k = 6 \/ k = 7 \/ k = 8 \/ k = 9
    OBVIOUS
  <2>2. Undo[s[2]] = Undo[s[1]] \cup {s[1]} /\ Undo[s[3]] = Undo[s[2]] \cup {s[2]}
    BY <1>1, <1>4
  <2>3. Undo[s[4]] = Undo[s[3]] \cup {s[3]} /\ Undo[s[5]] = Undo[s[4]] \cup {s[4]}
    BY <1>1, <1>4 DEF Sync
  <2>4. Undo[s[6]] = Undo[s[5]] \cup {s[5]} /\ Undo[s[7]] = Undo[s[6]] \cup {s[6]}
    BY <1>1, <1>4
  <2>5. Undo[s[8]] = Undo[s[7]] \cup {s[7]} /\ Undo[s[9]] = Undo[s[8]] \cup {s[8]}
    BY <1>1, <1>4 DEF Devices
  <2>6. Undo[s[10]] = Undo[s[9]] \cup {s[9]}
    BY <1>1, <1>4
  <2> QED BY <2>1, <2>2, <2>3, <2>4, <2>5, <2>6
<1> QED BY <1>1, <1>3, <1>4, <1>5

\* Init establishes the invariant.
LEMMA InitIInv == Init => IInv
<1> SUFFICES ASSUME Init PROVE IInv
  OBVIOUS
<1>1. TypeOK
  <2>1. 0 \in 0 .. MaxPolls /\ 1 \in 1 .. 11
    BY MaxPollsAssumption
  <2> QED BY <2>1, Zenon DEF Init, WebInit, TypeOK, ChildStates, Gone, CallLabels, MainLabels
<1>2. \A i \in Instance : Local(i)
  BY DEF Init, WebInit, Local, Starting, Calling, ChildKnown, Awaited, Early, Gone
<1>3. Owner
  BY PidAssumption DEF Init, Owner
<1>4. \A i \in Instance : Solo(i)
  BY DEF Init, Solo, InWindow, PastCheck, Up
<1> QED BY <1>1, <1>2, <1>3, <1>4 DEF IInv

\* Every step keeps the variables in their types.
LEMMA NextTypeOK == IInv /\ [Next]_vars => TypeOK'
<1> SUFFICES ASSUME IInv, [Next]_vars PROVE TypeOK'
  OBVIOUS
<1>0. TypeOK /\ \A i \in Instance : Local(i)
  BY DEF IInv
<1> USE DEF TypeOK, MainGoto, Daemonize, fileVars
<1>1. ASSUME NEW i \in Instance, Start(i) \/ PidCheck(i) \/ PidTest(i) PROVE TypeOK'
  <2>1. raced' \in [Instance -> BOOLEAN]
    <3>1. CASE PidCheck(i)
      BY <3>1, Zenon DEF PidCheck
    <3>2. CASE Start(i) \/ PidTest(i)
      BY <1>0, <3>2 DEF Start, PidTest
    <3> QED BY <1>1, <3>1, <3>2
  <2>2. CASE Start(i) \/ PidTest(i)
    BY <1>0, <2>1, <2>2 DEF Start, PidTest, webVars, MainLabels
  <2>3. CASE PidCheck(i)
    <3>1. main' \in [Instance -> MainLabels] /\ seen' \in [Instance -> Instance \cup {NoPid, Empty}]
      BY <1>0, <2>3 DEF PidCheck, MainLabels
    <3>2. UNCHANGED <<webVars, pidfile, open, step, held, daemon_mode>>
      BY <2>3 DEF PidCheck
    <3> QED BY <1>0, <2>1, <3>1, <3>2 DEF webVars
  <2> QED BY <1>1, <2>2, <2>3
<1>2. ASSUME NEW i \in Instance, PidWrite(i) \/ PidPrint(i) \/ PidRemove(i) PROVE TypeOK'
  BY <1>0, <1>2 DEF PidWrite, PidPrint, PidRemove, webVars, fileVars, MainLabels
<1>3. ASSUME NEW i \in Instance, InitStep(i) PROVE TypeOK'
  <2>1. step[i] \in 1 .. 10
    BY <1>0, <1>3 DEF Local, Starting, InitStep
  <2>2. step[i] + 1 \in 1 .. 11 /\ InitSteps[step[i]] \in Resources
    BY <2>1, UndoGrows
  <2> QED BY <1>0, <1>3, <2>2 DEF InitStep, webVars, fileVars, MainLabels
<1>4. ASSUME NEW i \in Instance, InitFails(i) \/ Release(i) \/ Crash(i) PROVE TypeOK'
  BY <1>0, <1>4 DEF InitFails, Release, Crash, webVars, fileVars, MainLabels
<1>5. ASSUME NEW i \in Instance, StartWebServer(i) PROVE TypeOK'
  BY <1>0, <1>5 DEF StartWebServer, StartFork, CallGoto, ChildBecomes, MainLabels,
     CallLabels, ChildStates, Alive
<1>6. ASSUME NEW i \in Instance, WebStarted(i) \/ CreateDeviceThread(i) \/ ServeEnds(i)
      PROVE  TypeOK'
  BY <1>0, <1>6 DEF WebStarted, CreateDeviceThread, ServeEnds, webVars, fileVars, MainLabels
<1>7. ASSUME NEW i \in Instance, NoDeviceThread(i) \/ JoinNoThread(i) \/ CleanupJoined(i)
      PROVE  TypeOK'
  BY <1>0, <1>7 DEF NoDeviceThread, JoinNoThread, CleanupJoined, StopWebServer, CallGoto,
     MainLabels, CallLabels
<1>8. ASSUME NEW i \in Instance, WebStep(i) PROVE TypeOK'
  <2>1. 0 \in 0 .. MaxPolls /\ (count[i] < MaxPolls => count[i] + 1 \in 0 .. MaxPolls)
    BY <1>0, MaxPollsAssumption
  <2> USE DEF WebStep, CallGoto, ChildBecomes, CallLabels, ChildStates, Alive, Gone
  <2>2. CASE StopTerm(i)
    BY <1>0, <1>8, <2>1, <2>2 DEF StopTerm
  <2>3. CASE StopPoll(i)
    BY <1>0, <1>8, <2>1, <2>3 DEF StopPoll
  <2>4. CASE StartCheck(i) \/ StopForce(i) \/ StopWait(i)
    BY <1>0, <1>8, <2>4 DEF StartCheck, StopForce, StopWait
  <2> QED BY <1>8, <2>2, <2>3, <2>4 DEF WebCall
<1>9. ASSUME NEW i \in Instance, Reap(i) \/ WebChild(i) PROVE TypeOK'
  BY <1>0, <1>9 DEF Reap, WebChild, sigchld_handler, ChildStep, ChildBecomes, ChildStates,
     Alive, Gone
<1>10. CASE UNCHANGED vars
  BY <1>0, <1>10 DEF vars, webVars, fileVars
<1> QED BY <1>1, <1>2, <1>3, <1>4, <1>5, <1>6, <1>7, <1>8, <1>9, <1>10 DEF Next, MainStep, Over

\* A step of one instance leaves what is known of the others alone.
LEMMA OthersKept ==
  ASSUME TypeOK, NEW i \in Instance, NEW j \in Instance, i # j, Local(j),
         main'[j] = main[j], step'[j] = step[j], held'[j] = held[j], call'[j] = call[j],
         child'[j] = child[j], web_server_pid'[j] = web_server_pid[j],
         daemon_mode'[j] = daemon_mode[j]
  PROVE  Local(j)'
BY DEF Local, Starting, Calling, ChildKnown, Awaited

\* Every step preserves what is known of an instance.
LEMMA NextLocal == IInv /\ [Next]_vars => \A j \in Instance : Local(j)'
<1> SUFFICES ASSUME IInv, [Next]_vars, NEW j \in Instance PROVE Local(j)'
  OBVIOUS
<1>0. TypeOK /\ Local(j)
  BY DEF IInv
<1>a. ASSUME NEW i \in Instance,
             Start(i) \/ MainStep(i) \/ ServeEnds(i) \/ Reap(i) \/ WebChild(i) \/ Crash(i),
             i # j
      PROVE  Local(j)'
  <2>1. /\ main'[j] = main[j] /\ step'[j] = step[j] /\ held'[j] = held[j]
        /\ call'[j] = call[j] /\ child'[j] = child[j]
        /\ web_server_pid'[j] = web_server_pid[j] /\ daemon_mode'[j] = daemon_mode[j]
    <3>1. CASE Start(i) \/ PidCheck(i) \/ PidTest(i) \/ PidWrite(i) \/ PidPrint(i) \/ PidRemove(i)
               \/ InitStep(i) \/ InitFails(i) \/ Release(i) \/ Crash(i)
      BY <1>0, <1>a, <3>1 DEF TypeOK, MainGoto, Start, Daemonize, PidCheck, PidTest, PidWrite, PidPrint, PidRemove,
         InitStep, InitFails, Release, Crash, webVars, fileVars
    <3>2. CASE StartWebServer(i) \/ WebStarted(i) \/ CreateDeviceThread(i) \/ ServeEnds(i)
               \/ NoDeviceThread(i) \/ JoinNoThread(i) \/ CleanupJoined(i)
      BY <1>0, <1>a, <3>2 DEF TypeOK, MainGoto, StartWebServer, StartFork, WebStarted,
         CreateDeviceThread, ServeEnds, NoDeviceThread, JoinNoThread, CleanupJoined,
         StopWebServer, CallGoto, ChildBecomes, webVars, fileVars
    <3>3. CASE WebStep(i)
      BY <1>0, <1>a, <3>3 DEF TypeOK, WebStep, WebCall, StartCheck, StopTerm, StopPoll,
         StopForce, StopWait, CallGoto, ChildBecomes
    <3>4. CASE Reap(i) \/ WebChild(i)
      BY <1>0, <1>a, <3>4 DEF TypeOK, Reap, WebChild, sigchld_handler, ChildStep, ChildBecomes
    <3> QED BY <1>a, <3>1, <3>2, <3>3, <3>4 DEF MainStep
  <2> QED BY <1>0, <1>a, <2>1, OthersKept
<1> USE DEF Local, Starting, Calling, ChildKnown, Awaited, Early, MainGoto, Daemonize
<1>1. CASE Start(j) \/ PidCheck(j) \/ PidTest(j) \/ PidWrite(j) \/ PidPrint(j)
  <2>1. main[j] \in Early /\ step'[j] = 1 /\ held'[j] = {}
    BY <1>0, <1>1 DEF TypeOK, Start, PidCheck, PidTest, PidWrite, PidPrint
  <2>2. main'[j] \in {"pid_check", "pid_test", "pid_write", "pid_print", "init", "exited"}
    BY <1>0, <1>1 DEF TypeOK, Start, PidCheck, PidTest, PidWrite, PidPrint
  <2>3. /\ call' = call /\ child' = child /\ web_server_pid' = web_server_pid
        /\ daemon_mode' = daemon_mode
    BY <1>1 DEF Start, PidCheck, PidTest, PidWrite, PidPrint, webVars, fileVars
  <2>4. main'[j] \in Early => daemon_mode[j]
    BY <1>0, <1>1 DEF TypeOK, Start, PidCheck, PidTest, PidWrite, PidPrint
  <2>5. Starting(j)'
    <3>1. 1 \in 1 .. 10 /\ {} = Undo[InitSteps[1]]
      BY UndoGrows
    <3>2. held'[j] = Undo[InitSteps[step'[j]]] /\ step'[j] \in 1 .. 10
      BY <2>1, <3>1
    <3> QED BY <2>1, <2>3, <2>4, <3>2
  <2> QED BY <1>0, <2>1, <2>2, <2>3, <2>5
<1>3. CASE InitStep(j)
  <2>1. main[j] = "init" /\ step[j] \in 1 .. 10 /\ held[j] = Undo[InitSteps[step[j]]]
    BY <1>0, <1>3 DEF InitStep
  <2>2. step'[j] = step[j] + 1 /\ held'[j] = held[j] \cup {InitSteps[step[j]]}
    BY <1>0, <1>3 DEF InitStep, TypeOK
  <2>3. main'[j] = IF step[j] = 10 THEN "fork" ELSE "init"
    BY <1>0, <1>3, UndoGrows DEF InitStep, TypeOK
  <2>4. Starting(j)'
    <3>1. step[j] # 10 => step[j] \in 1 .. 9 /\ step[j] + 1 \in 1 .. 10
      BY <2>1
    <3>2. step[j] # 10 => held'[j] = Undo[InitSteps[step'[j]]]
      BY <2>1, <2>2, <3>1, UndoGrows
    <3> QED BY <2>2, <2>3, <3>1, <3>2
  <2>5. (Calling(j) /\ ChildKnown(j) /\ Awaited(j))'
    BY <1>0, <1>3, <2>1, <2>3 DEF InitStep, webVars, fileVars
  <2> QED BY <2>4, <2>5
<1>4. CASE InitFails(j)
  BY <1>0, <1>4 DEF TypeOK, InitFails, webVars, fileVars
<1>5. CASE StartWebServer(j)
  BY <1>0, <1>5 DEF TypeOK, StartWebServer, StartFork, CallGoto, ChildBecomes
<1>6. CASE WebStarted(j) \/ CreateDeviceThread(j) \/ ServeEnds(j)
  BY <1>0, <1>6 DEF TypeOK, WebStarted, CreateDeviceThread, ServeEnds, webVars, fileVars
<1>7. CASE NoDeviceThread(j) \/ JoinNoThread(j) \/ CleanupJoined(j)
  BY <1>0, <1>7 DEF TypeOK, NoDeviceThread, JoinNoThread, CleanupJoined, StopWebServer, CallGoto
<1>8. CASE Release(j)
  <2>1. held'[j] = {}
    BY <1>0, <1>8 DEF TypeOK, Release, Resources
  <2> QED BY <1>0, <1>8, <2>1 DEF TypeOK, Release, webVars, fileVars
<1>9. CASE PidRemove(j) \/ Crash(j)
  BY <1>0, <1>9 DEF TypeOK, PidRemove, Crash, webVars, fileVars
<1>10. CASE WebStep(j)
  BY <1>0, <1>10 DEF TypeOK, WebStep, WebCall, StartCheck, StopTerm, StopPoll, StopForce,
     StopWait, CallGoto, ChildBecomes, Gone, Alive, ChildStates, Up
<1>11. CASE Reap(j) \/ WebChild(j)
  BY <1>0, <1>11 DEF TypeOK, Reap, WebChild, sigchld_handler, ChildStep, ChildBecomes, Gone, Alive
<1>12. CASE UNCHANGED vars
  BY <1>0, <1>12 DEF vars, webVars, fileVars
<1> QED BY <1>a, <1>1, <1>3, <1>4, <1>5, <1>6, <1>7, <1>8, <1>9, <1>10, <1>11, <1>12
        DEF Next, MainStep, Over

\* The PID file is written after the checks and removed before the exit.
LEMMA NextOwner == IInv /\ [Next]_vars => Owner'
<1> SUFFICES ASSUME IInv, [Next]_vars PROVE Owner'
  OBVIOUS
<1>0. TypeOK /\ Owner /\ \A i \in Instance : Starting(i)
  BY DEF IInv, Local
<1> USE DEF Owner, Early, MainGoto, Daemonize, fileVars
<1>1. ASSUME NEW i \in Instance, Start(i) \/ PidCheck(i) \/ PidTest(i) PROVE Owner'
  <2>1. main[i] \in Early /\ pidfile' = pidfile /\ daemon_mode' = daemon_mode
        /\ \A j \in Instance : j # i => main'[j] = main[j]
    BY <1>0, <1>1 DEF TypeOK, Start, PidCheck, PidTest
  <2> QED BY <1>0, <2>1
<1>2. ASSUME NEW i \in Instance, PidWrite(i) PROVE Owner'
  BY <1>0, <1>2, PidAssumption DEF TypeOK, PidWrite
<1>3. ASSUME NEW i \in Instance, PidPrint(i) PROVE Owner'
  BY <1>0, <1>3 DEF TypeOK, PidPrint, Starting
<1>4. ASSUME NEW i \in Instance, PidRemove(i) PROVE Owner'
  BY <1>0, <1>4, PidAssumption DEF TypeOK, PidRemove
<1>5. ASSUME NEW i \in Instance, InitStep(i) \/ InitFails(i) \/ Release(i) \/ Crash(i)
      PROVE  Owner'
  BY <1>0, <1>5 DEF TypeOK, InitStep, InitFails, Release, Crash
<1>6. ASSUME NEW i \in Instance, StartWebServer(i) \/ WebStarted(i) \/ CreateDeviceThread(i)
             \/ ServeEnds(i) \/ NoDeviceThread(i) \/ JoinNoThread(i) \/ CleanupJoined(i)
      PROVE  Owner'
  BY <1>0, <1>6 DEF TypeOK, StartWebServer, WebStarted, CreateDeviceThread, ServeEnds,
     NoDeviceThread, JoinNoThread, CleanupJoined, StopWebServer
<1>7. ASSUME NEW i \in Instance, WebStep(i) \/ Reap(i) \/ WebChild(i) PROVE Owner'
  BY <1>0, <1>7 DEF WebStep, Reap, WebChild
<1>8. CASE UNCHANGED vars
  BY <1>0, <1>8 DEF vars
<1> QED BY <1>1, <1>2, <1>3, <1>4, <1>5, <1>6, <1>7, <1>8 DEF Next, MainStep, Over

\* What is known of a lone daemon depends on few variables; a step that leaves these
\* alone, or takes an instance to a later place or out, keeps it.
LEMMA SoloKept ==
  ASSUME TypeOK, TypeOK', NEW i \in Instance, NEW k \in Instance, Solo(k),
         UNCHANGED <<fileVars, daemon_mode>>,
         \A j \in Instance : j # i => main'[j] = main[j],
         main'[i] = main[i] \/ main'[i] \in {"exited", "crashed"}
           \/ (~InWindow(i) /\ ~InWindow(i)' /\ (PastCheck(i)' => PastCheck(i)))
  PROVE  Solo(k)'
<1>1. \A j \in Instance : /\ InWindow(j)' => InWindow(j)
                          /\ PastCheck(j)' => PastCheck(j)
                          /\ InWindow(j)' => main'[j] = main[j]
  BY DEF InWindow, PastCheck, Up
<1>2. /\ (PastCheck(k) /\ ~InWindow(k))' => PastCheck(k) /\ ~InWindow(k)
      /\ pidfile' = pidfile /\ seen' = seen /\ raced' = raced /\ open' = open
  BY DEF InWindow, PastCheck, Up, fileVars
<1>3. \A j \in Instance : main'[j] \in {"pid_test", "pid_print"} => InWindow(j)' /\ main[j] = main'[j]
  BY <1>1 DEF InWindow
<1> QED BY <1>1, <1>2, <1>3 DEF Solo

\* Every step keeps what is known of a lone daemon: to pass the check while one
\* runs, another would have to have seen a PID that is not there.
LEMMA NextSolo == IInv /\ [Next]_vars => \A k \in Instance : Solo(k)'
<1> SUFFICES ASSUME IInv, [Next]_vars, NEW k \in Instance PROVE Solo(k)'
  OBVIOUS
<1>0. TypeOK /\ TypeOK' /\ Solo(k) /\ \A i \in Instance : Starting(i) /\ Solo(i)
  BY NextTypeOK DEF IInv, Local
<1> USE DEF MainGoto, Daemonize
<1>1. ASSUME NEW i \in Instance, Start(i) PROVE Solo(k)'
  <2>1. main[i] = "off" /\ main'[i] \in {"pid_check", "exited", "init"}
        /\ (main'[i] = "init" => ~daemon_mode[i])
        /\ \A j \in Instance : j # i => main'[j] = main[j]
    BY <1>0, <1>1 DEF TypeOK, Start
  <2> QED BY <1>0, <1>1, <2>1, SoloKept DEF Start, InWindow, PastCheck, Up
<1>2. ASSUME NEW i \in Instance, PidCheck(i) PROVE Solo(k)'
  <2>1. /\ main[i] = "pid_check" /\ main'[i] = "pid_test" /\ seen'[i] = pidfile
        /\ \A j \in Instance : j # i => main'[j] = main[j] /\ seen'[j] = seen[j]
        /\ pidfile' = pidfile /\ open' = open /\ daemon_mode' = daemon_mode
    BY <1>0, <1>2 DEF TypeOK, PidCheck
  <2>2. /\ \A j \in Instance : PastCheck(j)' <=> PastCheck(j)
        /\ \A j \in Instance : j # i => (InWindow(j)' <=> InWindow(j))
        /\ ~PastCheck(i) /\ ~InWindow(i)
    BY <2>1 DEF PastCheck, InWindow, Up
  <2>3. SUFFICES ASSUME ~raced'[k] PROVE Solo(k)'
    BY DEF Solo
  <2>4. ~raced[k] /\ k \notin Rivals(i) /\ (k = i => Rivals(i) = {})
    BY <1>2, <2>3, Zenon DEF PidCheck
  <2>5. CASE k = i
    <3>1. \A j \in Instance \ {i} : ~InWindow(j) /\ ~(PastCheck(j) /\ raced[j])
      BY <2>4, <2>5 DEF Rivals
    <3>2. \A j \in Instance \ {i} : PastCheck(j) => pidfile = j
      BY <1>0, <3>1 DEF Solo
    <3> QED BY <2>1, <2>2, <2>5, <3>1, <3>2 DEF Solo
  <2>6. CASE k # i
    <3>1. ~InWindow(k) /\ ~InWindow(k)'
      BY <2>2, <2>4, <2>6 DEF Rivals
    <3>2. main'[k] \notin {"pid_test", "pid_print"}
      BY <3>1 DEF InWindow
    <3> QED BY <1>0, <2>1, <2>2, <2>4, <2>6, <3>1, <3>2 DEF Solo
  <2> QED BY <2>5, <2>6
<1>3. ASSUME NEW i \in Instance, PidTest(i) PROVE Solo(k)'
  <2>1. /\ main[i] = "pid_test" /\ main'[i] \in {"exited", "pid_write"}
        /\ main'[i] = "pid_write" => (seen[i] \in Instance => ~Up(seen[i]))
        /\ \A j \in Instance : j # i => main'[j] = main[j] /\ seen'[j] = seen[j]
        /\ pidfile' = pidfile /\ open' = open /\ daemon_mode' = daemon_mode /\ raced' = raced
    BY <1>0, <1>3 DEF TypeOK, PidTest
  <2>2. /\ \A j \in Instance : j # i => (PastCheck(j)' <=> PastCheck(j)) /\ (InWindow(j)' <=> InWindow(j))
        /\ InWindow(i) /\ (InWindow(i)' => main'[i] = "pid_write")
        /\ (PastCheck(i)' => main'[i] = "pid_write") /\ (PastCheck(i)' => InWindow(i)')
    BY <2>1 DEF PastCheck, InWindow, Up
  <2>3. SUFFICES ASSUME ~raced[k] PROVE Solo(k)'
    BY <2>1 DEF Solo
  <2>4. ASSUME NEW j \in Instance, PastCheck(j), seen[i] = j PROVE main'[i] = "exited"
    BY <2>1, <2>4 DEF PastCheck
  <2>5. CASE k = i
    <3>1. \A j \in Instance \ {i} : ~InWindow(j) /\ (PastCheck(j) => seen[i] = j)
      BY <1>0, <2>1, <2>2, <2>3, <2>5 DEF Solo
    <3>2. main'[i] = "pid_write" => \A j \in Instance \ {i} : ~PastCheck(j)
      BY <2>4, <3>1
    <3> QED BY <2>1, <2>2, <2>5, <3>1, <3>2 DEF Solo
  <2>6. CASE k # i
    <3>1. ~InWindow(k)
      BY <1>0, <2>2, <2>3, <2>6 DEF Solo
    <3>2. main'[k] \notin {"pid_test", "pid_print"}
      BY <2>1, <2>6, <3>1 DEF InWindow
    <3>3. PastCheck(k) => seen[i] = k
      BY <1>0, <2>1, <2>3, <2>6, <3>1 DEF Solo
    <3>4. PastCheck(k) => ~PastCheck(i)'
      BY <2>2, <2>4, <3>3
    <3> QED BY <1>0, <2>1, <2>2, <2>3, <2>6, <3>1, <3>2, <3>4 DEF Solo
  <2> QED BY <2>5, <2>6
<1>4. ASSUME NEW i \in Instance, PidWrite(i) \/ PidPrint(i) PROVE Solo(k)'
  <2>1. /\ main[i] \in {"pid_write", "pid_print"} /\ main'[i] \in {"pid_print", "init", "exited"}
        /\ main'[i] = "pid_print" => main[i] = "pid_write" /\ i \in open'
        /\ main'[i] = "init" => main[i] = "pid_print" /\ (i \in open => pidfile' = i)
        /\ \A j \in Instance : j # i => main'[j] = main[j]
        /\ daemon_mode' = daemon_mode /\ raced' = raced /\ seen' = seen
    BY <1>0, <1>4 DEF TypeOK, PidWrite, PidPrint
  <2>2. daemon_mode[i]
    BY <1>0, <2>1 DEF Starting, Early
  <2>3. /\ \A j \in Instance : j # i => (PastCheck(j)' <=> PastCheck(j)) /\ (InWindow(j)' <=> InWindow(j))
        /\ InWindow(i) /\ PastCheck(i)
    BY <2>1, <2>2 DEF PastCheck, InWindow, Up
  <2>4. SUFFICES ASSUME ~raced[k] PROVE Solo(k)'
    BY <2>1 DEF Solo
  <2>5. CASE k = i
    <3>1. \A j \in Instance \ {i} : ~InWindow(j) /\ ~PastCheck(j) /\ main'[j] # "pid_test"
      <4>1. \A j \in Instance \ {i} : ~InWindow(j) /\ ~PastCheck(j)
        BY <1>0, <2>3, <2>4, <2>5 DEF Solo
      <4> QED BY <2>1, <4>1 DEF InWindow
    <3>2. main'[i] = "init" => pidfile' = i
      BY <1>0, <2>1, <2>4, <2>5 DEF Solo
    <3>3. (PastCheck(i) /\ ~InWindow(i))' => main'[i] = "init"
      BY <2>1 DEF PastCheck, InWindow, Up
    <3> QED BY <2>1, <2>3, <2>5, <3>1, <3>2, <3>3 DEF Solo
  <2>6. CASE k # i
    <3>1. ~InWindow(k)' /\ ~PastCheck(k)'
      BY <1>0, <2>3, <2>4, <2>6 DEF Solo
    <3>2. main'[k] \notin {"pid_test", "pid_print"}
      BY <3>1 DEF InWindow
    <3> QED BY <3>1, <3>2 DEF Solo
  <2> QED BY <2>5, <2>6
<1>5. ASSUME NEW i \in Instance, PidRemove(i) PROVE Solo(k)'
  <2>1. /\ main[i] = "pid_remove" /\ main'[i] = "exited"
        /\ \A j \in Instance : j # i => main'[j] = main[j]
        /\ daemon_mode' = daemon_mode /\ raced' = raced /\ seen' = seen
        /\ ~daemon_mode[i] => UNCHANGED fileVars
    BY <1>0, <1>5 DEF TypeOK, PidRemove, fileVars
  <2>2. CASE ~daemon_mode[i]
    BY <1>0, <2>1, <2>2, SoloKept
  <2>3. CASE daemon_mode[i]
    <3>1. /\ \A j \in Instance : j # i => (PastCheck(j)' <=> PastCheck(j)) /\ (InWindow(j)' <=> InWindow(j))
          /\ PastCheck(i) /\ ~PastCheck(i)' /\ ~InWindow(i)'
      BY <2>1, <2>3 DEF PastCheck, InWindow, Up
    <3>2. SUFFICES ASSUME ~raced[k], k # i PROVE Solo(k)'
      <4>1. main'[i] \notin {"pid_test", "pid_print"}
        BY <2>1
      <4> QED BY <2>1, <3>1, <4>1 DEF Solo
    <3>3. ~PastCheck(k) /\ main[k] = main'[k]
      BY <1>0, <2>1, <3>1, <3>2 DEF Solo
    <3>4. main'[k] # "pid_print"
      BY <1>0, <3>3 DEF Starting, Early, PastCheck, Up
    <3> QED BY <1>0, <2>1, <3>1, <3>2, <3>3, <3>4 DEF Solo
  <2> QED BY <2>2, <2>3
<1>6. ASSUME NEW i \in Instance, InitStep(i) \/ InitFails(i) \/ Release(i) \/ Crash(i)
             \/ StartWebServer(i) \/ WebStarted(i) \/ CreateDeviceThread(i)
             \/ ServeEnds(i) \/ NoDeviceThread(i) \/ JoinNoThread(i) \/ CleanupJoined(i)
      PROVE  Solo(k)'
  <2>1. /\ UNCHANGED <<fileVars, daemon_mode>>
        /\ \A j \in Instance : j # i => main'[j] = main[j]
    BY <1>0, <1>6 DEF TypeOK, InitStep, InitFails, Release, Crash, StartWebServer, WebStarted,
       CreateDeviceThread, ServeEnds, NoDeviceThread, JoinNoThread, CleanupJoined, StopWebServer
  <2>2. \/ main'[i] = "crashed"
        \/ /\ main[i] \in {"init", "fork", "web", "thread", "serving", "stop_early", "cleanup", "stop"}
           /\ main'[i] \in {"init", "fork", "web", "thread", "serving", "stop_early", "cleanup",
                            "stop", "pid_remove"}
    BY <1>0, <1>6 DEF TypeOK, InitStep, InitFails, Release, Crash, StartWebServer, WebStarted,
       CreateDeviceThread, ServeEnds, NoDeviceThread, JoinNoThread, CleanupJoined, StopWebServer
  <2>3. main'[i] = main[i] \/ main'[i] \in {"exited", "crashed"}
           \/ (~InWindow(i) /\ ~InWindow(i)' /\ (PastCheck(i)' => PastCheck(i)))
    BY <2>1, <2>2 DEF InWindow, PastCheck, Up
  <2> QED BY <1>0, <2>1, <2>3, SoloKept
<1>7. ASSUME NEW i \in Instance, WebStep(i) \/ Reap(i) \/ WebChild(i) PROVE Solo(k)'
  BY <1>0, <1>7, SoloKept DEF WebStep, Reap, WebChild
<1>8. CASE UNCHANGED vars
  BY <1>0, <1>8, SoloKept DEF vars
<1> QED BY <1>1, <1>2, <1>3, <1>4, <1>5, <1>6, <1>7, <1>8 DEF Next, MainStep, Over

\* The inductive invariant of the life of the processes.
THEOREM Inductive == Spec => []IInv
<1>1. IInv /\ [Next]_vars => IInv'
  BY NextTypeOK, NextLocal, NextOwner, NextSolo DEF IInv
<1> QED BY <1>1, InitIInv, PTL DEF Spec

\* The variables have their types, for every number of polls.
THEOREM TypeCorrect == Spec => []TypeOK
<1>1. IInv => TypeOK
  BY DEF IInv
<1> QED BY <1>1, Inductive, PTL

\* server_init releases exactly what it has acquired, at whatever step it fails.
THEOREM ExactUndo == Spec => []UndoExact
<1>1. IInv => UndoExact
  BY DEF IInv, Local, Starting, UndoExact
<1> QED BY <1>1, Inductive, PTL

\* A server that returns from main leaves no resource, no web server and no
\* zombie behind.
THEOREM LeavesNothing == Spec => []CleanExit
<1>1. IInv => CleanExit
  BY DEF IInv, Local, ChildKnown, CleanExit
<1> QED BY <1>1, Inductive, PTL

\* The PID file names a running or a crashed instance.
THEOREM PidOwned == Spec => []PidFileHasOwner
<1>1. IInv => PidFileHasOwner
  BY DEF IInv, Owner, Early, PidFileHasOwner
<1> QED BY <1>1, Inductive, PTL

\* A running daemon whose start met no other is named by the PID file.
THEOREM PidNamesDaemon == Spec => []PidFileNamesDaemon
<1>1. IInv => PidFileNamesDaemon
  BY DEF IInv, Solo, PidFileNamesDaemon
<1> QED BY <1>1, Inductive, PTL

-----------------------------------------------------------------------------
(***************************************************************************)
(* The shutdown is bounded                                                 *)
(***************************************************************************)

\* Another instance does not move main of instance i.
LEMMA OthersDoNotMove ==
  ASSUME TypeOK, NEW i \in Instance, NEW j \in Instance, i # j,
         Start(j) \/ MainStep(j) \/ ServeEnds(j) \/ Reap(j) \/ WebChild(j) \/ Crash(j)
  PROVE  main'[i] = main[i] /\ call'[i] = call[i] /\ count'[i] = count[i]
<1> USE DEF TypeOK, MainGoto, CallGoto, webVars, fileVars
<1>1. CASE Start(j) \/ ServeEnds(j) \/ Reap(j) \/ WebChild(j) \/ Crash(j)
  BY <1>1 DEF Start, Daemonize, ServeEnds, Reap, sigchld_handler, WebChild, ChildStep, Crash
<1>2. CASE WebStep(j)
  BY <1>2 DEF WebStep, WebCall, StartCheck, StopTerm, StopPoll, StopForce, StopWait
<1>3. CASE MainStep(j) /\ ~WebStep(j)
  BY <1>3 DEF MainStep, PidCheck, PidTest, PidWrite, PidPrint, InitStep, InitFails, StartWebServer,
     StartFork, WebStarted, CreateDeviceThread, NoDeviceThread, JoinNoThread, CleanupJoined,
     StopWebServer, Release, PidRemove
<1> QED BY <1>1, <1>2, <1>3

\* Every step inside stop_web_server brings its end nearer.
LEMMA CallAdvances ==
  ASSUME TypeOK, NEW i \in Instance, Local(i), ShuttingDown(i), WebStep(i)
  PROVE  \/ main'[i] = main[i] /\ call'[i] = call[i] /\ count'[i] = count[i]
         \/ StepsLeft(i)' < StepsLeft(i)
<1>1. count[i] \in 0 .. MaxPolls /\ MaxPolls \in Nat
  BY MaxPollsAssumption DEF TypeOK
<1>2. main' = main
  BY DEF WebStep
<1>3. MainLeft(i)' = MainLeft(i) /\ MainLeft(i) \in Nat
  BY <1>1, <1>2 DEF MainLeft
<1> USE DEF TypeOK, WebStep, CallGoto, CallLeft
<1>4. CASE StartCheck(i)
  BY <1>4 DEF StartCheck, Local, Calling, ShuttingDown
<1>5. CASE StopTerm(i)
  <2>1. call[i] = "term"
    BY <1>5 DEF StopTerm
  <2>2. call'[i] = "idle" \/ (call'[i] = "poll" /\ count'[i] = 0)
    BY <1>5 DEF StopTerm
  <2>3. CallLeft(i) = MaxPolls + 4 /\ CallLeft(i)' \in {0, MaxPolls + 3}
    BY <1>1, <2>1, <2>2
  <2> QED BY <1>1, <1>3, <2>3 DEF StepsLeft
<1>6. CASE StopPoll(i)
  <2>1. call[i] = "poll" /\ CallLeft(i) = MaxPolls - count[i] + 3
    BY <1>6 DEF StopPoll
  <2>2. \/ call'[i] = "idle"
        \/ call'[i] = "poll" /\ count'[i] = count[i] + 1
        \/ call'[i] = "force"
    BY <1>6 DEF StopPoll
  <2>3. CallLeft(i)' \in {0, 2, MaxPolls - (count[i] + 1) + 3}
    BY <1>1, <2>2
  <2> QED BY <1>1, <1>3, <2>1, <2>3 DEF StepsLeft
<1>7. CASE StopForce(i)
  <2>1. call[i] = "force" /\ call'[i] = "wait"
    BY <1>7 DEF StopForce
  <2> QED BY <1>3, <2>1 DEF StepsLeft
<1>8. CASE StopWait(i)
  <2>1. call[i] = "wait" /\ call'[i] = "idle"
    BY <1>8 DEF StopWait
  <2> QED BY <1>3, <2>1 DEF StepsLeft
<1> QED BY <1>4, <1>5, <1>6, <1>7, <1>8 DEF WebCall

\* So does every other step of main in the shutdown.
LEMMA MainAdvances ==
  ASSUME TypeOK, NEW i \in Instance, Local(i), ShuttingDown(i), MainStep(i), ~WebStep(i)
  PROVE  StepsLeft(i)' < StepsLeft(i)
<1>1. MaxPolls \in Nat
  BY MaxPollsAssumption
<1>2. JoinNoThread(i) \/ CleanupJoined(i) \/ Release(i) \/ PidRemove(i)
  BY DEF ShuttingDown, MainStep, PidCheck, PidTest, PidWrite, PidPrint, InitStep, InitFails,
     StartWebServer, WebStarted, CreateDeviceThread, NoDeviceThread
<1> USE DEF TypeOK, MainGoto, CallGoto, webVars, fileVars
<1>3. CASE JoinNoThread(i) \/ CleanupJoined(i)
  <2>1. main[i] \in {"stop_early", "cleanup"} /\ call[i] = "idle"
    BY <1>3 DEF JoinNoThread, CleanupJoined, Local, Calling
  <2>2. main'[i] = "stop" /\ call'[i] \in {"idle", "term"}
    BY <1>3, <2>1 DEF JoinNoThread, CleanupJoined, StopWebServer
  <2>3. StepsLeft(i) = MaxPolls + 7
    BY <1>1, <2>1 DEF StepsLeft, MainLeft, CallLeft
  <2>4. StepsLeft(i)' \in {2, MaxPolls + 6}
    BY <1>1, <2>2 DEF StepsLeft, MainLeft, CallLeft
  <2> QED BY <1>1, <2>3, <2>4
<1>4. CASE Release(i)
  <2>1. main[i] = "stop" /\ call[i] = "idle" /\ main'[i] = "pid_remove" /\ call'[i] = "idle"
    BY <1>4 DEF Release
  <2> QED BY <2>1 DEF StepsLeft, MainLeft, CallLeft
<1>5. CASE PidRemove(i)
  <2>1. main[i] = "pid_remove" /\ call[i] = "idle" /\ main'[i] = "exited" /\ call'[i] = "idle"
    BY <1>5 DEF PidRemove, Local, Calling
  <2> QED BY <2>1 DEF StepsLeft, MainLeft, CallLeft
<1> QED BY <1>2, <1>3, <1>4, <1>5

\* A shutdown takes a bounded number of steps, none of which blocks.
THEOREM ShutdownBounded == Spec => ShutdownAdvances
<1> DEFINE Advances(i) ==
      ShuttingDown(i) =>
        /\ call[i] = "wait" => child[i] \notin Alive
        /\ \/ main'[i] = main[i] /\ call'[i] = call[i] /\ count'[i] = count[i]
           \/ main'[i] = "crashed"
           \/ StepsLeft(i)' < StepsLeft(i)
<1>1. IInv /\ [Next]_vars => [\A i \in Instance : Advances(i)]_vars
  <2> SUFFICES ASSUME IInv, Next, NEW i \in Instance, ShuttingDown(i)
               PROVE  Advances(i)
    OBVIOUS
  <2>1. TypeOK /\ Local(i) /\ Awaited(i)
    BY DEF IInv, Local
  <2>2. call[i] = "wait" => child[i] \notin Alive
    BY <2>1 DEF Awaited
  <2>3. ASSUME NEW j \in Instance, i # j,
               Start(j) \/ MainStep(j) \/ ServeEnds(j) \/ Reap(j) \/ WebChild(j) \/ Crash(j)
        PROVE  main'[i] = main[i] /\ call'[i] = call[i] /\ count'[i] = count[i]
    BY <2>1, <2>3, OthersDoNotMove
  <2>4. CASE Start(i) \/ ServeEnds(i)
    BY <2>4 DEF Start, ServeEnds, ShuttingDown
  <2>5. CASE Reap(i) \/ WebChild(i)
    BY <2>2, <2>5 DEF Reap, WebChild, sigchld_handler, ChildStep
  <2>6. CASE Crash(i)
    BY <2>1, <2>2, <2>6 DEF Crash, MainGoto, TypeOK
  <2>7. CASE WebStep(i)
    BY <2>1, <2>2, <2>7, CallAdvances
  <2>8. CASE MainStep(i) /\ ~WebStep(i)
    BY <2>1, <2>2, <2>8, MainAdvances
  <2>9. CASE Over
    BY <2>2, <2>9 DEF Over, vars, webVars, fileVars
  <2> QED BY <2>2, <2>3, <2>4, <2>5, <2>6, <2>7, <2>8, <2>9 DEF Next
<1> QED BY <1>1, Inductive, PTL DEF Spec, ShutdownAdvances
=============================================================================
