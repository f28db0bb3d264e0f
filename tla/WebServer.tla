----------------------------- MODULE WebServer -----------------------------
(***************************************************************************)
(* The camera web server as a child process: start_web_server and          *)
(* stop_web_server of server.c, the SIGCHLD handler of main.c, which reaps *)
(* the same child, and the child itself (external), for each instance of   *)
(* the server.                                                             *)
(***************************************************************************)
EXTENDS Integers

CONSTANTS
  Instance, \* the server processes
  MaxPolls  \* the rounds of the wait in stop_web_server; 50 in the code

ASSUME MaxPollsAssumption == MaxPolls \in Nat \ {0}

VARIABLES
  child,          \* the child process
  web_server_pid, \* ServerState: whether it is positive
  call,           \* where main is in start_web_server or stop_web_server
  count,          \* local variable of stop_web_server
  killed          \* history: what the child was when SIGKILL was sent

webVars == <<child, web_server_pid, call, count, killed>>

\* "starting": the ignored signals of the server are still ignored;
\* "stopping": SIGTERM has been caught and the camera is being released.
Alive == {"starting", "running", "stopping"}
Gone == {"none", "reaped"}
ChildStates == Alive \cup Gone \cup {"zombie"}
CallLabels == {"idle", "sleep", "term", "poll", "force", "wait"}

WebInit ==
  /\ child = [i \in Instance |-> "none"]
  /\ web_server_pid = [i \in Instance |-> FALSE]
  /\ call = [i \in Instance |-> "idle"]
  /\ count = [i \in Instance |-> 0]
  /\ killed = [i \in Instance |-> "none"]

CallGoto(i, label) == call' = [call EXCEPT ![i] = label]
ChildBecomes(i, state) == child' = [child EXCEPT ![i] = state]

-----------------------------------------------------------------------------
(***************************************************************************)
(* start_web_server                                                        *)
(***************************************************************************)

StartFork(i) ==
  /\ call[i] = "idle"
  /\ \/ ChildBecomes(i, "starting") /\ CallGoto(i, "sleep") /\ UNCHANGED web_server_pid
     \/ /\ web_server_pid' = [web_server_pid EXCEPT ![i] = FALSE]
        /\ UNCHANGED <<child, call>>
  /\ UNCHANGED <<count, killed>>

\* After the sleep, which the death of the child ends early: a child that has
\* been reaped by the handler counts as started.
StartCheck(i) ==
  /\ call[i] = "sleep"
  /\ web_server_pid' = [web_server_pid EXCEPT ![i] = child[i] # "zombie"]
  /\ ChildBecomes(i, IF child[i] = "zombie" THEN "reaped" ELSE child[i])
  /\ CallGoto(i, "idle")
  /\ UNCHANGED <<count, killed>>

-----------------------------------------------------------------------------
(***************************************************************************)
(* stop_web_server                                                         *)
(***************************************************************************)

\* kill fails if there is no such process; but the PID of a child that has been
\* reaped may have been given to another process.
StopTerm(i) ==
  /\ call[i] = "term"
  /\ \/ /\ child[i] \in Gone
        /\ CallGoto(i, "idle")
        /\ UNCHANGED <<child, count>>
     \/ /\ ChildBecomes(i, IF child[i] = "running" THEN "stopping" ELSE child[i])
        /\ CallGoto(i, "poll")
        /\ count' = [count EXCEPT ![i] = 0]
  /\ UNCHANGED <<web_server_pid, killed>>

\* Mutant of StopPoll: one round too many.
StopPoll_TooFar(i) ==
  /\ call[i] = "poll"
  /\ IF count[i] <= MaxPolls
     THEN count' = [count EXCEPT ![i] = @ + 1] /\ UNCHANGED <<child, call>>
     ELSE CallGoto(i, "force") /\ UNCHANGED <<child, count>>
  /\ UNCHANGED <<web_server_pid, killed>>

\* A round of the loop; waitpid fails if the handler has reaped the child.
StopPoll(i) ==
  /\ call[i] = "poll"
  /\ \/ /\ count[i] < MaxPolls /\ child[i] = "zombie"
        /\ ChildBecomes(i, "reaped") /\ CallGoto(i, "idle")
        /\ UNCHANGED count
     \/ /\ count[i] < MaxPolls /\ child[i] # "zombie"
        /\ count' = [count EXCEPT ![i] = @ + 1]
        /\ UNCHANGED <<child, call>>
     \/ /\ count[i] = MaxPolls
        /\ CallGoto(i, "force")
        /\ UNCHANGED <<child, count>>
  /\ UNCHANGED <<web_server_pid, killed>>

\* Mutant of StopForce: SIGTERM is sent again.
StopForce_Term(i) ==
  /\ call[i] = "force"
  /\ killed' = [killed EXCEPT ![i] = child[i]]
  /\ ChildBecomes(i, IF child[i] = "running" THEN "stopping" ELSE child[i])
  /\ CallGoto(i, "wait")
  /\ UNCHANGED <<web_server_pid, count>>

StopForce(i) ==
  /\ call[i] = "force"
  /\ killed' = [killed EXCEPT ![i] = child[i]]
  /\ ChildBecomes(i, IF child[i] \in Alive THEN "zombie" ELSE child[i])
  /\ CallGoto(i, "wait")
  /\ UNCHANGED <<web_server_pid, count>>

\* Mutant of StopWait: the child is not waited for.
StopWait_NoWait(i) ==
  /\ call[i] = "wait"
  /\ CallGoto(i, "idle")
  /\ UNCHANGED <<child, web_server_pid, count, killed>>

\* waitpid blocks while the child is alive.
StopWait(i) ==
  /\ call[i] = "wait"
  /\ child[i] \notin Alive
  /\ ChildBecomes(i, "reaped")
  /\ CallGoto(i, "idle")
  /\ UNCHANGED <<web_server_pid, count, killed>>

WebCall(i) ==
  StartCheck(i) \/ StopTerm(i) \/ StopPoll(i) \/ StopForce(i) \/ StopWait(i)

-----------------------------------------------------------------------------
\* sigchld_handler interrupts whatever the server does.
sigchld_handler(i) ==
  /\ child[i] = "zombie"
  /\ ChildBecomes(i, "reaped")
  /\ UNCHANGED <<web_server_pid, call, count, killed>>

\* web_server.py installs its signal handlers; it ends by an error, a signal or
\* after its cleanup, at any time or never.
ChildStep(i) ==
  /\ \/ child[i] = "starting" /\ ChildBecomes(i, "running")
     \/ child[i] \in Alive /\ ChildBecomes(i, "zombie")
  /\ UNCHANGED <<web_server_pid, call, count, killed>>
=============================================================================
