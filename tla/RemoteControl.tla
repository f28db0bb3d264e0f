---------------------------- MODULE RemoteControl ----------------------------
(***************************************************************************)
(* What the server promises its clients, without threads, locks, queue and *)
(* sockets: one session at a time, one request at a time in a session; the *)
(* requests of all sessions are performed one by one in the order in which *)
(* they were accepted; a client that waits is sent the latest result, and  *)
(* only after some request has been performed while it waited (or after a  *)
(* spurious wakeup); or it is told to wait no longer, and its request is   *)
(* performed all the same.                                                 *)
(***************************************************************************)
EXTENDS Naturals

CONSTANT Spurious \* whether a wait may end for no reason

VARIABLES
  sessions, \* how many sessions there have been
  open,     \* whether the last one is still open
  asked,    \* how many requests have been accepted
  done,     \* how many of them have been performed
  wait,     \* what the client of the session waits for, or why it need not
  reply,    \* the last result sent: to which request, of which request
  stopped   \* the server has shut down

vars == <<sessions, open, asked, done, wait, reply, stopped>>

Init ==
  /\ sessions = 0 /\ asked = 0 /\ done = 0 /\ reply = [request |-> 0, response |-> 0]
  /\ open = FALSE /\ stopped = FALSE /\ wait = "no"

Connect ==
  /\ ~open
  /\ open' = TRUE
  /\ sessions' = sessions + 1
  /\ UNCHANGED <<asked, done, wait, reply, stopped>>

Disconnect ==
  /\ open /\ wait = "no"
  /\ open' = FALSE
  /\ UNCHANGED <<sessions, asked, done, wait, reply, stopped>>

Ask ==
  /\ open /\ wait = "no"
  /\ asked' = asked + 1
  /\ wait' = "blocked"
  /\ UNCHANGED <<sessions, open, done, reply, stopped>>

\* Also without a session, or in a later one than it was asked in.
Perform ==
  /\ done < asked
  /\ done' = done + 1
  /\ wait' = IF wait = "blocked" THEN "signalled" ELSE wait
  /\ UNCHANGED <<sessions, open, asked, reply, stopped>>

WakeSpuriously ==
  /\ Spurious
  /\ wait = "blocked"
  /\ wait' = "spurious"
  /\ UNCHANGED <<sessions, open, asked, done, reply, stopped>>

Answer ==
  /\ wait \in {"signalled", "spurious"}
  /\ wait' = "no"
  /\ reply' = [request |-> asked, response |-> done]
  /\ UNCHANGED <<sessions, open, asked, done, stopped>>

GiveUp ==
  /\ wait = "blocked"
  /\ wait' = "no"
  /\ UNCHANGED <<sessions, open, asked, done, reply, stopped>>

\* What has been accepted and not been performed is dropped.
Stop ==
  /\ ~open
  /\ stopped' = TRUE
  /\ UNCHANGED <<sessions, open, asked, done, wait, reply>>

Next ==
  /\ ~stopped
  /\ \/ Connect \/ Disconnect \/ Ask \/ Perform
     \/ WakeSpuriously \/ Answer \/ GiveUp \/ Stop

Spec == Init /\ [][Next]_vars
=============================================================================
