------------------------------ MODULE Dialogue ------------------------------
(***************************************************************************)
(* One session between the client program (client.c and its main.c) and    *)
(* the communication thread of the server.  What the server sends is a     *)
(* byte stream: the client's recv returns any part of it, up to the size   *)
(* of its buffer, and the client asks its user for input only if a whole   *)
(* keyword is in that part.  Of the stream the model keeps its length and  *)
(* where the keywords are; of what the client sends, the kind of message.  *)
(*                                                                         *)
(* The execution of a command is modelled in Server.                       *)
(***************************************************************************)
EXTENDS Integers, Sequences

CONSTANTS
  Chunk,  \* bound: the sizes a recv of the client may return, short of all
  Answers \* the sizes of the responses, in bytes

ASSUME SizesAssumption == Chunk \subseteq Nat \ {0} /\ Answers \subseteq Nat

BUFFER_SIZE == 1024
WelcomeSize == 966 \* the URL in it is padded
MenuSize == 283
SelectAt == 275    \* the offset of "Select:" in the menu
EnterSize == {30, 31, 83}
ByeSize == 17

WordSize == [Select |-> 7, Enter |-> 5]
Prompt == [word : DOMAIN WordSize, at : Nat]

VARIABLES
  comm,      \* where the communication thread is
  down,      \* on the way to the client: the bytes and the prompts in them
  up,        \* on the way to the server: the messages
  client,    \* where the client is
  connected, \* ClientState
  lost       \* history: why prompts were not answered

vars == <<comm, down, up, client, connected, lost>>

CommLabels == {"welcome", "menu", "recv", "prompt", "param", "push", "close", "closed"}
ClientLabels == {"connecting", "welcome", "loop", "select", "enter", "spin", "leave", "ended", "failed"}
Kinds == {"exit", "param", "plain"}

NoBytes == [len |-> 0, prompts |-> {}]

Init ==
  /\ comm = "welcome" /\ client = "connecting"
  /\ down = NoBytes /\ up = <<>>
  /\ connected = FALSE
  /\ lost = {}

-----------------------------------------------------------------------------
(***************************************************************************)
(* The communication thread                                                *)
(***************************************************************************)

\* Send size bytes with the given prompts; nobody gets them if the client has
\* closed its socket.
Send(size, prompts) ==
  down' = IF connected
          THEN [len |-> down.len + size,
                prompts |-> down.prompts
                            \cup {[p EXCEPT !.at = @ + down.len] : p \in prompts}]
          ELSE down

\* Started by the accept loop when the client has connected.
CommWelcome ==
  /\ comm = "welcome" /\ client \notin {"connecting", "failed"}
  /\ Send(WelcomeSize, {})
  /\ comm' = "menu"
  /\ UNCHANGED <<up, client, connected, lost>>

CommMenu ==
  /\ comm = "menu"
  /\ Send(MenuSize, {[word |-> "Select", at |-> SelectAt]})
  /\ comm' = "recv"
  /\ UNCHANGED <<up, client, connected, lost>>

\* server_running has been cleared.
CommStop ==
  /\ comm = "menu"
  /\ comm' = "close"
  /\ UNCHANGED <<down, up, client, connected, lost>>

\* recv returns all there is; what follows the first newline is dropped.  A
\* parameter that comes here is taken for the number of a command.
CommRecv ==
  /\ comm = "recv" /\ up # <<>>
  /\ up' = <<>>
  /\ \E kind \in IF Head(up) = "number" THEN Kinds ELSE {Head(up)} :
       CASE kind = "exit" -> Send(ByeSize, {}) /\ comm' = "close"
         [] kind = "param" -> comm' = "prompt" /\ UNCHANGED down
         [] kind = "plain" -> comm' = "push" /\ UNCHANGED down
  /\ UNCHANGED <<client, connected, lost>>

\* Mutant of CommRecvClosed: a closed connection is taken for bad input.
CommRecvClosed_Continues ==
  /\ comm \in {"recv", "param"} /\ up = <<>> /\ ~connected
  /\ comm' = "menu"
  /\ UNCHANGED <<down, up, client, connected, lost>>

CommRecvClosed ==
  /\ comm \in {"recv", "param"} /\ up = <<>> /\ ~connected
  /\ comm' = "close"
  /\ UNCHANGED <<down, up, client, connected, lost>>

\* Mutant of CommPrompt: the parameter is not waited for.
CommPrompt_NoWait ==
  /\ comm = "prompt"
  /\ \E size \in EnterSize : Send(size, {[word |-> "Enter", at |-> 0]})
  /\ comm' = "push"
  /\ UNCHANGED <<up, client, connected, lost>>

CommPrompt ==
  /\ comm = "prompt"
  /\ \E size \in EnterSize : Send(size, {[word |-> "Enter", at |-> 0]})
  /\ comm' = "param"
  /\ UNCHANGED <<up, client, connected, lost>>

CommParam ==
  /\ comm = "param" /\ up # <<>>
  /\ up' = <<>>
  /\ comm' = "push"
  /\ UNCHANGED <<down, client, connected, lost>>

\* Mutant of CommAnswer: no new menu after a response.
CommAnswer_NoMenu ==
  /\ comm = "push"
  /\ \E size \in Answers : Send(size, {})
  /\ comm' = "recv"
  /\ UNCHANGED <<up, client, connected, lost>>

\* The command is executed, times out or finds the queue full.
CommAnswer ==
  /\ comm = "push"
  /\ \E size \in Answers : Send(size, {})
  /\ comm' = "menu"
  /\ UNCHANGED <<up, client, connected, lost>>

\* send_response fails: the client has gone.
CommAnswerFails ==
  /\ comm = "push" /\ ~connected
  /\ comm' = "close"
  /\ UNCHANGED <<down, up, client, connected, lost>>

CommClose ==
  /\ comm = "close"
  /\ comm' = "closed"
  /\ UNCHANGED <<down, up, client, connected, lost>>

Comm ==
  \/ CommWelcome \/ CommMenu \/ CommStop \/ CommRecv \/ CommRecvClosed
  \/ CommPrompt \/ CommParam \/ CommAnswer \/ CommAnswerFails \/ CommClose

-----------------------------------------------------------------------------
(***************************************************************************)
(* The client                                                              *)
(***************************************************************************)

\* client_connect up to connect, which may fail.
ClientConnect ==
  /\ client = "connecting"
  /\ \/ client' = "welcome" /\ connected' = TRUE
     \/ client' = "failed" /\ UNCHANGED connected
  /\ UNCHANGED <<comm, down, up, lost>>

\* Mutant of RecvSizes: the buffer is as large as the server's.
RecvSizes_Doubled ==
  {n \in Chunk \cup {down.len, 2 * BUFFER_SIZE - 1} : n <= down.len /\ n < 2 * BUFFER_SIZE}

\* Mutant of RecvSizes: recv is taken to fill the buffer.
RecvSizes_Full == {BUFFER_SIZE - 1}

\* What recv may return: at least one byte, at most what there is and what the
\* buffer holds.
RecvSizes ==
  {n \in Chunk \cup {down.len, BUFFER_SIZE - 1} : n <= down.len /\ n < BUFFER_SIZE}

Ends(p) == p.at + WordSize[p.word]

\* The prompts strstr finds in the first n bytes, and those it cannot find
\* because they are cut in two.
Whole(n) == {p \in down.prompts : Ends(p) <= n}
Cut(n) == {p \in down.prompts : p.at < n /\ Ends(p) > n}

Received(n) ==
  down' = [len |-> down.len - n,
           prompts |-> {[p EXCEPT !.at = @ - n] : p \in {q \in down.prompts : q.at >= n}}]

\* The end of client_connect prints the first bytes without looking for prompts.
\* There is always a welcome message to receive, unless the socket is closed.
ClientWelcome ==
  /\ client = "welcome" /\ connected
  /\ down.len > 0
  /\ \E n \in RecvSizes :
       /\ Received(n)
       /\ lost' = lost \cup (IF Whole(n) # {} THEN {"swallowed"} ELSE {})
                       \cup (IF Cut(n) # {} THEN {"split"} ELSE {})
  /\ client' = "loop"
  /\ UNCHANGED <<comm, up, connected>>

\* Mutant of Asks: only the menu is looked for.
Asks_OnlySelect(n) ==
  IF \E p \in Whole(n) : p.word = "Select" THEN "select" ELSE "loop"

\* What the client does after it has received n bytes: "Select:" comes first.
Asks(n) ==
  IF \E p \in Whole(n) : p.word = "Select" THEN "select"
  ELSE IF Whole(n) # {} THEN "enter" ELSE "loop"

ClientRecv ==
  /\ client = "loop" /\ connected
  /\ down.len > 0
  /\ \E n \in RecvSizes :
       /\ Received(n)
       /\ client' = Asks(n)
       /\ lost' = lost \cup (IF Cut(n) # {} THEN {"split"} ELSE {})
  /\ UNCHANGED <<comm, up, connected>>

\* Mutant of ClientLost: a recv that returns 0 is not taken for the end.
ClientLost_IgnoresZero ==
  /\ client \in {"welcome", "loop"} /\ ~connected
  /\ client' = "leave"
  /\ UNCHANGED <<comm, down, up, connected, lost>>

\* The server has closed its socket and everything has been received; or the
\* own handler has closed the socket and the loop or the recv fails.
ClientLost ==
  /\ \/ client \in {"welcome", "loop"} /\ ~connected
     \/ client = "loop" /\ comm = "closed" /\ down.len = 0
  /\ client' = "leave"
  /\ UNCHANGED <<comm, down, up, connected, lost>>

\* A number entered by the user is sent if the socket is still open.
Reply(message, label) ==
  /\ up' = IF connected THEN Append(up, message) ELSE up
  /\ client' = label
  /\ UNCHANGED <<comm, down, connected, lost>>

\* No number, or one that is not in the menu: nothing is sent.
NoReply ==
  /\ lost' = lost \cup {"entry"}
  /\ client' = "loop"
  /\ UNCHANGED <<comm, down, up, connected>>

\* The end of the input: the loop that looks for the end of the line runs on.
InputEnds ==
  /\ client \in {"select", "enter"}
  /\ client' = "spin"
  /\ UNCHANGED <<comm, down, up, connected, lost>>

UserSelects ==
  /\ client = "select"
  /\ \/ Reply("exit", "leave")
     \/ \E kind \in {"param", "plain"} : Reply(kind, "loop")
     \/ NoReply

UserEnters ==
  /\ client = "enter"
  /\ Reply("number", "loop") \/ NoReply

\* client_disconnect; the kernel may drop what is still on the way to the
\* server if the client has not read everything.
Disconnect ==
  /\ connected' = FALSE
  /\ up' \in IF down.len > 0 THEN {up, <<>>} ELSE {up}
  /\ down' = NoBytes

ClientLeave ==
  /\ client = "leave"
  /\ IF connected THEN Disconnect ELSE UNCHANGED <<connected, up, down>>
  /\ client' = "ended"
  /\ UNCHANGED <<comm, lost>>

\* signal_handler: the calls it interrupts are restarted.
ClientSigint ==
  /\ connected
  /\ Disconnect
  /\ UNCHANGED <<comm, client, lost>>

ClientWork == ClientWelcome \/ ClientRecv \/ ClientLost \/ ClientLeave
User == UserSelects \/ UserEnters \/ InputEnds \/ ClientSigint

\* The session is over, or there was none.
Terminated ==
  /\ client = "failed" \/ (comm = "closed" /\ client \in {"ended", "spin"})
  /\ UNCHANGED vars

Next == Comm \/ ClientConnect \/ ClientWork \/ User \/ Terminated

Spec == Init /\ [][Next]_vars

(***************************************************************************)
(* Fairness: both programs go on while they can and the device thread      *)
(* answers or comm times out; nothing makes the user enter anything.       *)
(***************************************************************************)
FairSpec == Spec /\ WF_vars(Comm) /\ WF_vars(ClientWork)

-----------------------------------------------------------------------------
(***************************************************************************)
(* Properties                                                              *)
(***************************************************************************)

\* The variables have their types; the stream never has a negative length and
\* no prompt is outside of it.
TypeOK ==
  /\ comm \in CommLabels /\ client \in ClientLabels
  /\ down.len \in Nat /\ down.prompts \subseteq Prompt
  /\ \A p \in down.prompts : Ends(p) <= down.len
  /\ up \in Seq(Kinds \cup {"number"})
  /\ connected \in BOOLEAN
  /\ lost \subseteq {"swallowed", "split", "entry"}

\* client_connect prints the first bytes it gets without looking for a prompt,
\* and the menu is sent right behind the welcome message: still the first
\* "Select:" is never among them, since it lies beyond the client's buffer.
WelcomeLeavesPrompt == "swallowed" \notin lost

\* The programs stay in step, although neither says which message it answers:
\* what is on the way to the server is the single answer to what it reads next
\* and never a parameter taken for a command, and no two prompts are ever in
\* the stream, where the client would see only one.
InStep ==
  /\ Len(up) <= 1
  /\ comm = "recv" /\ up # <<>> => Head(up) \in Kinds
  /\ comm = "param" /\ up # <<>> => Head(up) = "number"
  /\ connected /\ client = "select" => comm = "recv"
  /\ connected /\ client = "enter" => comm = "param"
  /\ \A p, q \in down.prompts : p = q

\* Both programs are in recv and nothing is on the way.
Stalled ==
  /\ connected /\ client = "loop" /\ comm \in {"recv", "param"}
  /\ up = <<>> /\ down.len = 0

\* Client and server do not wait for each other unless a prompt was cut in two
\* by the network or the user's entry was not sent.
StallHasCause == Stalled => lost # {}

\* After an entry was sent the user is asked again, or the session ends, or a
\* prompt was lost.
PromptFollowsEntry ==
  up # <<>> /\ connected
    ~> client \in {"select", "enter", "ended"} \/ ~connected \/ lost # {}

\* When the client has gone, the communication thread ends, so that the next
\* client can be served.
SessionEnds == client \notin {"connecting", "failed"} /\ ~connected ~> comm = "closed"

\* When the server has closed the connection, the client ends or waits for its
\* user (or spins at the end of its input).
ClientNotices == comm = "closed" ~> client \in {"ended", "select", "enter", "spin"}
=============================================================================
