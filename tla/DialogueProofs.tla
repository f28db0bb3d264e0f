--------------------------- MODULE DialogueProofs ---------------------------
(***************************************************************************)
(* Proofs about the dialogue, for every way the network may cut the stream *)
(* and every size of the responses.                                        *)
(***************************************************************************)
EXTENDS Dialogue, TLAPS

\* Up to its first recv the client has read nothing, so the first prompt is
\* where the server has put it: behind the welcome message.
Opening ==
  /\ client \in {"connecting", "failed"} => comm = "welcome" /\ ~connected
  /\ connected /\ client = "welcome" /\ comm = "welcome" => down = NoBytes
  /\ connected /\ client = "welcome" /\ comm = "menu" =>
       down.len = WelcomeSize
  /\ connected /\ client = "welcome" =>
       \A p \in down.prompts : p.at >= WelcomeSize + SelectAt

\* Whose turn it is: the server reads, and the prompt for what it reads is in
\* the stream, or with the user, or answered, or lost; otherwise nothing is
\* pending.
Turns ==
  /\ ~connected => down = NoBytes
  /\ comm \notin {"recv", "param"} => up = <<>> /\ down.prompts = {}
  /\ connected /\ comm = "welcome" => client = "welcome"
  /\ connected /\ comm = "menu" => client \in {"welcome", "loop"}
  /\ connected /\ comm \in {"prompt", "push"} => client = "loop"
  /\ connected /\ comm \in {"close", "closed"} => client \in {"welcome", "loop", "leave"}
  /\ comm = "recv" => \A p \in down.prompts : p.word = "Select"
  /\ comm = "param" => \A p \in down.prompts : p.word = "Enter"
  /\ connected /\ comm = "param" => client # "welcome"
  /\ connected /\ down.prompts # {} => up = <<>> /\ client \in {"welcome", "loop"}
  /\ connected /\ up # <<>> => client = (IF Head(up) = "exit" THEN "leave" ELSE "loop")
  /\ connected /\ comm \in {"recv", "param"} /\ client \in {"welcome", "loop"} =>
       down.prompts # {} \/ up # <<>> \/ lost # {}

IInv == TypeOK /\ WelcomeLeavesPrompt /\ InStep /\ Opening /\ Turns

USE SizesAssumption DEF BUFFER_SIZE, WelcomeSize, MenuSize, SelectAt, EnterSize, ByeSize, NoBytes

\* Both keywords end behind their first byte.
LEMMA EndsAfter ==
  ASSUME NEW p \in Prompt
  PROVE  p.at \in Nat /\ p.word \in {"Select", "Enter"} /\ Ends(p) \in Nat /\ Ends(p) > p.at
         /\ Ends(p) <= p.at + 7
BY DEF Prompt, Ends, WordSize

\* A prompt that moves keeps its size.
LEMMA EndsMoved ==
  ASSUME NEW p \in Prompt, NEW q \in Prompt, p.word = q.word
  PROVE  Ends(p) - p.at = Ends(q) - q.at
<1>1. /\ Ends(p) = p.at + WordSize[p.word] /\ Ends(q) = q.at + WordSize[p.word]
      /\ p.at \in Nat /\ q.at \in Nat /\ WordSize[p.word] \in Nat
  BY DEF Prompt, Ends, WordSize
<1> QED BY <1>1

\* Bytes without a prompt change the length of the stream only.
LEMMA SendPlain ==
  ASSUME TypeOK, NEW size \in Nat, Send(size, {})
  PROVE  /\ down'.len \in Nat /\ down'.prompts = down.prompts
         /\ \A p \in down'.prompts : Ends(p) <= down'.len
         /\ ~connected => down' = down
         /\ connected => down'.len = down.len + size
<1>1. CASE connected
  <2>1. down' = [len |-> down.len + size, prompts |-> down.prompts \cup {}]
    BY <1>1 DEF Send
  <2>2. \A p \in down.prompts : Ends(p) <= down.len + size
    BY EndsAfter DEF TypeOK
  <2> QED BY <1>1, <2>1, <2>2 DEF TypeOK
<1>2. CASE ~connected
  BY <1>2 DEF Send, TypeOK
<1> QED BY <1>1, <1>2

\* A prompt sent into a stream that has none.
LEMMA SendPrompt ==
  ASSUME TypeOK, connected, down.prompts = {}, NEW size \in Nat, NEW q \in Prompt,
         Ends(q) <= size, Send(size, {q})
  PROVE  /\ down'.len \in Nat /\ down'.prompts \subseteq Prompt
         /\ down'.prompts # {}
         /\ \A p \in down'.prompts : /\ p.word = q.word /\ p.at = q.at + down.len
                                     /\ Ends(p) <= down'.len
         /\ \A p1, p2 \in down'.prompts : p1 = p2
<1> DEFINE r == [q EXCEPT !.at = @ + down.len]
<1>1. down' = [len |-> down.len + size, prompts |-> {r}]
  BY DEF Send
<1>2. r \in Prompt /\ r.word = q.word /\ r.at = q.at + down.len
  BY DEF Prompt, TypeOK
<1>3. Ends(r) <= down.len + size
  <2> HIDE DEF r
  <2>1. Ends(r) - r.at = Ends(q) - q.at
    BY <1>2, EndsMoved
  <2> QED BY <1>2, <2>1, EndsAfter DEF TypeOK
<1>4. down.len + size \in Nat
  BY DEF TypeOK
<1> HIDE DEF r
<1> QED BY <1>1, <1>2, <1>3, <1>4

\* What a recv of the client leaves in the stream.
LEMMA Shifted ==
  ASSUME TypeOK, InStep, NEW n \in RecvSizes, down.len > 0, Received(n)
  PROVE  /\ n \in Nat /\ n < BUFFER_SIZE
         /\ down'.len \in Nat /\ down'.prompts \subseteq Prompt
         /\ \A p \in down'.prompts : Ends(p) <= down'.len
         /\ \A p \in down'.prompts : \E q \in down.prompts : p.word = q.word
         /\ \A p1, p2 \in down'.prompts : p1 = p2
         /\ Whole(n) # {} => down'.prompts = {}
         /\ down.prompts # {} => down'.prompts # {} \/ Whole(n) # {} \/ Cut(n) # {}
<1> DEFINE Rest == {q \in down.prompts : q.at >= n}
           Shift(p) == [p EXCEPT !.at = @ - n]
<1>1. n \in Nat /\ n < 1024 /\ n <= down.len
  <2>1. down.len \in Nat /\ n \in Chunk \cup {down.len, 1023}
    BY DEF RecvSizes, TypeOK
  <2>2. n \in Nat
    BY <2>1
  <2> QED BY <2>2 DEF RecvSizes
<1>2. down' = [len |-> down.len - n, prompts |-> {Shift(p) : p \in Rest}]
  BY DEF Received
<1>3. \A p \in Rest : /\ Shift(p) \in Prompt /\ Shift(p).word = p.word
                      /\ Shift(p).at = p.at - n
  BY <1>1 DEF Prompt, TypeOK
<1>4. \A p \in Rest : Ends(Shift(p)) <= down.len - n
  <2> SUFFICES ASSUME NEW p \in Rest PROVE Ends(Shift(p)) <= down.len - n
    OBVIOUS
  <2>1. p \in Prompt /\ Ends(p) <= down.len /\ down.len \in Nat
    BY DEF TypeOK
  <2>2. Shift(p) \in Prompt /\ Shift(p).word = p.word /\ Shift(p).at = p.at - n
    BY <1>3
  <2> HIDE DEF Shift
  <2>3. Ends(Shift(p)) - Shift(p).at = Ends(p) - p.at
    BY <2>1, <2>2, EndsMoved
  <2> QED BY <1>1, <2>1, <2>2, <2>3, EndsAfter
<1>5. Whole(n) # {} => Rest = {}
  <2> SUFFICES ASSUME NEW p \in down.prompts, Ends(p) <= n, NEW q \in Rest PROVE FALSE
    BY DEF Whole
  <2>1. p = q
    BY DEF InStep
  <2>2. p \in Prompt
    BY DEF TypeOK
  <2> QED BY <1>1, <2>1, <2>2, EndsAfter
<1>6. down.prompts # {} => Rest # {} \/ Whole(n) # {} \/ Cut(n) # {}
  <2> SUFFICES ASSUME NEW p \in down.prompts PROVE Rest # {} \/ Whole(n) # {} \/ Cut(n) # {}
    OBVIOUS
  <2>1. p \in Prompt
    BY DEF TypeOK
  <2>2. p.at >= n \/ Ends(p) <= n \/ (p.at < n /\ Ends(p) > n)
    BY <1>1, <2>1, EndsAfter
  <2> QED BY <2>2 DEF Whole, Cut
<1>7. \A p, q \in Rest : Shift(p) = Shift(q)
  BY DEF InStep
<1> HIDE DEF Rest, Shift
<1>8. down'.len = down.len - n /\ down'.prompts = {Shift(p) : p \in Rest}
  BY <1>2
<1>9. \A p \in down'.prompts : \E q \in Rest : p = Shift(q)
  BY <1>8
<1>10. Rest \subseteq down.prompts
  BY DEF Rest
<1>11. down'.len \in Nat
  BY <1>1, <1>8 DEF TypeOK
<1>12. /\ down'.prompts \subseteq Prompt
       /\ \A p \in down'.prompts : Ends(p) <= down'.len
       /\ \A p \in down'.prompts : \E q \in down.prompts : p.word = q.word
  BY <1>3, <1>4, <1>8, <1>9, <1>10
<1>13. \A p1, p2 \in down'.prompts : p1 = p2
  BY <1>7, <1>9
<1>14. /\ Whole(n) # {} => down'.prompts = {}
       /\ down.prompts # {} => down'.prompts # {} \/ Whole(n) # {} \/ Cut(n) # {}
  BY <1>5, <1>6, <1>8
<1> QED BY <1>1, <1>11, <1>12, <1>13, <1>14

\* Init establishes the invariant.
LEMMA InitIInv == Init => IInv
<1> SUFFICES ASSUME Init PROVE IInv
  OBVIOUS
<1>1. TypeOK
  <2>1. down.len = 0 /\ down.prompts = {} /\ up = <<>>
    BY DEF Init
  <2>2. up \in Seq(Kinds \cup {"number"})
    BY <2>1
  <2>3. connected \in BOOLEAN /\ lost \subseteq {"swallowed", "split", "entry"}
    BY DEF Init
  <2> QED BY <2>1, <2>2, <2>3 DEF Init, TypeOK, CommLabels, ClientLabels
<1>2. WelcomeLeavesPrompt /\ InStep
  BY DEF Init, WelcomeLeavesPrompt, InStep
<1>3. Opening /\ Turns
  BY DEF Init, Opening, Turns
<1> QED BY <1>1, <1>2, <1>3 DEF IInv

USE DEF CommLabels, ClientLabels, Kinds

\* The communication thread preserves the invariant.
LEMMA CommIInv == IInv /\ Comm => IInv'
<1> SUFFICES ASSUME IInv, Comm PROVE IInv'
  OBVIOUS
<1> USE DEF IInv
<1>1. CASE CommWelcome
  <2>1. Send(966, {})
    BY <1>1 DEF CommWelcome
  <2>2. /\ down'.len \in Nat /\ down'.prompts = down.prompts
        /\ \A p \in down'.prompts : Ends(p) <= down'.len
        /\ ~connected => down' = down
        /\ connected => down'.len = down.len + 966
    BY <2>1, SendPlain
  <2>3. TypeOK' /\ WelcomeLeavesPrompt'
    BY <1>1, <2>2 DEF CommWelcome, TypeOK, WelcomeLeavesPrompt, Ends
  <2>4. InStep' /\ Turns'
    BY <1>1, <2>2 DEF CommWelcome, InStep, Turns
  <2>5. Opening'
    BY <1>1, <2>2 DEF CommWelcome, Opening, Turns
  <2> QED BY <2>3, <2>4, <2>5
<1>2. CASE CommMenu
  <2> DEFINE q == [word |-> "Select", at |-> 275]
  <2>1. Send(283, {q}) /\ comm = "menu" /\ comm' = "recv"
        /\ UNCHANGED <<up, client, connected, lost>>
    BY <1>2 DEF CommMenu
  <2>2. down.prompts = {} /\ up = <<>>
    BY <2>1 DEF Turns
  <2>3. CASE connected
    <3>1. q \in Prompt /\ Ends(q) <= 283
      BY DEF Prompt, Ends, WordSize
    <3> HIDE DEF q
    <3>2. /\ down'.len \in Nat /\ down'.prompts \subseteq Prompt
          /\ down'.prompts # {}
          /\ \A p \in down'.prompts : /\ p.word = q.word /\ p.at = q.at + down.len
                                      /\ Ends(p) <= down'.len
          /\ \A p1, p2 \in down'.prompts : p1 = p2
      BY <2>1, <2>2, <2>3, <3>1, SendPrompt
    <3>3. q.word = "Select" /\ q.at = 275
      BY DEF q
    <3>4. TypeOK' /\ WelcomeLeavesPrompt'
      BY <2>1, <3>2 DEF TypeOK, WelcomeLeavesPrompt, Ends
    <3>5. InStep'
      BY <2>1, <2>2, <2>3, <3>2 DEF InStep, Turns
    <3>6. Turns'
      BY <2>1, <2>2, <2>3, <3>2, <3>3 DEF Turns
    <3>7. Opening'
      BY <2>1, <3>2, <3>3 DEF Opening
    <3> QED BY <3>4, <3>5, <3>6, <3>7
  <2>4. CASE ~connected
    <3>1. down' = down
      BY <2>1, <2>4 DEF Send
    <3> QED BY <2>1, <2>2, <2>4, <3>1 DEF TypeOK, WelcomeLeavesPrompt, InStep, Turns, Opening, Ends
  <2> QED BY <2>3, <2>4
<1>3. CASE CommStop \/ CommAnswerFails \/ CommClose
  <2>1. /\ UNCHANGED <<down, up, client, connected, lost>>
        /\ comm \in {"menu", "push", "close"} /\ comm' \in {"close", "closed"}
    BY <1>3 DEF CommStop, CommAnswerFails, CommClose
  <2>2. TypeOK' /\ WelcomeLeavesPrompt' /\ InStep'
    BY <2>1 DEF TypeOK, WelcomeLeavesPrompt, InStep, Ends, Turns
  <2>3. Turns' /\ Opening'
    BY <2>1 DEF Turns, Opening
  <2> QED BY <2>2, <2>3
<1>4. CASE CommRecv
  <2>1. /\ comm = "recv" /\ up # <<>> /\ up' = <<>>
        /\ UNCHANGED <<client, connected, lost>>
    BY <1>4 DEF CommRecv
  <2>2. Head(up) \in Kinds /\ Head(up) # "number" /\ (~connected \/ client \in {"loop", "leave"})
    BY <2>1 DEF InStep, Turns
  <2>3. down.prompts = {}
    BY <2>1 DEF Turns
  <2>4. CASE Head(up) = "exit"
    <3>1. Send(17, {}) /\ comm' = "close"
      BY <1>4, <2>1, <2>4 DEF CommRecv, InStep
    <3>2. /\ down'.len \in Nat /\ down'.prompts = {}
          /\ ~connected => down' = down
      BY <2>3, <3>1, SendPlain
    <3>3. TypeOK' /\ WelcomeLeavesPrompt' /\ InStep'
      BY <2>1, <3>1, <3>2 DEF TypeOK, WelcomeLeavesPrompt, InStep, Turns
    <3>4. Turns' /\ Opening'
      BY <2>1, <2>4, <3>1, <3>2 DEF Turns, Opening
    <3> QED BY <3>3, <3>4
  <2>5. CASE Head(up) # "exit"
    <3>1. UNCHANGED down /\ comm' \in {"prompt", "push"}
      BY <1>4, <2>1, <2>5 DEF CommRecv, InStep
    <3>2. TypeOK' /\ WelcomeLeavesPrompt' /\ InStep'
      BY <2>1, <2>3, <2>5, <3>1 DEF TypeOK, WelcomeLeavesPrompt, InStep, Turns
    <3>3. Turns' /\ Opening'
      BY <2>1, <2>3, <2>5, <3>1 DEF Turns, Opening
    <3> QED BY <3>2, <3>3
  <2> QED BY <2>4, <2>5
<1>5. CASE CommRecvClosed
  <2>1. /\ UNCHANGED <<down, up, client, connected, lost>>
        /\ comm \in {"recv", "param"} /\ comm' = "close" /\ ~connected /\ up = <<>>
    BY <1>5 DEF CommRecvClosed
  <2>2. TypeOK' /\ WelcomeLeavesPrompt' /\ InStep'
    BY <2>1 DEF TypeOK, WelcomeLeavesPrompt, InStep, Ends, Turns
  <2>3. Turns' /\ Opening'
    BY <2>1 DEF Turns, Opening
  <2> QED BY <2>2, <2>3
<1>6. CASE CommPrompt
  <2> DEFINE q == [word |-> "Enter", at |-> 0]
  <2>1. PICK size \in EnterSize : Send(size, {q})
    BY <1>6 DEF CommPrompt
  <2>2. /\ comm = "prompt" /\ comm' = "param" /\ down.prompts = {} /\ up = <<>>
        /\ UNCHANGED <<up, client, connected, lost>>
    BY <1>6 DEF CommPrompt, Turns
  <2>3. CASE connected
    <3>1. q \in Prompt /\ Ends(q) <= size /\ size \in Nat
      BY DEF Prompt, Ends, WordSize
    <3> HIDE DEF q
    <3>2. /\ down'.len \in Nat /\ down'.prompts \subseteq Prompt
          /\ down'.prompts # {}
          /\ \A p \in down'.prompts : /\ p.word = q.word /\ p.at = q.at + down.len
                                      /\ Ends(p) <= down'.len
          /\ \A p1, p2 \in down'.prompts : p1 = p2
      BY <2>1, <2>2, <2>3, <3>1, SendPrompt
    <3>3. q.word = "Enter"
      BY DEF q
    <3>4. TypeOK' /\ WelcomeLeavesPrompt'
      BY <2>2, <3>2 DEF TypeOK, WelcomeLeavesPrompt, Ends
    <3>5. InStep'
      BY <2>2, <2>3, <3>2 DEF InStep, Turns
    <3>6. client = "loop"
      BY <2>2, <2>3 DEF Turns
    <3>7. Turns' /\ Opening'
      BY <2>2, <2>3, <3>2, <3>3, <3>6 DEF Turns, Opening
    <3> QED BY <3>4, <3>5, <3>7
  <2>4. CASE ~connected
    <3>1. down' = down
      BY <2>1, <2>4 DEF Send
    <3> QED BY <2>2, <2>4, <3>1 DEF TypeOK, WelcomeLeavesPrompt, InStep, Turns, Opening, Ends
  <2> QED BY <2>3, <2>4
<1>7. CASE CommParam
  <2>1. /\ comm = "param" /\ up # <<>> /\ up' = <<>> /\ comm' = "push"
        /\ UNCHANGED <<down, client, connected, lost>>
    BY <1>7 DEF CommParam
  <2>2. Head(up) = "number" /\ down.prompts = {}
    BY <2>1 DEF InStep, Turns
  <2>3. TypeOK' /\ WelcomeLeavesPrompt' /\ InStep'
    BY <2>1, <2>2 DEF TypeOK, WelcomeLeavesPrompt, InStep, Turns
  <2>4. Turns' /\ Opening'
    BY <2>1, <2>2 DEF Turns, Opening
  <2> QED BY <2>3, <2>4
<1>8. CASE CommAnswer
  <2>1. PICK size \in Answers : Send(size, {})
    BY <1>8 DEF CommAnswer
  <2>2. /\ comm = "push" /\ comm' = "menu"
        /\ UNCHANGED <<up, client, connected, lost>>
    BY <1>8 DEF CommAnswer
  <2>3. /\ down'.len \in Nat /\ down'.prompts = down.prompts
        /\ \A p \in down'.prompts : Ends(p) <= down'.len
        /\ ~connected => down' = down
    BY <2>1, SendPlain
  <2>4. TypeOK' /\ WelcomeLeavesPrompt' /\ InStep'
    BY <2>2, <2>3 DEF TypeOK, WelcomeLeavesPrompt, InStep, Turns, Ends
  <2>5. connected => client = "loop"
    BY <2>2 DEF Turns
  <2>6. Turns' /\ Opening'
    BY <2>2, <2>3, <2>5 DEF Turns, Opening
  <2> QED BY <2>4, <2>6
<1> QED
  BY <1>1, <1>2, <1>3, <1>4, <1>5, <1>6, <1>7, <1>8 DEF Comm

\* The first recv of the client ends before the first prompt.
LEMMA WelcomeIInv == IInv /\ ClientWelcome => IInv'
<1> SUFFICES ASSUME IInv, ClientWelcome PROVE IInv'
  OBVIOUS
<1> USE DEF IInv
<1>1. PICK n \in RecvSizes :
        /\ Received(n)
        /\ lost' = lost \cup (IF Whole(n) # {} THEN {"swallowed"} ELSE {})
                        \cup (IF Cut(n) # {} THEN {"split"} ELSE {})
  BY DEF ClientWelcome
<1>2. /\ client = "welcome" /\ connected /\ client' = "loop" /\ down.len > 0
      /\ UNCHANGED <<comm, up, connected>>
  BY DEF ClientWelcome
<1>3. /\ n \in Nat /\ n < 1024
      /\ down'.len \in Nat /\ down'.prompts \subseteq Prompt
      /\ \A p \in down'.prompts : Ends(p) <= down'.len
      /\ \A p \in down'.prompts : \E q \in down.prompts : p.word = q.word
      /\ \A p1, p2 \in down'.prompts : p1 = p2
      /\ down.prompts # {} => down'.prompts # {} \/ Whole(n) # {} \/ Cut(n) # {}
  BY <1>1, <1>2, Shifted
<1>4. Whole(n) = {} /\ Cut(n) = {}
  <2> SUFFICES ASSUME NEW p \in down.prompts PROVE ~(Ends(p) <= n) /\ ~(p.at < n)
    BY DEF Whole, Cut
  <2>1. p \in Prompt /\ p.at >= 1241
    BY <1>2 DEF TypeOK, Opening
  <2> QED BY <1>3, <2>1, EndsAfter
<1>5. lost' = lost
  BY <1>1, <1>4
<1>6. comm # "welcome"
  BY <1>2 DEF Opening
<1>7. down.prompts # {} => down'.prompts # {}
  BY <1>3, <1>4
<1>8. down'.prompts # {} => down.prompts # {}
  BY <1>3
<1>9. TypeOK' /\ WelcomeLeavesPrompt' /\ Opening'
  BY <1>2, <1>3, <1>5 DEF TypeOK, WelcomeLeavesPrompt, Opening, Ends
<1>10. InStep'
  BY <1>2, <1>3 DEF InStep
<1>11. Turns'
  BY <1>2, <1>3, <1>5, <1>6, <1>7, <1>8 DEF Turns
<1> QED BY <1>9, <1>10, <1>11

\* A recv of client_run passes the prompt on to the user, keeps it in the stream
\* or loses it for a reason.
LEMMA RecvIInv == IInv /\ ClientRecv => IInv'
<1> SUFFICES ASSUME IInv, ClientRecv PROVE IInv'
  OBVIOUS
<1> USE DEF IInv
<1>1. PICK n \in RecvSizes :
        /\ Received(n)
        /\ client' = Asks(n)
        /\ lost' = lost \cup (IF Cut(n) # {} THEN {"split"} ELSE {})
  BY DEF ClientRecv
<1>2. /\ client = "loop" /\ connected /\ down.len > 0
      /\ UNCHANGED <<comm, up, connected>>
  BY DEF ClientRecv
<1>3. /\ down'.len \in Nat /\ down'.prompts \subseteq Prompt
      /\ \A p \in down'.prompts : Ends(p) <= down'.len
      /\ \A p \in down'.prompts : \E q \in down.prompts : p.word = q.word
      /\ \A p1, p2 \in down'.prompts : p1 = p2
      /\ Whole(n) # {} => down'.prompts = {}
      /\ down.prompts # {} => down'.prompts # {} \/ Whole(n) # {} \/ Cut(n) # {}
  BY <1>1, <1>2, Shifted
<1>4. /\ lost \subseteq lost' /\ lost' \subseteq lost \cup {"split"}
      /\ Cut(n) # {} => lost' # {}
  BY <1>1
<1>5. down'.prompts # {} => down.prompts # {}
  BY <1>3
<1>6. Whole(n) \subseteq down.prompts
  BY DEF Whole
<1>7. /\ client' \in {"select", "enter", "loop"}
      /\ client' = "loop" <=> Whole(n) = {}
      /\ client' = "select" => comm = "recv"
      /\ client' = "enter" => comm = "param"
  <2>1. CASE Whole(n) = {}
    BY <1>1, <2>1 DEF Asks
  <2>2. CASE Whole(n) # {} /\ comm = "recv"
    BY <1>1, <1>6, <2>2 DEF Asks, Turns
  <2>3. CASE Whole(n) # {} /\ comm = "param"
    BY <1>1, <1>6, <2>3 DEF Asks, Turns
  <2>4. Whole(n) # {} => comm \in {"recv", "param"}
    BY <1>6 DEF Turns
  <2> QED BY <2>1, <2>2, <2>3, <2>4
<1>8. Whole(n) # {} => up = <<>>
  BY <1>2, <1>6 DEF Turns
<1>9. TypeOK' /\ WelcomeLeavesPrompt'
  BY <1>2, <1>3, <1>4, <1>7 DEF TypeOK, WelcomeLeavesPrompt, Ends
<1>10. InStep' /\ Opening'
  BY <1>2, <1>3, <1>7 DEF InStep, Opening
<1>11. Turns'
  BY <1>2, <1>3, <1>4, <1>5, <1>7, <1>8 DEF Turns
<1> QED BY <1>9, <1>10, <1>11

\* The other steps of the client and those of its user.
LEMMA ClientIInv ==
  IInv /\ (ClientConnect \/ ClientLost \/ ClientLeave \/ User) => IInv'
<1> SUFFICES ASSUME IInv,
                    ClientConnect \/ ClientLost \/ ClientLeave \/ User
             PROVE  IInv'
  OBVIOUS
<1> USE DEF IInv
<1>1. CASE ClientConnect
  <2>1. down = NoBytes /\ comm = "welcome" /\ up = <<>>
    BY <1>1 DEF ClientConnect, Opening, Turns
  <2>2. TypeOK' /\ WelcomeLeavesPrompt' /\ InStep'
    BY <1>1, <2>1 DEF ClientConnect, TypeOK, WelcomeLeavesPrompt, InStep, Ends
  <2>3. Turns' /\ Opening'
    BY <1>1, <2>1 DEF ClientConnect, Turns, Opening
  <2> QED BY <2>2, <2>3
<1>2. CASE ClientLost
  <2>1. /\ UNCHANGED <<comm, down, up, connected, lost>>
        /\ client' \in {"leave", "loop"}
        /\ connected => comm = "closed"
        /\ client \in {"welcome", "loop"}
    BY <1>2 DEF ClientLost
  <2>2. TypeOK' /\ WelcomeLeavesPrompt' /\ InStep'
    BY <2>1 DEF TypeOK, WelcomeLeavesPrompt, InStep, Ends
  <2>3. Turns' /\ Opening'
    BY <2>1 DEF Turns, Opening
  <2> QED BY <2>2, <2>3
<1>3. ASSUME NEW message \in Kinds \cup {"number"}, NEW label, Reply(message, label),
             client \in {"select", "enter"},
             client = "select" => message \in Kinds, client = "enter" => message = "number",
             label = IF message = "exit" THEN "leave" ELSE "loop"
      PROVE  IInv'
  <2>1. /\ client' = label /\ UNCHANGED <<comm, down, connected, lost>>
        /\ up' = IF connected THEN Append(up, message) ELSE up
    BY <1>3 DEF Reply
  <2>2. CASE connected
    <3>1. /\ up = <<>> /\ down.prompts = {} /\ comm \in {"recv", "param"}
          /\ client = "select" => comm = "recv"
          /\ client = "enter" => comm = "param"
      BY <1>3, <2>2 DEF Turns, InStep
    <3>2. up' = <<message>>
      BY <2>1, <2>2, <3>1
    <3>3. up' \in Seq(Kinds \cup {"number"}) /\ Len(up') = 1 /\ Head(up') = message /\ up' # <<>>
      BY <3>2
    <3>4. TypeOK' /\ WelcomeLeavesPrompt'
      BY <1>3, <2>1, <3>3 DEF TypeOK, WelcomeLeavesPrompt, Ends
    <3>5. InStep'
      BY <1>3, <2>1, <2>2, <3>1, <3>3 DEF InStep
    <3>6. Turns' /\ Opening'
      BY <1>3, <2>1, <2>2, <3>1, <3>3 DEF Turns, Opening
    <3> QED BY <3>4, <3>5, <3>6
  <2>3. CASE ~connected
    <3>1. UNCHANGED <<comm, down, up, connected, lost>> /\ client' \in {"leave", "loop"}
      BY <1>3, <2>1, <2>3
    <3> QED BY <1>3, <2>3, <3>1 DEF TypeOK, WelcomeLeavesPrompt, InStep, Turns, Opening, Ends
  <2> QED BY <2>2, <2>3
<1>4. ASSUME NoReply, client \in {"select", "enter"} PROVE IInv'
  <2>1. /\ UNCHANGED <<comm, down, up, connected>> /\ client' = "loop"
        /\ lost' = lost \cup {"entry"}
    BY <1>4 DEF NoReply
  <2>2. connected => up = <<>> /\ down.prompts = {} /\ comm \in {"recv", "param"}
    BY <1>4 DEF Turns, InStep
  <2>3. TypeOK' /\ WelcomeLeavesPrompt' /\ InStep'
    BY <2>1 DEF TypeOK, WelcomeLeavesPrompt, InStep, Ends
  <2>4. Turns' /\ Opening'
    BY <1>4, <2>1, <2>2 DEF Turns, Opening
  <2> QED BY <2>3, <2>4
<1>5. CASE UserSelects
  BY <1>3, <1>4, <1>5 DEF UserSelects
<1>6. CASE UserEnters
  BY <1>3, <1>4, <1>6 DEF UserEnters
<1>7. CASE InputEnds
  <2>1. /\ UNCHANGED <<comm, down, up, connected, lost>> /\ client' = "spin"
        /\ client \in {"select", "enter"}
    BY <1>7 DEF InputEnds
  <2>2. connected => up = <<>> /\ down.prompts = {} /\ comm \in {"recv", "param"}
    BY <2>1 DEF Turns, InStep
  <2>3. TypeOK' /\ WelcomeLeavesPrompt' /\ InStep'
    BY <2>1 DEF TypeOK, WelcomeLeavesPrompt, InStep, Ends
  <2>4. Turns' /\ Opening'
    BY <2>1, <2>2 DEF Turns, Opening
  <2> QED BY <2>3, <2>4
<1>8. ASSUME Disconnect, UNCHANGED <<comm, lost>>,
             client' = client \/ (client = "leave" /\ client' = "ended"), connected
      PROVE  IInv'
  <2>1. /\ ~connected' /\ down'.len = 0 /\ down'.prompts = {} /\ down' = NoBytes
        /\ up' = up \/ up' = <<>>
    BY <1>8 DEF Disconnect
  <2>2. up' \in Seq(Kinds \cup {"number"}) /\ Len(up') <= 1 /\ (up' # <<>> => up' = up)
    <3>1. CASE up' = up
      BY <3>1 DEF TypeOK, InStep
    <3>2. CASE up' = <<>>
      BY <3>2
    <3> QED BY <2>1, <3>1, <3>2
  <2>3. TypeOK' /\ WelcomeLeavesPrompt'
    <3>1. connected' \in BOOLEAN /\ client' \in ClientLabels
      BY <1>8 DEF Disconnect, TypeOK
    <3> QED BY <1>8, <2>1, <2>2, <3>1 DEF TypeOK, WelcomeLeavesPrompt
  <2>4. InStep'
    BY <1>8, <2>1, <2>2 DEF InStep
  <2>5. Turns' /\ Opening'
    BY <1>8, <2>1, <2>2 DEF Turns, Opening
  <2> QED BY <2>3, <2>4, <2>5
<1>9. CASE ClientSigint
  BY <1>8, <1>9 DEF ClientSigint
<1>10. CASE ClientLeave
  <2>1. CASE connected
    BY <1>8, <1>10, <2>1 DEF ClientLeave
  <2>2. CASE ~connected
    <3>1. UNCHANGED <<comm, down, up, connected, lost>> /\ client = "leave" /\ client' = "ended"
      BY <1>10, <2>2 DEF ClientLeave
    <3> QED BY <2>2, <3>1 DEF TypeOK, WelcomeLeavesPrompt, InStep, Turns, Opening, Ends
  <2> QED BY <2>1, <2>2
<1> QED BY <1>1, <1>2, <1>5, <1>6, <1>7, <1>9, <1>10 DEF User

\* Every step preserves the invariant.
LEMMA NextIInv == IInv /\ [Next]_vars => IInv'
<1> SUFFICES ASSUME IInv, [Next]_vars PROVE IInv'
  OBVIOUS
<1>1. CASE UNCHANGED vars
  BY <1>1 DEF vars, IInv, TypeOK, WelcomeLeavesPrompt, InStep, Turns, Opening, Ends
<1>2. CASE Comm
  BY <1>2, CommIInv
<1>3. CASE ClientWelcome
  BY <1>3, WelcomeIInv
<1>4. CASE ClientRecv
  BY <1>4, RecvIInv
<1>5. CASE ClientConnect \/ ClientLost \/ ClientLeave \/ User
  BY <1>5, ClientIInv
<1> QED BY <1>1, <1>2, <1>3, <1>4, <1>5 DEF Next, ClientWork, Terminated

\* Inductive: the invariant holds of the specification.
THEOREM Inductive == Spec => []IInv
BY InitIInv, NextIInv, PTL DEF Spec

\* Types: the stream never has a negative length and holds its prompts.
THEOREM TypeCorrect == Spec => []TypeOK
BY Inductive, PTL DEF IInv

\* The first prompt never falls victim to the recv of client_connect.
THEOREM FirstPromptSafe == Spec => []WelcomeLeavesPrompt
BY Inductive, PTL DEF IInv

\* Client and server never answer the wrong question.
THEOREM Lockstep == Spec => []InStep
BY Inductive, PTL DEF IInv

\* Client and server wait for each other only for one of the known reasons.
THEOREM StallExplained == Spec => []StallHasCause
<1>1. IInv => StallHasCause
  <2> SUFFICES ASSUME IInv, Stalled, lost = {} PROVE FALSE
    BY DEF StallHasCause
  <2>1. down.prompts # {}
    BY DEF Stalled, IInv, Turns
  <2>2. PICK p \in down.prompts : TRUE
    BY <2>1
  <2>3. p \in Prompt /\ Ends(p) <= 0
    BY <2>2 DEF Stalled, IInv, TypeOK
  <2> QED BY <2>3, EndsAfter
<1> QED BY <1>1, Inductive, PTL

-----------------------------------------------------------------------------
(***************************************************************************)
(* The session ends: the part of SessionEnds that needs no fairness        *)
(***************************************************************************)
ClientGone == client \notin {"connecting", "failed"} /\ ~connected

\* How many steps the communication thread has left at most when the client has
\* gone: an entry that is still on the way is read and its command answered.
CommLeft ==
  IF up # <<>> THEN 5
  ELSE [welcome |-> 4, push |-> 4, menu |-> 3, prompt |-> 3,
        recv |-> 2, param |-> 2, close |-> 1, closed |-> 0][comm]

\* Once the client has gone it does not come back, and every step of the
\* communication thread leaves it fewer steps to take; the rest of the client's
\* steps leave it no more.
SessionWindsDown ==
  [][ClientGone =>
       /\ ClientGone'
       /\ CommLeft' <= CommLeft
       /\ Comm => CommLeft' < CommLeft]_vars

LeftIs ==
  /\ up # <<>> => CommLeft = 5 /\ comm \in {"recv", "param"}
  /\ up = <<>> /\ comm \in {"welcome", "push"} => CommLeft = 4
  /\ up = <<>> /\ comm \in {"menu", "prompt"} => CommLeft = 3
  /\ up = <<>> /\ comm \in {"recv", "param"} => CommLeft = 2
  /\ comm = "close" => CommLeft = 1 /\ up = <<>>
  /\ comm = "closed" => CommLeft = 0 /\ up = <<>>
  /\ CommLeft \in Nat

\* The steps left, before and after a step: entries are on the way only to a
\* thread that reads.
LEMMA CommLeftValue == (IInv => LeftIs) /\ (IInv' => LeftIs')
<1>1. IInv => LeftIs
  <2> SUFFICES ASSUME comm \in CommLabels, Turns PROVE LeftIs
    BY DEF IInv, TypeOK
  <2> QED BY DEF LeftIs, CommLeft, Turns, CommLabels
<1> QED BY <1>1, PTL

\* What a step of the communication thread does with the entries and where it
\* goes, when the client has gone.
LEMMA CommMoves ==
  ASSUME InStep, ~connected, Comm
  PROVE  /\ UNCHANGED <<client, connected>>
         /\ \/ UNCHANGED up /\ comm = "welcome" /\ comm' = "menu"
            \/ UNCHANGED up /\ comm = "menu" /\ comm' \in {"recv", "close"}
            \/ up # <<>> /\ up' = <<>> /\ comm' \in {"close", "prompt", "push"}
            \/ UNCHANGED up /\ up = <<>> /\ comm \in {"recv", "param"} /\ comm' = "close"
            \/ UNCHANGED up /\ comm = "prompt" /\ comm' = "param"
            \/ UNCHANGED up /\ comm = "push" /\ comm' \in {"menu", "close"}
            \/ UNCHANGED up /\ comm = "close" /\ comm' = "closed"
<1>1. CASE CommRecv
  <2>1. Head(up) \in Kinds /\ Head(up) # "number"
    BY <1>1 DEF CommRecv, InStep, Kinds
  <2>2. comm' \in {"close", "prompt", "push"}
    <3>1. CASE Head(up) = "exit"
      BY <1>1, <2>1, <3>1 DEF CommRecv
    <3>2. CASE Head(up) = "param"
      BY <1>1, <2>1, <3>2 DEF CommRecv
    <3>3. CASE Head(up) = "plain"
      BY <1>1, <2>1, <3>3 DEF CommRecv
    <3> QED BY <2>1, <3>1, <3>2, <3>3 DEF Kinds
  <2> QED BY <1>1, <2>2 DEF CommRecv
<1>2. CASE ~CommRecv
  BY <1>2 DEF Comm, CommWelcome, CommMenu, CommStop, CommRecvClosed, CommPrompt, CommParam,
              CommAnswer, CommAnswerFails, CommClose
<1> QED BY <1>1, <1>2

\* A step of the client that has gone sends nothing.
LEMMA ClientMoves ==
  ASSUME ClientGone, Next, ~Comm
  PROVE  ClientGone' /\ UNCHANGED <<up, comm>>
BY DEF ClientGone, Next, ClientConnect, ClientWork, ClientWelcome, ClientRecv, ClientLost,
       ClientLeave, User, UserSelects, UserEnters, Reply, NoReply, InputEnds, ClientSigint,
       Terminated, vars

\* With the client gone the communication thread takes at most five more steps:
\* no entry, menu or command can keep it from closing its socket, and the next
\* client is served.
THEOREM SessionBounded == Spec => SessionWindsDown
<1>1. ASSUME IInv, IInv', ClientGone, Comm
      PROVE  ClientGone' /\ CommLeft' < CommLeft
  <2>1. InStep /\ LeftIs /\ LeftIs' /\ (comm \notin {"recv", "param"} => up = <<>>)
    BY <1>1, CommLeftValue DEF IInv, Turns
  <2>2. ClientGone'
    BY <1>1, <2>1, CommMoves DEF ClientGone
  <2> QED BY <1>1, <2>1, <2>2, CommMoves DEF LeftIs, ClientGone
<1>2. ASSUME IInv, IInv', ClientGone, Next, ~Comm
      PROVE  ClientGone' /\ CommLeft' <= CommLeft
  <2>1. UNCHANGED CommLeft /\ CommLeft \in Nat
    BY <1>2, ClientMoves, CommLeftValue DEF CommLeft, LeftIs
  <2> QED BY <1>2, <2>1, ClientMoves
<1>3. IInv /\ IInv' /\ [Next]_vars =>
        [ClientGone => /\ ClientGone'
                       /\ CommLeft' <= CommLeft
                       /\ Comm => CommLeft' < CommLeft]_vars
  <2> SUFFICES ASSUME IInv, IInv', Next, ClientGone
               PROVE  /\ ClientGone' /\ CommLeft' <= CommLeft
                      /\ Comm => CommLeft' < CommLeft
    OBVIOUS
  <2>1. CommLeft \in Nat /\ CommLeft' \in Nat
    BY CommLeftValue DEF LeftIs
  <2> QED BY <1>1, <1>2, <2>1
<1> QED BY <1>3, Inductive, PTL DEF Spec, SessionWindsDown
=============================================================================
