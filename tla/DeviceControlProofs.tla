------------------------- MODULE DeviceControlProofs -------------------------
(***************************************************************************)
(* Proofs about DeviceControl, for any number of music and counting        *)
(* threads.                                                                *)
(***************************************************************************)
EXTENDS DeviceControl, TLAPS

-----------------------------------------------------------------------------
(***************************************************************************)
(* The inductive invariant                                                 *)
(***************************************************************************)

\* Every flag has a truth value.
FlagsOK ==
  /\ initialized \in BOOLEAN /\ is_playing \in BOOLEAN
  /\ should_stop \in BOOLEAN /\ speaker \in BOOLEAN
  /\ is_initialized \in BOOLEAN /\ is_counting \in BOOLEAN
  /\ segment_counting \in BOOLEAN /\ buzzer_playing \in BOOLEAN

ThreadsOK ==
  /\ player \in [Player -> PlayerLabels]
  /\ counter \in [Counter -> CounterLabels]
  /\ device \in DeviceLabels
  /\ cleanup \in CleanupLabels

\* A counting thread that sleeps still has a digit to go.
DigitsOK ==
  /\ display \in 0 .. 9
  /\ remaining \in [Counter -> 0 .. 9]
  /\ \A c \in Counter : counter[c] = "sleep" => remaining[c] > 0

\* The flags of the buzzer and its one music thread.
SongInv ==
  /\ is_playing => \E t \in Player : Playing(t)
  /\ \A t \in Player : Playing(t) => is_playing
  /\ \A s, t \in Player : Playing(s) /\ Playing(t) => s = t
  /\ should_stop => is_playing
  /\ speaker => is_playing /\ \A t \in Player : player[t] # "end"

\* server_cleanup touches the devices only after the device thread is gone.
CleanupInv == cleanup # "wait" => device = "done"

\* segment_counting is set only on behalf of a countdown, a callback to come,
\* or a command that is about to set is_counting or to clear the flag.
FlagInv ==
  segment_counting /\ device \in {"idle", "play", "played", "stop", "stopped", "create"}
    => is_counting \/ \E c \in Counter : counter[c] = "callback"

IInv ==
  /\ FlagsOK /\ ThreadsOK /\ DigitsOK /\ SongInv /\ CleanupInv
  /\ NoOrphanedCountdown /\ FlagInv /\ CleanupStopsCounting

\* The three parts of the type invariant give TypeOK.
LEMMA TypeParts == FlagsOK /\ ThreadsOK /\ DigitsOK => TypeOK
BY DEF TypeOK, FlagsOK, ThreadsOK, DigitsOK

-----------------------------------------------------------------------------
(***************************************************************************)
(* The kinds of steps.  Step proofs expand the actions and the tuples of   *)
(* variables in their UNCHANGED conjuncts.                                 *)
(***************************************************************************)
USE DEF buzzerVars, segVars, controlVars,
  PlayerStep, PlayerHead, PlayerWrite, PlayerHold, PlayerSilence, PlayerEnd, StopOr,
  StartMusic, RefuseMusic, stop_music, SilenceBuzzer,
  CounterStep, CounterHead, CounterShow, CounterSleep, CounterFinish, CounterGoto,
  ClaimCounting, StartCounting, ClearCounting, BlankDisplay,
  DeviceGoto, DeviceCommand, BuzzerOn, BuzzerOff, SegmentDisplay, SegmentStop, DeviceExit,
  DeviceWork, BuzzerPlay, BuzzerPlayed, BuzzerStop, BuzzerStopped, SegmentClaim,
  SegmentCreate, SegmentRefused, SegmentStopCounting, SegmentStopped,
  Callback, CallbackFlag, CallbackTest, CallbackRing,
  CleanupGoto, CleanupStep, CleanupStart, CleanupMusicStop, CleanupMusicCheck,
  CleanupSilence, CleanupSegStop, CleanupBlank, CleanupExit,
  Music, Countdown

\* A step is one of a thread, of the callback or of the cleanup, or stutters.
LEMMA StepCases ==
  [Next]_vars => \/ DeviceCommand \/ DeviceWork \/ CleanupStep
                 \/ \E t \in Player : Music(t)
                 \/ \E c \in Counter : Countdown(c)
                 \/ \E c \in Counter : Callback(c)
                 \/ UNCHANGED vars
BY DEF Next, Terminated

-----------------------------------------------------------------------------
(***************************************************************************)
(* Each part is preserved by every step                                    *)
(***************************************************************************)

\* Every step keeps the types of the flags and of the control state.
LEMMA FlagsStep ==
  ASSUME FlagsOK, [Next]_vars
  PROVE  FlagsOK'
<1>1. CASE DeviceCommand \/ DeviceWork
  BY <1>1, Zenon DEF FlagsOK
<1>2. CASE CleanupStep
  BY <1>2, Zenon DEF FlagsOK
<1>3. CASE \E t \in Player : Music(t)
  BY <1>3, Zenon DEF FlagsOK
<1>4. CASE \E c \in Counter : Countdown(c)
  BY <1>4, Zenon DEF FlagsOK
<1>5. CASE \E c \in Counter : Callback(c)
  BY <1>5, Zenon DEF FlagsOK
<1>6. CASE UNCHANGED vars
  BY <1>6 DEF FlagsOK, vars
<1> QED
  BY <1>1, <1>2, <1>3, <1>4, <1>5, <1>6, StepCases

\* Every step keeps the types of the music and counting threads.
LEMMA ThreadsStep ==
  ASSUME ThreadsOK, [Next]_vars
  PROVE  ThreadsOK'
<1>1. CASE DeviceCommand \/ DeviceWork
  BY <1>1 DEF ThreadsOK, DeviceLabels, PlayerLabels, CounterLabels
<1>2. CASE CleanupStep
  BY <1>2 DEF ThreadsOK, CleanupLabels
<1>3. CASE \E t \in Player : Music(t)
  BY <1>3 DEF ThreadsOK, PlayerLabels
<1>4. CASE \E c \in Counter : Countdown(c)
  BY <1>4 DEF ThreadsOK, CounterLabels
<1>5. CASE \E c \in Counter : Callback(c)
  BY <1>5 DEF ThreadsOK, CounterLabels, PlayerLabels
<1>6. CASE UNCHANGED vars
  BY <1>6 DEF ThreadsOK, vars
<1> QED
  BY <1>1, <1>2, <1>3, <1>4, <1>5, <1>6, StepCases

\* Every step keeps the digits within 0 to 9: a thread asleep has one left.
LEMMA DigitsStep ==
  ASSUME ThreadsOK, DigitsOK, [Next]_vars
  PROVE  DigitsOK'
<1>1. CASE DeviceCommand \/ DeviceWork
  BY <1>1, SecondsAssumption DEF DigitsOK, ThreadsOK
<1>2. CASE CleanupStep
  BY <1>2 DEF DigitsOK
<1>3. CASE \E t \in Player : Music(t)
  BY <1>3 DEF DigitsOK
<1>4. CASE \E c \in Counter : Countdown(c)
  BY <1>4 DEF DigitsOK, ThreadsOK
<1>5. CASE \E c \in Counter : Callback(c)
  BY <1>5 DEF DigitsOK, ThreadsOK
<1>6. CASE UNCHANGED vars
  BY <1>6 DEF DigitsOK, vars
<1> QED
  BY <1>1, <1>2, <1>3, <1>4, <1>5, <1>6, StepCases

\* The two ways to start music, from the device thread and from the callback.
LEMMA StartStep ==
  ASSUME ThreadsOK, SongInv, StartMusic \/ RefuseMusic
  PROVE  SongInv'
BY DEF SongInv, ThreadsOK, Playing

\* Every step keeps the song invariant.
LEMMA SongStep ==
  ASSUME FlagsOK, ThreadsOK, SongInv, [Next]_vars
  PROVE  SongInv'
<1>1. CASE DeviceCommand
  BY <1>1 DEF SongInv, Playing
<1>2. CASE DeviceWork
  <2>1. CASE BuzzerPlay
    BY <2>1, StartStep
  <2>2. CASE BuzzerStop
    BY <2>2 DEF SongInv, Playing
  <2>3. CASE UNCHANGED buzzerVars
    BY <2>3 DEF SongInv, Playing
  <2> QED
    BY <1>2, <2>1, <2>2, <2>3
<1>3. CASE CleanupStep
  <2>1. CASE CleanupMusicStop
    BY <2>1 DEF SongInv, Playing
  <2>2. CASE CleanupSilence
    BY <2>2 DEF SongInv, Playing
  <2>3. CASE UNCHANGED buzzerVars
    BY <2>3 DEF SongInv, Playing
  <2> QED
    BY <1>3, <2>1, <2>2, <2>3
<1>4. CASE \E t \in Player : Music(t)
  <2> PICK t \in Player : Music(t)
    BY <1>4
  <2>1. \A s \in Player : player'[s] = IF s = t THEN player'[t] ELSE player[s]
    BY DEF ThreadsOK
  <2>2. Playing(t) /\ is_playing /\ \A s \in Player : Playing(s) => s = t
    BY DEF SongInv, Playing
  <2>3. CASE PlayerHead(t)
    BY <2>1, <2>2, <2>3 DEF SongInv, Playing, ThreadsOK
  <2>4. CASE PlayerWrite(t)
    BY <2>1, <2>2, <2>4 DEF SongInv, Playing, ThreadsOK
  <2>5. CASE PlayerHold(t)
    BY <2>1, <2>2, <2>5 DEF SongInv, Playing, ThreadsOK
  <2>6. CASE PlayerSilence(t)
    BY <2>1, <2>2, <2>6 DEF SongInv, Playing, ThreadsOK
  <2>7. CASE PlayerEnd(t)
    BY <2>1, <2>2, <2>7 DEF SongInv, Playing, ThreadsOK
  <2> QED
    BY <2>3, <2>4, <2>5, <2>6, <2>7
<1>5. CASE \E c \in Counter : Countdown(c)
  BY <1>5 DEF SongInv, Playing
<1>6. CASE \E c \in Counter : Callback(c)
  <2> PICK c \in Counter : Callback(c)
    BY <1>6
  <2>1. CASE CallbackRing(c)
    BY <2>1, StartStep
  <2>2. CASE UNCHANGED buzzerVars
    BY <2>2 DEF SongInv, Playing
  <2> QED
    BY <2>1, <2>2
<1>7. CASE UNCHANGED vars
  BY <1>7 DEF SongInv, Playing, vars
<1> QED
  BY <1>1, <1>2, <1>3, <1>4, <1>5, <1>6, <1>7, StepCases

\* The cleanup starts only after the device thread has ended.
LEMMA CleanupInvStep ==
  ASSUME CleanupInv, [Next]_vars
  PROVE  CleanupInv'
BY StepCases DEF CleanupInv, vars

\* Without the device thread nobody sets is_counting.
LEMMA CleanupCountStep ==
  ASSUME CleanupInv, CleanupStopsCounting, [Next]_vars
  PROVE  CleanupStopsCounting'
BY StepCases DEF CleanupInv, CleanupStopsCounting, vars

\* Every step keeps a thread for a set is_counting.
LEMMA CountdownStep ==
  ASSUME ThreadsOK, CleanupInv, NoOrphanedCountdown, [Next]_vars
  PROVE  NoOrphanedCountdown'
<1>1. CASE DeviceCommand \/ DeviceWork
  BY <1>1 DEF NoOrphanedCountdown, Counting, ThreadsOK
<1>2. CASE CleanupStep
  BY <1>2 DEF NoOrphanedCountdown, Counting
<1>3. CASE \E t \in Player : Music(t)
  BY <1>3 DEF NoOrphanedCountdown, Counting
<1>4. CASE \E c \in Counter : Countdown(c)
  BY <1>4 DEF NoOrphanedCountdown, Counting, ThreadsOK
<1>5. CASE \E c \in Counter : Callback(c)
  BY <1>5 DEF NoOrphanedCountdown, Counting, ThreadsOK
<1>6. CASE UNCHANGED vars
  BY <1>6 DEF NoOrphanedCountdown, Counting, vars
<1> QED
  BY <1>1, <1>2, <1>3, <1>4, <1>5, <1>6, StepCases

\* Every step keeps segment_counting tied to a countdown or a callback.
LEMMA FlagStep ==
  ASSUME ThreadsOK, CleanupInv, FlagInv, [Next]_vars
  PROVE  FlagInv'
<1>1. CASE DeviceCommand \/ DeviceWork
  BY <1>1 DEF FlagInv, ThreadsOK
<1>2. CASE CleanupStep
  BY <1>2 DEF FlagInv, CleanupInv
<1>3. CASE \E t \in Player : Music(t)
  BY <1>3 DEF FlagInv
<1>4. CASE \E c \in Counter : Countdown(c)
  BY <1>4 DEF FlagInv, ThreadsOK
<1>5. CASE \E c \in Counter : Callback(c)
  <2> PICK c \in Counter : Callback(c)
    BY <1>5
  <2>1. CASE CallbackFlag(c)
    BY <2>1 DEF FlagInv
  <2>2. CASE CallbackTest(c) \/ CallbackRing(c)
    <3>1. /\ \A d \in Counter : counter[d] = "callback" => counter'[d] = "callback"
          /\ UNCHANGED <<segment_counting, device, is_counting>>
      BY <2>2 DEF ThreadsOK
    <3> QED
      BY <3>1 DEF FlagInv
  <2> QED
    BY <2>1, <2>2
<1>6. CASE UNCHANGED vars
  BY <1>6 DEF FlagInv, vars
<1> QED
  BY <1>1, <1>2, <1>3, <1>4, <1>5, <1>6, StepCases

-----------------------------------------------------------------------------
(***************************************************************************)
(* The invariant holds, and what follows from it                           *)
(***************************************************************************)
\* The inductive invariant holds after music_init and seg7_init.
LEMMA InitIInv == Init => IInv
<1> SUFFICES ASSUME Init PROVE IInv
  OBVIOUS
<1>1. FlagsOK /\ ThreadsOK
  BY DEF Init, BuzzerInit, SegInit, FlagsOK, ThreadsOK, PlayerLabels, CounterLabels,
         DeviceLabels, CleanupLabels
<1>2. DigitsOK
  BY DEF Init, SegInit, DigitsOK
<1>3. SongInv /\ CleanupInv /\ NoOrphanedCountdown /\ FlagInv /\ CleanupStopsCounting
  BY DEF Init, BuzzerInit, SegInit, SongInv, Playing, CleanupInv, NoOrphanedCountdown, FlagInv,
         CleanupStopsCounting
<1> QED
  BY <1>1, <1>2, <1>3 DEF IInv

\* Every step preserves the inductive invariant.
LEMMA NextIInv == IInv /\ [Next]_vars => IInv'
BY FlagsStep, ThreadsStep, DigitsStep, SongStep, CleanupInvStep, CountdownStep, FlagStep,
   CleanupCountStep DEF IInv

\* IInv is an invariant, however many threads the libraries have started.
THEOREM Inductive == Spec => []IInv
BY InitIInv, NextIInv, PTL DEF Spec

\* The variables keep their types; no digit outside 0 to 9 is ever shown.
THEOREM TypeCorrect == Spec => []TypeOK
<1>1. IInv => TypeOK
  BY TypeParts DEF IInv
<1> QED
  BY <1>1, Inductive, PTL

\* Music never plays twice at a time, whoever starts and stops it.
THEOREM OneSongAtATime == Spec => []OneSong
<1>1. IInv => OneSong
  BY DEF IInv, SongInv, OneSong
<1> QED
  BY <1>1, Inductive, PTL

\* No tone is left on the pin when the music is over.
THEOREM Silence == Spec => []SilentWhenIdle
<1>1. IInv => SilentWhenIdle
  BY DEF IInv, SongInv, SilentWhenIdle
<1> QED
  BY <1>1, Inductive, PTL

\* A set is_counting always has a thread that will clear it.
THEOREM NoOrphans == Spec => []NoOrphanedCountdown
<1>1. IInv => NoOrphanedCountdown
  BY DEF IInv
<1> QED
  BY <1>1, Inductive, PTL

\* segment_counting never stays behind without a countdown or a callback.
THEOREM FlagFollows == Spec => []NoOrphanedFlag
<1>1. IInv => NoOrphanedFlag
  BY DEF IInv, FlagInv, NoOrphanedFlag
<1> QED
  BY <1>1, Inductive, PTL

\* No countdown is started or goes on once seg7_cleanup has stopped it.
THEOREM CountingStopped == Spec => []CleanupStopsCounting
<1>1. IInv => CleanupStopsCounting
  BY DEF IInv
<1> QED
  BY <1>1, Inductive, PTL

-----------------------------------------------------------------------------
(***************************************************************************)
(* The buzzer implements the abstract player                               *)
(***************************************************************************)
AbstractStep == Abstract!Next \/ UNCHANGED <<Song, speaker>>

SongIs ==
  /\ ~is_playing => Song = "none"
  /\ is_playing /\ ~should_stop => Song = "playing"
  /\ is_playing /\ should_stop /\ (\E t \in Player : player[t] = "write") => Song = "stopping"
  /\ is_playing /\ should_stop /\ (\A t \in Player : player[t] # "write") => Song = "ending"

\* What the abstract state keeps of the library's, before and after a step.
LEMMA SongValue == (FlagsOK => SongIs) /\ (FlagsOK' => SongIs')
BY DEF SongIs, Song, FlagsOK

\* A step that leaves the buzzer alone is invisible.
LEMMA BuzzerUnchanged ==
  ASSUME UNCHANGED buzzerVars
  PROVE  AbstractStep
BY DEF AbstractStep, Song

\* Music starts only when there is none; a refusal is invisible.
LEMMA PlayImplements ==
  ASSUME FlagsOK, FlagsOK', SongInv, StartMusic \/ RefuseMusic
  PROVE  AbstractStep
<1> USE SongValue DEF SongIs
<1>1. CASE StartMusic
  <2>1. Song = "none" /\ Song' = "playing" /\ UNCHANGED speaker
    BY <1>1 DEF FlagsOK
  <2> QED
    BY <2>1 DEF AbstractStep, Abstract!Next, Abstract!Play
<1>2. CASE RefuseMusic
  <2>1. UNCHANGED Song
    BY <1>2 DEF Song
  <2> QED
    BY <1>2, <2>1 DEF AbstractStep
<1> QED
  BY <1>1, <1>2

\* A first stop request is a stop of the song that plays; any other changes
\* nothing.
LEMMA StopImplements ==
  ASSUME FlagsOK, FlagsOK', SongInv, stop_music
  PROVE  AbstractStep
<1>1. CASE is_playing /\ ~should_stop
  <2>1. Song = "playing" /\ Song' \in {"stopping", "ending"} /\ UNCHANGED speaker
    BY <1>1, SongValue DEF SongIs
  <2> QED
    BY <2>1 DEF AbstractStep, Abstract!Next, Abstract!Stop
<1>2. CASE should_stop \/ ~is_playing
  <2>1. UNCHANGED <<is_playing, should_stop, player, speaker>>
    BY <1>2 DEF SongInv, FlagsOK
  <2> QED
    BY <2>1 DEF AbstractStep, Song
<1> QED
  BY <1>1, <1>2

\* Every step of a music thread is one of the song.
LEMMA MusicImplements ==
  ASSUME FlagsOK, FlagsOK', ThreadsOK, SongInv, NEW t \in Player, PlayerStep(t)
  PROVE  AbstractStep
<1>1. is_playing /\ \A s \in Player : s # t => player[s] = "none"
  BY DEF SongInv, Playing
<1>2. \A s \in Player : player'[s] = IF s = t THEN player'[t] ELSE player[s]
  BY DEF ThreadsOK
<1>3. CASE player[t] = "write"
  <2>1. /\ Song = IF should_stop THEN "stopping" ELSE "playing"
        /\ Song' = IF should_stop THEN "ending" ELSE "playing"
    BY <1>1, <1>2, <1>3, SongValue DEF SongIs, FlagsOK, ThreadsOK
  <2>2. speaker' \in BOOLEAN
    BY DEF FlagsOK
  <2> QED
    BY <2>1, <2>2, SMT DEF AbstractStep, Abstract!Next, Abstract!Sound, Abstract!LastNote
<1>4. CASE player[t] = "end"
  <2>1. Song \in {"playing", "ending"} /\ Song' = "none"
    BY <1>1, <1>4, SongValue DEF SongIs, FlagsOK
  <2>2. ~speaker /\ UNCHANGED speaker
    BY <1>4 DEF SongInv
  <2> QED
    BY <2>1, <2>2 DEF AbstractStep, Abstract!Next, Abstract!End
<1>5. CASE player[t] \in {"head", "hold", "silence"}
  <2>1. /\ UNCHANGED <<is_playing, should_stop>>
        /\ UNCHANGED speaker \/ speaker' = FALSE
        /\ should_stop => player'[t] # "write"
    BY <1>5 DEF ThreadsOK
  <2>2. UNCHANGED Song
    BY <1>1, <1>2, <1>5, <2>1, SongValue DEF SongIs, FlagsOK
  <2> QED
    BY <2>1, <2>2 DEF AbstractStep, Abstract!Next, Abstract!Hush
<1> QED
  BY <1>3, <1>4, <1>5

\* music_cleanup may silence a song that still plays.
LEMMA SilenceImplements ==
  ASSUME SilenceBuzzer
  PROVE  AbstractStep
<1>1. UNCHANGED Song /\ speaker' = FALSE
  BY DEF Song
<1> QED
  BY <1>1 DEF AbstractStep, Abstract!Next, Abstract!Hush

\* Every step of the system is a step of the abstract player or is invisible.
LEMMA StepImplements ==
  ASSUME IInv, IInv', [Next]_vars
  PROVE  AbstractStep
<1> FlagsOK /\ FlagsOK' /\ ThreadsOK /\ SongInv
  BY DEF IInv
<1>1. CASE DeviceCommand
  BY <1>1, BuzzerUnchanged
<1>2. CASE DeviceWork
  BY <1>2, PlayImplements, StopImplements, BuzzerUnchanged
<1>3. CASE CleanupStep
  BY <1>3, StopImplements, SilenceImplements, BuzzerUnchanged
<1>4. CASE \E t \in Player : Music(t)
  BY <1>4, MusicImplements
<1>5. CASE \E c \in Counter : Countdown(c)
  BY <1>5, BuzzerUnchanged
<1>6. CASE \E c \in Counter : Callback(c)
  BY <1>6, PlayImplements, BuzzerUnchanged
<1>7. CASE UNCHANGED vars
  BY <1>7, BuzzerUnchanged DEF vars
<1> QED
  BY <1>1, <1>2, <1>3, <1>4, <1>5, <1>6, <1>7, StepCases

\* The buzzer library plays one song at a time, a stop request ends the song it
\* was made for and no other, and after it at most one more note is heard.
THEOREM PlaysMusic == Spec => MusicRefinement
<1>1. Init => Abstract!Init
  BY DEF Init, BuzzerInit, Abstract!Init, Song
<1>2. IInv /\ IInv' /\ [Next]_vars => [Abstract!Next]_(Abstract!vars)
  BY StepImplements DEF AbstractStep, Abstract!vars
<1> QED
  BY <1>1, <1>2, Inductive, PTL DEF Spec, MusicRefinement, Abstract!Spec

-----------------------------------------------------------------------------
(***************************************************************************)
(* The parts of StopEndsMusic and CountdownEnds that need no fairness      *)
(***************************************************************************)

\* The steps a music thread that is to stop has left.
PlayerLeft(t) ==
  [none |-> 0, end |-> 1, head |-> 2, hold |-> 2, silence |-> 2, write |-> 3][player[t]]

\* The steps a counting thread has left at most, those in its callback included.
CounterLeft(c) ==
  (IF Counting(c) THEN 3 * remaining[c] ELSE 0)
    + [none |-> 0, ringing |-> 1, ring |-> 2, callback |-> 3, finish |-> 4,
       sleep |-> 4, show |-> 5, head |-> 6][counter[c]]

\* A stop request is withdrawn only when the song is over; until then every step
\* of the music thread brings it nearer to its end and no other step takes it
\* farther away.
StopAdvances ==
  [][should_stop =>
       /\ should_stop' \/ ~is_playing'
       /\ \A t \in Player : /\ PlayerLeft(t)' <= PlayerLeft(t)
                            /\ Music(t) => PlayerLeft(t)' < PlayerLeft(t)]_vars

\* Every step of a counting thread, in its loop or in the callback, brings it
\* nearer to its end, and no other step takes it farther away.
CountdownAdvances ==
  [][\A c \in Counter : counter[c] # "none" =>
       /\ CounterLeft(c)' <= CounterLeft(c)
       /\ Countdown(c) \/ Callback(c) => CounterLeft(c)' < CounterLeft(c)]_vars

\* A requested stop is followed by at most three steps of the music thread,
\* whatever the other threads and the cleanup do meanwhile.
THEOREM StopBounded == Spec => StopAdvances
<1>1. ASSUME IInv, [Next]_vars, should_stop
      PROVE  /\ should_stop' \/ ~is_playing'
             /\ \/ \E t \in Player : Music(t)
                \/ UNCHANGED player
  <2>1. is_playing
    BY <1>1 DEF IInv, SongInv
  <2> QED
    BY <1>1, <2>1, StepCases DEF vars
<1>2. ASSUME IInv, should_stop, NEW t \in Player, Music(t)
      PROVE  PlayerLeft(t)' < PlayerLeft(t)
  <2>1. \/ player[t] \in {"head", "hold", "silence"} /\ player'[t] = "end"
        \/ player[t] = "write" /\ player'[t] = "hold"
        \/ player[t] = "end" /\ player'[t] = "none"
    BY <1>2 DEF IInv, ThreadsOK
  <2> QED
    BY <2>1 DEF PlayerLeft
<1>3. ASSUME IInv, IInv', [Next]_vars, should_stop, NEW t \in Player
      PROVE  PlayerLeft(t)' <= PlayerLeft(t)
  <2>1. PlayerLeft(t) \in Nat /\ PlayerLeft(t)' \in Nat
    BY <1>3 DEF IInv, ThreadsOK, PlayerLabels, PlayerLeft
  <2>2. CASE UNCHANGED player[t]
    BY <2>1, <2>2 DEF PlayerLeft
  <2>3. CASE Music(t)
    <3>1. PlayerLeft(t)' < PlayerLeft(t)
      BY <1>2, <1>3, <2>3
    <3> QED
      BY <2>1, <3>1
  <2>4. CASE \E s \in Player : s # t /\ Music(s)
    <3>1. UNCHANGED player[t]
      BY <1>3, <2>4 DEF IInv, ThreadsOK
    <3> QED
      BY <2>2, <3>1
  <2> QED
    BY <1>1, <1>3, <2>2, <2>3, <2>4
<1>4. IInv /\ IInv' /\ [Next]_vars =>
        [should_stop =>
           /\ should_stop' \/ ~is_playing'
           /\ \A t \in Player : /\ PlayerLeft(t)' <= PlayerLeft(t)
                                /\ Music(t) => PlayerLeft(t)' < PlayerLeft(t)]_vars
  BY <1>1, <1>2, <1>3
<1> QED
  BY <1>4, Inductive, PTL DEF Spec, StopAdvances

\* A counting thread takes at most six steps and three for every second, whatever
\* happens to is_counting meanwhile: it is set again only for another thread.
THEOREM CountdownBounded == Spec => CountdownAdvances
<1>1. ASSUME IInv, NEW c \in Counter, Countdown(c) \/ Callback(c)
      PROVE  CounterLeft(c)' < CounterLeft(c)
  <2>1. remaining[c] \in 0 .. 9 /\ (counter[c] = "sleep" => remaining[c] > 0)
    BY <1>1 DEF IInv, DigitsOK
  <2>2. /\ counter' = [counter EXCEPT ![c] = counter'[c]]
        /\ \/ counter[c] = "head" /\ counter'[c] = "show" /\ remaining'[c] = remaining[c]
           \/ counter[c] \in {"head", "ring", "ringing"} /\ counter'[c] = "none"
           \/ counter[c] = "show" /\ counter'[c] \in {"sleep", "finish"}
                /\ remaining'[c] = remaining[c]
           \/ counter[c] = "sleep" /\ counter'[c] = "head" /\ remaining'[c] = remaining[c] - 1
           \/ counter[c] = "finish" /\ counter'[c] = "callback"
           \/ counter[c] = "callback" /\ counter'[c] = "ring"
           \/ counter[c] = "ring" /\ counter'[c] = "ringing"
    BY <1>1 DEF IInv, ThreadsOK, DigitsOK
  <2> QED
    BY <2>1, <2>2 DEF CounterLeft, Counting
<1>2. ASSUME IInv, IInv', NEW c \in Counter
      PROVE  CounterLeft(c) \in Nat /\ CounterLeft(c)' \in Nat
  BY <1>2 DEF IInv, ThreadsOK, DigitsOK, CounterLabels, Counting, CounterLeft
<1>3. ASSUME IInv, [Next]_vars, NEW c \in Counter, counter[c] # "none"
      PROVE  Countdown(c) \/ Callback(c) \/ UNCHANGED <<counter[c], remaining[c]>>
  <2>1. CASE DeviceCommand \/ CleanupStep \/ UNCHANGED vars
    BY <2>1 DEF vars
  <2>2. CASE DeviceWork
    BY <1>3, <2>2 DEF IInv, ThreadsOK, DigitsOK
  <2>3. CASE \E t \in Player : Music(t)
    BY <2>3
  <2>4. CASE \E d \in Counter : Countdown(d) \/ Callback(d)
    BY <1>3, <2>4 DEF IInv, ThreadsOK, DigitsOK
  <2> QED
    BY <1>3, <2>1, <2>2, <2>3, <2>4, StepCases
<1>4. ASSUME IInv, IInv', [Next]_vars, NEW c \in Counter, counter[c] # "none"
      PROVE  CounterLeft(c)' <= CounterLeft(c)
  <2>1. CASE UNCHANGED <<counter[c], remaining[c]>>
    <3>1. CounterLeft(c)' = CounterLeft(c)
      BY <2>1 DEF CounterLeft, Counting
    <3> QED
      BY <1>2, <1>4, <3>1
  <2>2. CASE Countdown(c) \/ Callback(c)
    <3>1. CounterLeft(c)' < CounterLeft(c)
      BY <1>1, <1>4, <2>2
    <3> QED
      BY <1>2, <1>4, <3>1
  <2> QED
    BY <1>3, <1>4, <2>1, <2>2
<1>5. IInv /\ IInv' /\ [Next]_vars =>
        [\A c \in Counter : counter[c] # "none" =>
           /\ CounterLeft(c)' <= CounterLeft(c)
           /\ Countdown(c) \/ Callback(c) => CounterLeft(c)' < CounterLeft(c)]_vars
  BY <1>1, <1>4
<1> QED
  BY <1>5, Inductive, PTL DEF Spec, CountdownAdvances
=============================================================================
