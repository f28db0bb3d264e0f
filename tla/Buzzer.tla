------------------------------- MODULE Buzzer -------------------------------
(***************************************************************************)
(* libbuzzer (buzzer.c): the static variables of the library, its music    *)
(* threads and the operations its callers use.  A song is some number of   *)
(* notes and rests, each held for some number of 50 ms steps.              *)
(*                                                                         *)
(* Every section under music_mutex is one step, so the mutex itself is not *)
(* represented: it is free between steps.                                  *)
(***************************************************************************)
CONSTANT Player \* bound: the music threads that can be alive at a time

VARIABLES
  initialized, \* read without a lock
  is_playing,  \* guarded by music_mutex
  should_stop, \* guarded by music_mutex
  speaker,     \* whether the pin carries a tone
  player       \* where each music thread is; "none": not started or ended

buzzerVars == <<initialized, is_playing, should_stop, speaker, player>>

PlayerLabels == {"none", "head", "write", "hold", "silence", "end"}

Playing(t) == player[t] # "none"

\* The state music_init leaves.
BuzzerInit ==
  /\ initialized = TRUE
  /\ is_playing = FALSE
  /\ should_stop = FALSE
  /\ speaker = FALSE
  /\ player = [t \in Player |-> "none"]

-----------------------------------------------------------------------------
(***************************************************************************)
(* play_notes_interruptible and the rest of music_playback_thread          *)
(***************************************************************************)

\* With the mutex: a stop request silences the pin and ends the song, otherwise
\* the thread goes on to one of the given places.
StopOr(t, places) ==
  /\ IF should_stop
     THEN speaker' = FALSE /\ player' = [player EXCEPT ![t] = "end"]
     ELSE /\ \E place \in places : player' = [player EXCEPT ![t] = place]
          /\ UNCHANGED speaker
  /\ UNCHANGED <<initialized, is_playing, should_stop>>

\* The head of the loop over the notes.
PlayerHead(t) == player[t] = "head" /\ StopOr(t, {"write"})

\* A note or a rest goes to the pin, without the mutex.
PlayerWrite(t) ==
  /\ player[t] = "write"
  /\ speaker' \in BOOLEAN
  /\ player' = [player EXCEPT ![t] = "hold"]
  /\ UNCHANGED <<initialized, is_playing, should_stop>>

\* The check after 50 ms; then the note goes on, ends, or was the last one.
PlayerHold(t) == player[t] = "hold" /\ StopOr(t, {"hold", "head", "silence"})

\* Mutant of PlayerSilence: the last tone is left on.
PlayerSilence_Skipped(t) ==
  /\ player[t] = "silence"
  /\ player' = [player EXCEPT ![t] = "end"]
  /\ UNCHANGED <<initialized, is_playing, should_stop, speaker>>

\* The song is over.
PlayerSilence(t) ==
  /\ player[t] = "silence"
  /\ speaker' = FALSE
  /\ player' = [player EXCEPT ![t] = "end"]
  /\ UNCHANGED <<initialized, is_playing, should_stop>>

\* Mutant of PlayerEnd: is_playing is not cleared.
PlayerEnd_StillPlaying(t) ==
  /\ player[t] = "end"
  /\ should_stop' = FALSE
  /\ player' = [player EXCEPT ![t] = "none"]
  /\ UNCHANGED <<initialized, is_playing, speaker>>

PlayerEnd(t) ==
  /\ player[t] = "end"
  /\ is_playing' = FALSE
  /\ should_stop' = FALSE
  /\ player' = [player EXCEPT ![t] = "none"]
  /\ UNCHANGED <<initialized, speaker>>

PlayerStep(t) ==
  PlayerHead(t) \/ PlayerWrite(t) \/ PlayerHold(t) \/ PlayerSilence(t) \/ PlayerEnd(t)

-----------------------------------------------------------------------------
(***************************************************************************)
(* The operations, from the point where they take the mutex                *)
(***************************************************************************)

\* Mutant of StartMusic: is_playing is not tested.
StartMusic_Unchecked ==
  /\ is_playing' = TRUE
  /\ should_stop' = FALSE
  /\ \E t \in Player : ~Playing(t) /\ player' = [player EXCEPT ![t] = "head"]
  /\ UNCHANGED <<initialized, speaker>>

\* play_music_async starts a music thread.
StartMusic ==
  /\ ~is_playing
  /\ is_playing' = TRUE
  /\ should_stop' = FALSE
  /\ \E t \in Player : ~Playing(t) /\ player' = [player EXCEPT ![t] = "head"]
  /\ UNCHANGED <<initialized, speaker>>

\* Mutant of RefuseMusic: should_stop is cleared before is_playing is tested.
RefuseMusic_ClearsStop ==
  /\ should_stop' = FALSE
  /\ UNCHANGED <<initialized, is_playing, speaker, player>>

\* play_music_async refuses: music is playing, malloc or pthread_create fails.
\* Only the last one gets as far as clearing should_stop.
RefuseMusic ==
  /\ \/ UNCHANGED should_stop
     \/ ~is_playing /\ should_stop' = FALSE
  /\ UNCHANGED <<initialized, is_playing, speaker, player>>

\* stop_music; its result is is_playing.
stop_music ==
  /\ should_stop' = (should_stop \/ is_playing)
  /\ UNCHANGED <<initialized, is_playing, speaker, player>>

\* The last lines of music_cleanup.
SilenceBuzzer ==
  /\ speaker' = FALSE
  /\ initialized' = FALSE
  /\ UNCHANGED <<is_playing, should_stop, player>>
=============================================================================
