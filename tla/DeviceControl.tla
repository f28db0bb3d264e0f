---------------------------- MODULE DeviceControl ----------------------------
(***************************************************************************)
(* The buzzer and countdown commands of device_control.c, together with    *)
(* the threads the two libraries start and the completion callback that    *)
(* leads from one library to the other, and the device part of             *)
(* server_cleanup.  Commands come in any order; the threads of the         *)
(* libraries run concurrently with the device thread and with the cleanup. *)
(*                                                                         *)
(* A section under state_mutex is one step.                                *)
(***************************************************************************)
EXTENDS Buzzer, SevenSegment, FiniteSets

VARIABLES
  segment_counting, \* ServerState: guarded by state_mutex
  buzzer_playing,   \* ServerState: guarded by state_mutex
  device,           \* where the device thread is
  cleanup           \* where server_cleanup is

controlVars == <<segment_counting, buzzer_playing, device, cleanup>>
vars == <<buzzerVars, segVars, controlVars>>

DeviceLabels == {"idle", "play", "played", "stop", "stopped", "claim", "create",
                 "refused", "seg_stop", "seg_stopped", "done"}
CleanupLabels == {"wait", "music_stop", "music_check", "silence", "seg_stop",
                  "blank", "exit", "exited"}

Init ==
  /\ BuzzerInit
  /\ SegInit
  /\ segment_counting = FALSE
  /\ buzzer_playing = FALSE
  /\ device = "idle"
  /\ cleanup = "wait"

Running == cleanup # "exited"

DeviceGoto(label) ==
  /\ device' = label
  /\ UNCHANGED <<segment_counting, buzzer_playing, cleanup>>

-----------------------------------------------------------------------------
(***************************************************************************)
(* The device thread                                                       *)
(***************************************************************************)

\* BUZZER ON is refused at once if music is playing.  (Any number is turned
\* into that of a song.)
BuzzerOn ==
  /\ device = "idle"
  /\ ~is_playing
  /\ DeviceGoto("play")
  /\ UNCHANGED <<buzzerVars, segVars>>

\* play_music_async: by now the callback may have started the bell.
BuzzerPlay ==
  /\ device = "play"
  /\ \/ initialized /\ StartMusic /\ DeviceGoto("played")
     \/ RefuseMusic /\ DeviceGoto("idle")
  /\ UNCHANGED segVars

BuzzerPlayed ==
  /\ device = "played"
  /\ buzzer_playing' = TRUE
  /\ device' = "idle"
  /\ UNCHANGED <<buzzerVars, segVars, segment_counting, cleanup>>

BuzzerOff ==
  /\ device = "idle"
  /\ is_playing
  /\ DeviceGoto("stop")
  /\ UNCHANGED <<buzzerVars, segVars>>

\* stop_music fails if the song has ended since.
BuzzerStop ==
  /\ device = "stop"
  /\ stop_music
  /\ DeviceGoto(IF is_playing THEN "stopped" ELSE "idle")
  /\ UNCHANGED segVars

BuzzerStopped ==
  /\ device = "stopped"
  /\ buzzer_playing' = FALSE
  /\ device' = "idle"
  /\ UNCHANGED <<buzzerVars, segVars, segment_counting, cleanup>>

\* SEGMENT DISPLAY sets the flag unless it is set already.
SegmentDisplay ==
  /\ device = "idle"
  /\ ~segment_counting
  /\ segment_counting' = TRUE
  /\ device' = "claim"
  /\ UNCHANGED <<buzzerVars, segVars, buzzer_playing, cleanup>>

SegmentClaim ==
  /\ device = "claim"
  /\ \/ ClaimCounting /\ DeviceGoto("create")
     \/ is_counting /\ DeviceGoto("refused") /\ UNCHANGED segVars
  /\ UNCHANGED buzzerVars

\* Mutant of SegmentCreate: is_counting stays set when the thread cannot be
\* created.
SegmentCreate_KeepsFlag ==
  /\ device = "create"
  /\ \/ StartCounting /\ DeviceGoto("idle")
     \/ DeviceGoto("refused") /\ UNCHANGED segVars
  /\ UNCHANGED buzzerVars

SegmentCreate ==
  /\ device = "create"
  /\ \/ StartCounting /\ DeviceGoto("idle")
     \/ ClearCounting /\ DeviceGoto("refused")
  /\ UNCHANGED buzzerVars

SegmentRefused ==
  /\ device = "refused"
  /\ segment_counting' = FALSE
  /\ device' = "idle"
  /\ UNCHANGED <<buzzerVars, segVars, buzzer_playing, cleanup>>

\* SEGMENT STOP is refused at once if the flag is clear.
SegmentStop ==
  /\ device = "idle"
  /\ segment_counting
  /\ DeviceGoto("seg_stop")
  /\ UNCHANGED <<buzzerVars, segVars>>

\* seg7_stop_counting; its 100 ms pass before the next step.
SegmentStopCounting ==
  /\ device = "seg_stop"
  /\ ClearCounting
  /\ DeviceGoto("seg_stopped")
  /\ UNCHANGED buzzerVars

SegmentStopped ==
  /\ device = "seg_stopped"
  /\ segment_counting' = FALSE
  /\ device' = "idle"
  /\ UNCHANGED <<buzzerVars, segVars, buzzer_playing, cleanup>>

\* The server stops.
DeviceExit ==
  /\ device = "idle"
  /\ DeviceGoto("done")
  /\ UNCHANGED <<buzzerVars, segVars>>

DeviceWork ==
  \/ BuzzerPlay \/ BuzzerPlayed \/ BuzzerStop \/ BuzzerStopped
  \/ SegmentClaim \/ SegmentCreate \/ SegmentRefused
  \/ SegmentStopCounting \/ SegmentStopped

DeviceCommand ==
  BuzzerOn \/ BuzzerOff \/ SegmentDisplay \/ SegmentStop \/ DeviceExit

-----------------------------------------------------------------------------
(***************************************************************************)
(* countdown_complete_callback, in the counting thread                     *)
(***************************************************************************)

\* Mutant of CallbackFlag: segment_counting is not cleared.
CallbackFlag_KeepsFlag(c) ==
  /\ counter[c] = "callback"
  /\ CounterGoto(c, "ring")
  /\ UNCHANGED <<buzzerVars, controlVars, is_initialized, is_counting, display, remaining>>

CallbackFlag(c) ==
  /\ counter[c] = "callback"
  /\ segment_counting' = FALSE
  /\ CounterGoto(c, "ring")
  /\ UNCHANGED <<buzzerVars, is_initialized, is_counting, display, remaining,
                 buzzer_playing, device, cleanup>>

\* The unlocked test at the start of play_music_async.
CallbackTest(c) ==
  /\ counter[c] = "ring"
  /\ CounterGoto(c, IF initialized THEN "ringing" ELSE "none")
  /\ UNCHANGED <<buzzerVars, controlVars, is_initialized, is_counting, display, remaining>>

CallbackRing(c) ==
  /\ counter[c] = "ringing"
  /\ StartMusic \/ RefuseMusic
  /\ CounterGoto(c, "none")
  /\ UNCHANGED <<controlVars, is_initialized, is_counting, display, remaining>>

Callback(c) == CallbackFlag(c) \/ CallbackTest(c) \/ CallbackRing(c)

-----------------------------------------------------------------------------
(***************************************************************************)
(* server_cleanup, after it has joined the device thread                   *)
(***************************************************************************)

CleanupGoto(label) ==
  /\ cleanup' = label
  /\ UNCHANGED <<segment_counting, buzzer_playing, device>>

\* Mutant of CleanupStart: the device thread is not joined.
CleanupStart_NoJoin ==
  /\ cleanup = "wait"
  /\ CleanupGoto("music_stop")
  /\ UNCHANGED <<buzzerVars, segVars>>

CleanupStart ==
  /\ cleanup = "wait"
  /\ device = "done"
  /\ CleanupGoto("music_stop")
  /\ UNCHANGED <<buzzerVars, segVars>>

CleanupMusicStop ==
  /\ cleanup = "music_stop"
  /\ stop_music
  /\ CleanupGoto("music_check")
  /\ UNCHANGED segVars

\* If music is still playing the thread is joined; but it is detached, so the
\* join has no effect that can be relied on: it may return at any time.
CleanupMusicCheck ==
  /\ cleanup = "music_check"
  /\ CleanupGoto("silence")
  /\ UNCHANGED <<buzzerVars, segVars>>

CleanupSilence ==
  /\ cleanup = "silence"
  /\ SilenceBuzzer
  /\ CleanupGoto("seg_stop")
  /\ UNCHANGED segVars

CleanupSegStop ==
  /\ cleanup = "seg_stop"
  /\ ClearCounting
  /\ CleanupGoto("blank")
  /\ UNCHANGED buzzerVars

CleanupBlank ==
  /\ cleanup = "blank"
  /\ BlankDisplay
  /\ CleanupGoto("exit")
  /\ UNCHANGED buzzerVars

\* The synchronisation objects are destroyed and main returns: all threads end.
CleanupExit ==
  /\ cleanup = "exit"
  /\ CleanupGoto("exited")
  /\ UNCHANGED <<buzzerVars, segVars>>

CleanupStep ==
  \/ CleanupStart \/ CleanupMusicStop \/ CleanupMusicCheck \/ CleanupSilence
  \/ CleanupSegStop \/ CleanupBlank \/ CleanupExit

-----------------------------------------------------------------------------
Music(t) == PlayerStep(t) /\ UNCHANGED <<segVars, controlVars>>
Countdown(c) == CounterStep(c) /\ UNCHANGED <<buzzerVars, controlVars>>

\* The process has exited; nothing happens any more.
Terminated == ~Running /\ UNCHANGED vars

Next ==
  \/ /\ Running
     /\ \/ DeviceCommand
        \/ DeviceWork
        \/ \E t \in Player : Music(t)
        \/ \E c \in Counter : Countdown(c) \/ Callback(c)
        \/ CleanupStep
  \/ Terminated

Spec == Init /\ [][Next]_vars

(***************************************************************************)
(* Fairness: every thread that can take a step eventually does; nothing    *)
(* makes clients send commands.                                            *)
(***************************************************************************)
FairSpec ==
  /\ Spec
  /\ WF_vars(Running /\ DeviceWork)
  /\ WF_vars(Running /\ CleanupStep)
  /\ \A t \in Player : WF_vars(Running /\ Music(t))
  /\ \A c \in Counter : WF_vars(Running /\ (Countdown(c) \/ Callback(c)))

-----------------------------------------------------------------------------
(***************************************************************************)
(* Properties                                                              *)
(***************************************************************************)

\* The variables hold values of their C types.
TypeOK ==
  /\ initialized \in BOOLEAN /\ is_playing \in BOOLEAN
  /\ should_stop \in BOOLEAN /\ speaker \in BOOLEAN
  /\ player \in [Player -> PlayerLabels]
  /\ is_initialized \in BOOLEAN /\ is_counting \in BOOLEAN
  /\ display \in 0 .. 9
  /\ counter \in [Counter -> CounterLabels]
  /\ remaining \in [Counter -> 0 .. 9]
  /\ segment_counting \in BOOLEAN /\ buzzer_playing \in BOOLEAN
  /\ device \in DeviceLabels
  /\ cleanup \in CleanupLabels

\* One song at a time: although BUZZER ON and the bell of a countdown start
\* music from different threads, and BUZZER OFF does not wait for the music
\* thread, there is a music thread exactly while is_playing, and only one.
OneSong ==
  /\ is_playing <=> \E t \in Player : Playing(t)
  /\ \A s, t \in Player : Playing(s) /\ Playing(t) => s = t

\* The pin carries no tone once the library says that no music is playing.
SilentWhenIdle == ~is_playing => ~speaker

\* The state of the library as a song.
Song ==
  IF ~is_playing THEN "none"
  ELSE IF ~should_stop THEN "playing"
  ELSE IF \E t \in Player : player[t] = "write" THEN "stopping" ELSE "ending"

Abstract == INSTANCE MusicPlayer WITH song <- Song, tone <- speaker

\* The library's threads and flags implement the abstract player: a stop request
\* is neither lost nor inherited by the next song, and although a note is written
\* without the mutex, after the request was tested, at most the one note that
\* was due then is still heard.
MusicRefinement == Abstract!Spec

\* is_counting is never left set with no thread to clear it, which would make
\* every later SEGMENT DISPLAY fail.
NoOrphanedCountdown ==
  is_counting /\ device # "create" =>
    \E c \in Counter : Counting(c) \/ counter[c] = "finish"

\* Between commands segment_counting is set only if a countdown is going on or
\* its callback, which clears the flag, is still to come.
NoOrphanedFlag ==
  segment_counting /\ device = "idle" =>
    is_counting \/ \E c \in Counter : counter[c] = "callback"

\* Once seg7_cleanup has stopped the countdown none is started any more, so no
\* counting thread gets past the head of its loop: server_cleanup has waited for
\* the device thread, which might be between its test and its claim.
CleanupStopsCounting == cleanup \in {"blank", "exit", "exited"} => ~is_counting

\* A requested stop ends the music.
StopEndsMusic == should_stop ~> ~is_playing \/ ~Running

\* A countdown ends, so that the next one is not refused for ever.
CountdownEnds == segment_counting ~> ~segment_counting \/ ~Running

\* Only one countdown runs at a time.
OneCountdown ==
  is_counting => Cardinality({c \in Counter : Counting(c)}) <= 1

\* A countdown in progress can be stopped: SEGMENT STOP is not refused.
CountdownStoppable == device = "idle" /\ is_counting => segment_counting

\* music_cleanup returns only when the music thread has ended.
CleanupWaitsForMusic == ~initialized => \A t \in Player : ~Playing(t)
=============================================================================
