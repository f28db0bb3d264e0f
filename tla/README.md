# Specifications of the IoT device control server

TLA+ modules, TLC configurations and TLAPS proofs for the server that controls
an LED, a buzzer, a light sensor and a 7-segment display of a Raspberry Pi over
TCP (`src/server_src`, with the device libraries `src/buzzer`, `src/7segment`,
`src/led`, `src/light_sensor`), and for its client (`src/client_src`).

## 1. The system

One server process, one client at a time, devices behind shared libraries that
start threads of their own.

| Part | State | Operations | Talks to |
|---|---|---|---|
| Main thread (`main.c`, `server_cleanup` in `server.c`) | `g_running`, `server_running`, `client_connected`, `client_socket` | SIGINT handler, accept loop, registration, creating and joining threads, cleanup | clients (accept), comm (create, join), device (join, condition) |
| Communication thread, "comm" (`communication.c`) | its `cmd` and socket | menu, recv, parameters, push, wait at most 5 s for the response, reply, disconnect | client (TCP), device (queue, two conditions) |
| Device thread (`device_control.c`) | its `cmd`; `sensor_monitoring`, `segment_counting`, `buzzer_playing`, `led_on`, `led_brightness` | wait at most 1 s for a command, pop, execute, respond, sensor automation | comm, libraries |
| Command queue (`command_queue.c`) | ring buffer with `front`, `rear`, `count` | init, push, pop, is_empty, cleanup | guarded by `queue_mutex` |
| Buzzer library (`buzzer.c`) | `initialized`, `is_playing`, `should_stop`, the pin | play_music_async, stop_music, is_music_playing, cleanup; one detached thread per song | device thread, callback, cleanup |
| 7-segment library (`7segment.c`) | `is_initialized`, `is_counting`, the display | counting, stop_counting, cleanup; one detached thread per countdown; completion callback | device thread, cleanup, buzzer (through the callback) |
| LED and light sensor libraries | `led_state`, the duty value on the pin; the sensor pin | on, off, set_brightness, cleanup; read, is_bright | device thread, cleanup |
| Start-up (`main`, `server_init`) | what has been acquired | ten steps, each of which may fail and has to undo the others | libraries, kernel |
| Web server management (`server.c`, `sigchld_handler`) | `web_server_pid` | fork and exec, SIGTERM, polls, SIGKILL, waitpid | child process, the handler |
| Daemon mode (`daemon.c`) | PID file | double fork, check, write and remove the PID file | other instances |
| Client (`client_src`) | `connected`, socket | connect, the loop that looks for prompts, entries, disconnect, Ctrl+C | comm (byte stream) |
| Web camera server (`web_server.py`) | camera | frame stream | browsers |

What is hard about it:

- Request and response are matched by nothing but time. comm waits on a
  condition variable without a predicate, gives up after five seconds and goes
  on; the response it gave up on is still to come.
- Flags are read outside the lock that guards what they are about
  (`server_running`, `initialized`), so a signal can fall between a test and
  the wait behind it.
- The threads of the libraries are detached and share one flag per library
  (`is_playing`, `is_counting`). Their owner is decided by order of events.
- The server and the 7-segment library keep one flag each for "a countdown is
  going on". They are set and cleared one after the other, from three threads.
- The end of a countdown starts music, from the counting thread, at a time when
  the device thread or the cleanup may be using the buzzer.
- Shutdown has to get three threads out of their waits.
- The client finds out what to do by looking for keywords in whatever part of
  the stream a `recv` returns; nothing marks where a message ends.
- `sigchld_handler` reaps any child, while `start_web_server` and
  `stop_web_server` wait for the same child by its PID.
- Several instances share a PID file, which they check, truncate, write and
  remove in separate steps, and a port, which a web server inherits.

What makes the parts correct:

- *Queue*: a bounded FIFO; nothing lost, repeated or reordered.
- *Threads*: no missed wake-up, no deadlock, a response goes out once, to the
  request it belongs to as far as the protocol can tell; sessions do not
  overlap; sockets are closed once; locks are destroyed after the joins of the
  threads that use them; Ctrl+C ends the process.
- *Buzzer*: one song at a time, a stop reaches the song it was meant for, no
  tone is left on.
- *Countdown*: one at a time, stoppable, and no flag left set that refuses
  every later one.
- *LED automation*: its flag means what it says, and it gets to act on a change
  of the light whatever commands come.
- *Dialogue*: an entry goes to the question it answers; the two programs do not
  wait for each other; each notices that the other has gone.
- *Life of a process*: a failed start undoes exactly what it did, an orderly
  exit leaves nothing behind (no web server, no zombie, no PID), a running
  daemon is the one the PID file names, and a shutdown ends.

The hazards are listed, each at its line, in `PROJECT.json`.

## 2. Modules

| Module | Models |
|---|---|
| `CommandQueue` | `command_queue.c`: the functions as operators on a queue value; `Contents` is the sequence a ring buffer stands for, `WellFormed` what its fields have in common |
| `CommandFifo` | abstract: a bounded FIFO with one consumer; `Server` implements it |
| `RemoteControl` | abstract: what the server promises its clients; `Server` implements it |
| `MusicPlayer` | abstract: what the buzzer library promises; `DeviceControl` implements it |
| `Server` (extends `CommandQueue`) | the main, comm and device threads, the mutexes, the conditions, the timeouts, clients, the signal |
| `Buzzer`, `SevenSegment` | the two libraries: state, thread steps, operations |
| `DeviceControl` (extends both) | the buzzer and countdown commands, the callback, the device part of `server_cleanup`, all concurrent |
| `LedControl` | `led.c`, `light_sensor.c`, the LED and sensor commands and `handle_sensor_monitoring`, with light that changes |
| `Dialogue` | the client program and the communication thread as its partner, over a byte stream |
| `WebServer` | `start_web_server`, `stop_web_server`, `sigchld_handler` and the child process, for each instance |
| `Lifecycle` (extends `WebServer`) | `main` from its start to its return: PID file, `server_init`, web server, device thread, `server_cleanup`, crashes; several instances |
| `CommandQueueProofs`, `ServerProofs`, `DeviceControlProofs`, `LedControlProofs`, `DialogueProofs`, `LifecycleProofs` | the proofs |

Definitions whose comment begins with "Mutant of" are deliberately wrong
variants of the definition that follows them. No specification uses them; each
shows that a property would notice a plausible mistake in the code
(`PROJECT.json`, "mutants").

### How the model corresponds to the code

*Server.* `pcMain`, `pcComm` and `pcDev` say where each thread is. A step is a
stretch of code between two points where another thread can make a difference:
a critical section that neither waits nor takes a second lock is one step,
guarded by the mutex being free; the sections that do are split, with the owner
in `queue_mutex` or `state_mutex`. The device thread holds `queue_mutex` across
the test of `server_running`, the start of the wait and the acquisition of
`state_mutex`, which is where the order of locks and the unlocked flag matter.

`pthread_cond_timedwait` is modelled by the set `waiting`: entering it releases
the mutex, a signal, the timeout or (if `SpuriousWakeups`) nothing at all
removes a thread from it, and the thread then competes for the mutex. A thread
whose timeout has expired no longer takes a signal. Times are abstract: a
timeout may happen whenever the thread waits. That is more than a
five-second limit allows at first sight, but a command may take any time (the
libraries use locks, sleeps and system calls) and the wait is against
`CLOCK_REALTIME`, which may be set.

A command is its type and the number of its acceptance. The code has no such
number; it is there to tell commands apart, and `response` is the number of
the command answered last. Commands whose type is unknown are queued like the
others, as in the code. Of the device commands only SENSOR ON and OFF steer
these threads. The branch for status -2 (device_control.c:283) is left out:
`process_buzzer_on` never returns that status.

`pushed`, `popped`, `overlap`, `spurious` and `reply` record history: nothing
the code does depends on them. (`pushed` also numbers the commands and bounds
their number.)

`SIGINT` may come at any time. The handler runs on a thread the kernel
chooses; if that is comm in `recv`, the call fails with EINTR (there is no
`SA_RESTART`) and comm ends the session. SIGPIPE is ignored, so a failing `send` is
just a result; only the one in `send_response` is looked at.

*Buzzer, SevenSegment, DeviceControl.* Every section under a mutex is one step,
because none of them waits. A song is any sequence of notes and rests; each is
held for at least one 50 ms check. A thread that ends gives its name back, so
`Player` and `Counter` bound how many are alive at a time, not how many are
ever started. Calls that are refused without an effect (a parameter out of
range, "Music already playing") are steps that change nothing. `malloc` and
`pthread_create` may fail. `pthread_join` on the detached music thread is
undefined: it may return at any time. Commands arrive in any order at any
time, which is what the queue of `Server` can deliver; the device thread stops
between two commands, after which the cleanup runs.

*LedControl.* `pwm` is the duty value written last; the LED is wired so that
100 is dark and 0 is full. The variables are used by the device thread alone
while it runs, and the cleanup comes after its join, so a command is one step;
the reading of the sensor and the action on it are two, because the light may
change in between. `Tick` is the one-second timeout of the wait for a command;
a look also follows every command. `led_on` in the model is
`ServerState.led_on`; the library's own flag is `led_state`. `pin` is a level:
the code takes LOW for light (light_sensor.c:51), while
`src/light_sensor/README.md` (lines 220-222 and 237-240) says that 0 is dark, 1
is bright and `light_sensor_is_bright()` is true on HIGH, adding (line 242) that
some sensors work the other way round. Properties that mention the pin therefore
speak of levels, those about `last_bright_state` of what the automation takes
for light.

*Dialogue.* The stream to the client is its length and the offsets of the two
keywords, with the sizes of the texts counted in bytes of their UTF-8 source
(the URL in the welcome message is padded to 48 characters). A `recv` of the
client returns all there is, a full buffer, or any size in `Chunk`; only whole
keywords are found. The stream to the server is a sequence of messages: what
the client sends at a time is a few bytes. Everything from the push to the
response is one step (`CommAnswer`), because `Server` models it. The loop
`while (getchar() != '\n')` never ends at the end of the input: the label
`spin`. `lost` records why a prompt was not answered and steers nothing.

*WebServer, Lifecycle.* The child is a process state: it ignores SIGTERM until
`web_server.py` installs its handlers (SIG_IGN is inherited through `fork` and
`exec`), may take any time over its cleanup, and may end at any time. A
`waitpid` finds a zombie or fails. `write_pid_file` is four steps: read the PID
(`seen`), ask for the process, open and truncate the file, print the PID. `open`
holds those whose open file is still the one with the name; after an `unlink` the
PID goes to a file nobody will find. `raced` is history: the daemons that were
between their reading and their printing when another one read, the reader, and
a reader that meets a running daemon with such a past. The steps of `server_init` are a sequence of
names; `Undo` lists for each what the code releases when it fails. `wiringPi`
failing is a failure of the first step; the socket options, `bind` and `listen`
are one step "port". A port is in use while an instance or a web server that
inherited the socket is alive. What lies between start-up and cleanup is one
label, `serving`: it is `Server`. `sigaction` on a valid signal cannot fail, so
its error exits are left out. Each instance starts once; a restart after a
crash is another instance. `pthread_join` of a thread that was never created is
undefined: the process crashes or goes on. A SIGTERM sent to a PID that is no
longer a child fails, or reaches another process that was given the PID; the code
goes on to poll in the second case only. `killed` records what the child was
when SIGKILL was sent and steers nothing.

### The abstract specifications and how the detailed ones implement them

`CommandFifo` says what a queue and its one consumer promise; the mapping takes
the ring buffer to the sequence it stands for (`Contents`) and `dev_cmd` to the
command in hand.

`RemoteControl` is the service as a client sees it, with no threads, locks,
queue or sockets: one session at a time, one request at a time in a session, all
requests performed one by one in the order of acceptance, a waiting client sent
the latest result after something was performed while it waited, or told to wait
no longer. The mapping takes an open socket to an open session, `pushed` and
`response` to the requests accepted and performed, and the place of comm with
the set `waiting` to what the client waits for (`ClientWait`). That a response
is published and comm woken in one critical section is what makes it a
refinement: without the signal, with a second one, or with a reply after the
timeout it is none. It also says what is *not* promised: the result sent need
not be that of the last request (run `server_stale`).

`MusicPlayer` is the buzzer with a song that plays, is stopping or is ending.
After a stop one more note may be heard, the one that was due when the stop came,
because `play_notes_interruptible` tests `should_stop` under the mutex and writes
to the pin after it (buzzer.c:79); never two, and no stop is lost or carried over
to the next song.

## 3. Runs

All bounds are in the `.cfg` files. States are distinct states.

| Run | Result | Question |
|---|---|---|
| `server` (`Server.cfg`) | passes, 374 000 states | All safety properties of the three threads, `NoCircularWait`, `FifoRefinement`, `ServiceRefinement`, `WindsDown`, and, for clients that keep talking or hang up, `EveryCommandServed` and `SigintStopsServer` |
| `server_sigint` (`ServerSigint.cfg`) | violated | `SigintStopsServer` for any client |
| `server_stale` (`ServerStale.cfg`) | violated | `ReplyMatchesRequest` |
| `devices` (`DeviceControl.cfg`) | passes, 320 000 states | All safety properties of buzzer and countdown, `MusicRefinement`, `StopEndsMusic`, `CountdownEnds` |
| `countdown_overlap` | violated | `OneCountdown` |
| `countdown_stop` | violated | `CountdownStoppable` |
| `music_cleanup` | violated | `CleanupWaitsForMusic` |
| `led` (`LedControl.cfg`) | passes, 532 states | `FlagMeansLit`, `DarknessLights`, `AutomationReacts` |
| `led_bright` (`LedBright.cfg`) | violated | `BrightnessDarkens` |
| `dialogue` (`Dialogue.cfg`) | passes, 3 200 states | `WelcomeLeavesPrompt`, `InStep`, `StallHasCause`, `PromptFollowsEntry`, `SessionEnds`, `ClientNotices` |
| `lifecycle` (`Lifecycle.cfg`) | passes, 307 000 states | `UndoExact`, `CleanExit`, `PidFileHasOwner`, `PidFileNamesDaemon`, `ShutdownAdvances`, `ShutdownEnds` |
| `web_kill` (`WebKill.cfg`) | violated | `KillOnlyRunning` |

Each passing run also checks the `TypeOK` of its module.

Bounds. `server`: a queue of two slots is filled, wrapped and emptied by three
commands (one in execution, two given up on and still queued); two clients make
the second one meet the commands and the response the first one left; a type
with a parameter and SENSOR ON reach every branch of comm and of the device
loop. `devices`: two music threads are needed to see a song start before the
one it replaces is gone, two counting threads to see a stopped countdown next
to its successor; a countdown of one second goes through every place of the
counting thread, and the old and the new one may end in either order because
their steps interleave freely. Three counting threads were too many for TLC;
the theorems do not depend on the number. `led`: all three levels, and one
below and one above. `dialogue`: pieces of 3 and 278 bytes, the whole rest and
a full buffer cut both keywords in two and also leave them whole; responses of
24 and 267 bytes put the next menu at different places. The number of commands
in a session is not bounded. `lifecycle`: two instances race for the PID file
and the port (with three, one may be replaced between the reading and the test of
another; the theorems are for any number); two polls instead of fifty leave the loop at every
count; there is no bound on the rest.

Deadlock is checked in every run; the final states are those after the
processes have exited (`Terminated`, `Over`) or the session is over.

What the violated runs show:

- `server_sigint`: only the listening socket is non-blocking. With a client
  connected and silent, Ctrl+C clears two flags that nobody reads.
- `server_stale`: a command that times out leaves its response to the next one.
  The second command's own response then finds nobody waiting and is not sent,
  unless a third command is pushed before it is published and takes it for its
  answer. `AnswersOwnRequest` says exactly when this can happen; the theorem `SentOnce`
  says that even then no response goes out twice.
- `countdown_overlap`: `seg7_stop_counting` waits 100 ms for a thread that may
  sleep for a second. DISPLAY, STOP, DISPLAY within a second gives two
  countdowns on one display.
- `countdown_stop`: the callback of a finished countdown clears the flag of
  the countdown started after it.
- `music_cleanup`: the join of a detached thread does not wait; a late callback
  starts a song behind the cleanup's back.
- `led_bright`: SET BRIGHTNESS lights the LED without setting `led_on`, so the
  automation does not switch it off. The other direction is safe: `led_on` is
  never set with the LED out (`FlagMeansLit`), so dusk always lights it.
- `web_kill`: the SIGCHLD handler usually wins the race for the stopped child;
  `waitpid` then fails every time and the process waits five seconds and kills
  a PID it no longer owns. `CleanExit` and `ShutdownEnds` hold all the same.

What the passing runs say that is not obvious from the code:

- `WelcomeLeavesPrompt` holds only because the first prompt, which begins at
  byte 1241 of the stream, lies beyond the 1023 bytes of the client's buffer:
  with a buffer as large as the server's the prompt could be lost.
- `StallHasCause` names the two ways in which client and server wait for each
  other for ever: an entry that was not sent, or a keyword cut in two.
- `UndoExact` covers each of the ten failure paths of `server_init`.
- `NoCircularWait` is about the two mutexes and the two joins together: the
  device thread takes `state_mutex` inside `queue_mutex`, and nobody takes them
  the other way round or joins while holding one.
- `PidFileNamesDaemon`: whatever a crash left in the PID file, and however many
  starts are refused, a running daemon is the one the file names. The race of two
  checks (nothing holds a lock from the check to the writing) is the only way to
  a daemon without its PID in the file; `PidFileHasOwner` holds in any case.
- `AutomationReacts` says that the LED follows the level of the pin. That it is
  lit in the dark depends on a sensor that is LOW in the light; with one as the
  library's README describes it, the automation would work the wrong way round.
  The first look after the start is no change if it finds HIGH, since
  `last_bright_state` starts as dark (device_control.c:196), and leaves the LED
  out.
- `DestroyedAfterJoins` is about main, comm and the device thread only; for the
  counting thread see section 5.
- `WindsDown` and `ShutdownAdvances` each give a number that every step of a
  shutdown lowers: after Ctrl+C no thread goes round its loop again, and the
  polls of `stop_web_server` end whoever reaps the child. `EveryCommandServed`
  says that the responses catch up with the accepted commands.

### Fairness

Weak fairness of each thread: the threads run under a preemptive scheduler, every
mutex is held for a bounded time, and timeouts expire because time passes. The device
thread's WF includes its 1 s timeout, which `SigintStopsServer` needs: the
mutant without the timeout is stuck, because `server_cleanup` signals without
the mutex. Nothing is assumed of clients in `FairSpec`; `LiveClientSpec` adds
that a `recv` eventually returns, which is the client's doing and is exactly what
the difference between `server` and `server_sigint` shows. In
`DeviceControl` each library thread is fair and the commands are not. A song
may go on for ever there (its length is abstract), so `StopEndsMusic` rests on
the stop request alone. In `LedControl` the device thread is fair, its timeout
included; neither clients nor the light have to do anything, and clients may
send without end. In `Dialogue` both programs are fair, the user is not. In
`Lifecycle` the main thread and the delivery of SIGCHLD are fair; the web
server need not react to SIGTERM, and nobody has to press Ctrl+C.

## 4. Proofs

For every queue size, number of commands and clients, number of music and
counting threads. Assumptions: the queue has at least one slot, the bounds are
natural numbers, NULL is not a command, countdowns start between 1 and 9, levels
are integers, pieces of the stream have at least one byte, there is at least one
poll, and the marks for "no PID file" and "empty" are not instances.

`CommandQueueProofs`: arithmetic of `Wrap` and of the window of used slots
first, then what the functions do to the sequence a queue stands for:
`PushAppends`, `PopTakesHead`, `InitEmpty`.

`ServerProofs`: the invariant `IInv` is the conjunction of `TypeOK` and nine
parts, each proved with the help of those before it. `QueueInv`: the queue
holds the commands `popped + 1 .. pushed` in order. `RequestInv`, `HeldInv`,
`ResponseInv`: which number each thread is working on. `ControlInv`: who is
where, and that mutexes are held exactly in their critical sections.
`SessionInv`: registration and sockets follow main and comm. `AnswerInv`: what
comm may conclude from being woken; `NoLostWakeup` alone is not inductive,
because that the response has not come yet depends on the request being the last one
pushed and the response being at most the last one popped. `SentInv`: a
response that has been sent lies strictly behind the next one that wakes comm.
From `IInv` follow `TypeCorrect`, `Accounting`, `Wakeups`, `OwnAnswer`,
`Sessions`, `Sockets`, `SafeTeardown`, `SentOnce`, and `Refinement`: every step
of the threads is a step of `CommandFifo` or leaves `Contents` and the command
held alone. `Serves` is the refinement of `RemoteControl`, step by step for each
action of the three threads; it needs that comm is woken by a response only if it
was blocked and that a spurious wakeup is over when comm blocks again, which
`ControlInv` says. `DeadlockFree` (`NoCircularWait`) follows from the part of
`ControlInv` that ties mutexes to places. `BoundedShutdown` (`WindsDown`) shows
for every action, with the places `ControlInv` and `SessionInv` allow, that it
lowers `StepsLeft` once `server_running` is cleared.

`DeviceControlProofs`: `SongInv` adds to `OneSong` that a stop request needs
music playing and that a thread about to end has silenced the pin; without
these `SilentWhenIdle` is not inductive and `MusicRefinement` does not follow. `FlagInv`
extends `NoOrphanedFlag` to the places between two commands. `DigitsOK` keeps a
sleeping thread above zero. Proved: `TypeCorrect`, `OneSongAtATime`, `Silence`,
`NoOrphans`, `FlagFollows`, `CountingStopped` (with `CleanupInv`:
the cleanup runs without the device thread, so nobody sets `is_counting`).
`PlaysMusic` is the refinement of `MusicPlayer`: since there is only one music
thread (`SongInv`), its place and the two flags determine the abstract state.
`StopBounded`: at most three steps of the music thread follow a stop request.
`CountdownBounded`: every counting thread ends after at most six steps and three
for each second, callback included, even if it takes the `is_counting` of a later
countdown for its own.

`LedControlProofs`: `FlagMeansLit` needs that the libraries are up while the
device thread works (`Up`), because a write after the cleanup has no effect. The
action property `DarknessLights` follows from one step under the invariant.

`DialogueProofs`: `Turns` says whose turn it is: while the server reads, the
prompt for what it reads is in the stream, with the user, answered or lost, and
otherwise nothing is pending in either direction; `InStep` and `StallHasCause`
are not inductive without it. `Opening` fixes where the first prompt is until
the client's first `recv`; with the sizes of the texts it gives
`WelcomeLeavesPrompt`. Lemmas describe how sending and receiving move prompts.
`SessionBounded`: once the client has gone, the communication thread takes at most
five more steps (`CommLeft`), since at most one entry is still on the way (`InStep`)
and only towards a thread that reads (`Turns`).

`LifecycleProofs`: the invariant has a part per instance (`Local`), which only
that instance's steps disturb, and two about how instances meet (`Owner`, `Solo`).
`Starting`: what `server_init` has acquired is what a failure would release
(from the lemma `UndoGrows`: each step adds to the list what it acquires).
`Calling`: main is in the two web server functions only where it calls them.
`ChildKnown`: there is no child behind the back of `web_server_pid`, and none
when `stop_web_server` has returned. `Owner`: the instance in the PID file wrote
it and has not removed it, and is a daemon. `Solo`: a daemon whose start met no
other is alone behind the check; while it looks, nobody else does, and a daemon
that runs is the one it has seen; once it runs, everyone who has looked since has
seen its PID, so that nobody gets past the check. Proved: `TypeCorrect`,
`ExactUndo`, `LeavesNothing`, `PidOwned`, `PidNamesDaemon`, and `ShutdownBounded`
(`ShutdownAdvances`), for any number of polls; it needs `Awaited`: where
`stop_web_server` waits for a child without a limit, SIGKILL has been sent to it
or it is gone.

The theorems `BoundedShutdown`, `ShutdownBounded`, `StopBounded`,
`CountdownBounded` and `SessionBounded` are the safety half of the liveness
properties: every step lowers a rank. That the next step is taken at all rests on
fairness and on ENABLED, which are outside what the provers handle. Only
model-checked are therefore `EveryCommandServed`, `SigintStopsServer`,
`StopEndsMusic`, `CountdownEnds`, `AutomationReacts`, `PromptFollowsEntry`,
`SessionEnds`, `ClientNotices` and `ShutdownEnds`, and that no state is without a
successor. The bounds that no run lists (`StopAdvances`, `CountdownAdvances`,
`SessionWindsDown`) are stated next to their proofs.

## 5. Not modelled

- The Flask camera server and its page: third-party I/O. Of `web_server.py` only
  its life as a process and its reaction to SIGTERM are modelled.
- Texts of menus, responses and logs (of those sent to the client, length and
  prompts are kept), `log_message`, `redirect_output_to_log`, `get_server_ip`,
  the note tables, GPIO timing, the Makefiles.
- Functions nobody calls: `seg7_setnum`, `seg7_wait_counting`, `led_is_on`,
  `print_menu` of the client, and `test.py`, `test2.py`.
- `printf` in signal handlers: stdio is not modelled.
- A second SIGINT that interrupts the `waitpid` of `stop_web_server` after its
  SIGKILL (server.c:143; there is no `SA_RESTART`): the child would then be left to
  the SIGCHLD handler or to init.
- The library threads after the synchronisation objects are destroyed: between
  that and the return of `main` a counting thread in its last round may still
  lock `state_mutex` (device_control.c:13). `DestroyedAfterJoins` does not cover it;
  `CleanupStopsCounting` says what the code does guarantee.

`Lifecycle` and `Server` meet at the label `serving` and are not composed in one
specification: what they share are `server_running` and the join of the device
thread, and the product is beyond what TLC can enumerate.
