---------------------------- MODULE SevenSegment ----------------------------
(***************************************************************************)
(* lib7segment (7segment.c): the static variables of the library, its      *)
(* counting threads and the operations its callers use.  A section under   *)
(* counting_mutex is one step.                                             *)
(***************************************************************************)
EXTENDS Integers

CONSTANTS
  Counter, \* bound: the counting threads that can be alive at a time
  Seconds  \* the start values clients ask for

ASSUME SecondsAssumption == Seconds \subseteq 1 .. 9

VARIABLES
  is_initialized,
  is_counting, \* guarded by counting_mutex
  display,     \* the digit on the display
  counter,     \* where each counting thread is; "none": not started or ended
  remaining    \* the loop variable of each counting thread

segVars == <<is_initialized, is_counting, display, counter, remaining>>

\* The last three are places in the completion callback.
CounterLabels == {"none", "head", "show", "sleep", "finish",
                  "callback", "ring", "ringing"}

\* The thread is in its loop, so it will show another digit if it may.
Counting(c) == counter[c] \in {"head", "show", "sleep"}

\* The state seg7_init leaves.
SegInit ==
  /\ is_initialized = TRUE
  /\ is_counting = FALSE
  /\ display = 0
  /\ counter = [c \in Counter |-> "none"]
  /\ remaining = [c \in Counter |-> 0]

CounterGoto(c, label) == counter' = [counter EXCEPT ![c] = label]

-----------------------------------------------------------------------------
(***************************************************************************)
(* counting_thread_func up to the callback                                 *)
(***************************************************************************)

\* The head of the loop: go on only while is_counting.
CounterHead(c) ==
  /\ counter[c] = "head"
  /\ IF is_counting
     THEN CounterGoto(c, "show") /\ UNCHANGED remaining
     ELSE CounterGoto(c, "none") /\ remaining' = [remaining EXCEPT ![c] = 0]
  /\ UNCHANGED <<is_initialized, is_counting, display>>

\* Mutant of CounterShow: the loop runs one round too far.
CounterShow_TooFar(c) ==
  /\ counter[c] = "show"
  /\ display' = remaining[c]
  /\ CounterGoto(c, IF remaining[c] >= 0 THEN "sleep" ELSE "finish")
  /\ UNCHANGED <<is_initialized, is_counting, remaining>>

CounterShow(c) ==
  /\ counter[c] = "show"
  /\ display' = remaining[c]
  /\ CounterGoto(c, IF remaining[c] > 0 THEN "sleep" ELSE "finish")
  /\ UNCHANGED <<is_initialized, is_counting, remaining>>

\* The end of the sleep of a second.
CounterSleep(c) ==
  /\ counter[c] = "sleep"
  /\ remaining' = [remaining EXCEPT ![c] = @ - 1]
  /\ CounterGoto(c, "head")
  /\ UNCHANGED <<is_initialized, is_counting, display>>

CounterFinish(c) ==
  /\ counter[c] = "finish"
  /\ is_counting' = FALSE
  /\ CounterGoto(c, "callback")
  /\ UNCHANGED <<is_initialized, display, remaining>>

CounterStep(c) ==
  CounterHead(c) \/ CounterShow(c) \/ CounterSleep(c) \/ CounterFinish(c)

-----------------------------------------------------------------------------
(***************************************************************************)
(* The operations                                                          *)
(***************************************************************************)

\* seg7_counting, first section: claim the display.
ClaimCounting ==
  /\ is_initialized /\ ~is_counting
  /\ is_counting' = TRUE
  /\ UNCHANGED <<is_initialized, display, counter, remaining>>

\* seg7_counting, after the unlock: create the counting thread.  The seconds
\* the client asked for have passed through unchanged.
StartCounting ==
  /\ \E c \in Counter :
       /\ counter[c] = "none"
       /\ CounterGoto(c, "head")
       /\ \E n \in Seconds : remaining' = [remaining EXCEPT ![c] = n]
  /\ UNCHANGED <<is_initialized, is_counting, display>>

\* The section of seg7_stop_counting, and of seg7_counting when malloc or
\* pthread_create fails.
ClearCounting ==
  /\ is_counting' = FALSE
  /\ UNCHANGED <<is_initialized, display, counter, remaining>>

\* seg7_cleanup after it has stopped the counting.
BlankDisplay ==
  /\ display' = 0
  /\ is_initialized' = FALSE
  /\ UNCHANGED <<is_counting, counter, remaining>>
=============================================================================
