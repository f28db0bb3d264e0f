----------------------------- MODULE MusicPlayer -----------------------------
(***************************************************************************)
(* What the buzzer library promises, without threads, flags and mutex: one *)
(* song at a time, which ends of itself or after a stop; a stop holds for  *)
(* the song that plays and for no other; after it at most one more note is *)
(* heard, and a song that is over leaves no tone behind.                   *)
(***************************************************************************)
VARIABLES
  song, \* "stopping": one more note may come; "ending": none does
  tone  \* whether a tone sounds

vars == <<song, tone>>

Init == song = "none" /\ tone = FALSE

Play ==
  /\ song = "none"
  /\ song' = "playing"
  /\ UNCHANGED tone

\* A note or a rest.
Sound ==
  /\ song = "playing"
  /\ tone' \in BOOLEAN
  /\ UNCHANGED song

Stop ==
  /\ song = "playing"
  /\ song' \in {"stopping", "ending"}
  /\ UNCHANGED tone

\* The note or rest that was due when the stop came.
LastNote ==
  /\ song = "stopping"
  /\ song' = "ending"
  /\ tone' \in BOOLEAN

Hush ==
  /\ tone' = FALSE
  /\ UNCHANGED song

\* A song ends in silence, and not while a note is due.
End ==
  /\ song \in {"playing", "ending"}
  /\ ~tone
  /\ song' = "none"
  /\ UNCHANGED tone

Next == Play \/ Sound \/ Stop \/ LastNote \/ Hush \/ End

Spec == Init /\ [][Next]_vars
=============================================================================
