----------------------------- MODULE CardMirror -----------------------------
(***************************************************************************)
(* What the host's picture of the SD card promises, without commands,      *)
(* responses or a slot: the card's two flags change one at a time, a file  *)
(* that is closed stops being written first, and the host sees every one   *)
(* of these states, in order, some time later.  The promise ends when the  *)
(* first news is lost.                                                     *)
(***************************************************************************)
EXTENDS Sequences

VARIABLES state,   \* the card's flags
          seen,    \* the flags the host shows
          ahead,   \* what the host will show next, one after the other
          broken   \* some news has been lost

mirrorVars == <<state, seen, ahead, broken>>

Off == [open |-> FALSE, writing |-> FALSE]

Init == state = Off /\ seen = Off /\ ahead = <<>> /\ broken = FALSE

Tell(news) == UNCHANGED <<seen, broken>> /\ ahead' = ahead \o news

Open == /\ ~state.open
        /\ state' = [state EXCEPT !.open = TRUE]
        /\ Tell(<<state'>>)
SetWriting == /\ state' = [state EXCEPT !.writing = ~@]
              /\ Tell(<<state'>>)
Close == /\ state.open /\ state' = Off
         /\ Tell(<<[state EXCEPT !.writing = FALSE], Off>>)
\* A command that changed nothing is answered all the same.
Confirm == UNCHANGED state /\ Tell(<<state>>)

See == /\ UNCHANGED <<state, broken>>
       /\ ahead # <<>> /\ seen' = Head(ahead) /\ ahead' = Tail(ahead)

\* From here on anything may happen.
Break == broken'

Next == Break \/ Open \/ SetWriting \/ Close \/ Confirm \/ See

Spec == Init /\ [][Next]_mirrorVars
=============================================================================
