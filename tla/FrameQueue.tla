----------------------------- MODULE FrameQueue -----------------------------
(***************************************************************************)
(* What the two threads of the video player owe each other, without any of *)
(* their steps: a bounded first-in first-out queue of the frames of one    *)
(* file, filled in the order of the file, from which frames are taken or   *)
(* skipped at the front and which may be emptied at any moment.            *)
(***************************************************************************)
EXTENDS Naturals, Sequences

CONSTANTS Frames,      \* pairs of a file and an index in it
          Capacity

VARIABLE queue

Init == queue = <<>>

\* f may stand behind e: the next frame of the file, or the first again.
Follows(e, f) == f[1] = e[1] /\ f[2] \in {e[2] + 1, 0}

Put == /\ Len(queue) < Capacity /\ Len(queue') = Len(queue) + 1
       /\ LET f == queue'[Len(queue')]
          IN  /\ f \in Frames
              /\ queue # <<>> => Follows(queue[Len(queue)], f)
              /\ queue' = Append(queue, f)

\* Skip frames and take one: at least one frame is there to be taken.
Drop == \E k \in 1 .. Len(queue) : queue' = SubSeq(queue, k + 1, Len(queue))

Flush == queue' = <<>>

Next == Put \/ Drop \/ Flush

Spec == Init /\ [][Next]_queue
=============================================================================
