------------------------- MODULE VideoPlayer_proofs -------------------------
(***************************************************************************)
(* Proofs about VideoPlayer, for every set of files, every length, every   *)
(* queue bound and every step of the buttons.                              *)
(***************************************************************************)
EXTENDS VideoPlayer, TLAPS

\* The thread function runs with an open capture.
Capturing == decoder \in {"predicate", "blocking", "blocked", "exchange",
                          "flush", "gate", "push"}

\* From the wait predicate to the push the decode thread relies on the size
\* it has seen.
RoomInv ==
  /\ Len(frameQueue) <= MaxQueue
  /\ decoder \in {"exchange", "flush", "gate", "push"} => Len(frameQueue) < MaxQueue

\* Who may be running while the GUI is inside StopDecodingThread's callers.
ControlInv ==
  /\ gui = "stopped" => decoder = "none"
  /\ gui \in {"stopNotify", "stopJoin", "stopped"} <=>
       after \in {"openVideo", "clearVideo", "leavePage"}
  /\ after = "openVideo" => selectedVideo \in Videos
  /\ decoder # "none" => videoPath \in Videos

\* All frames in reach are of the file that is open.
FileInv ==
  /\ \A i \in 1 .. Len(frameQueue) : frameQueue[i][1] = videoPath
  /\ Capturing => cap.video = videoPath
  /\ decoder = "push" => inHand \in Frame /\ inHand[1] = videoPath
                         /\ cap.pos = inHand[2] + 1
  /\ decoder \in {"none", "opening"} => frameQueue = <<>>
  /\ shown # NoFrame => shown[1] = videoPath

\* The frame that will be pushed next fits behind the queue.
NextIndex == IF decoder = "push" THEN inHand[2] ELSE cap.pos
OrderInv ==
  Capturing /\ decoder # "flush" /\ frameQueue # <<>> =>
    NextIndex \in {frameQueue[Len(frameQueue)][2] + 1, 0}

IInv == TypeOK /\ RoomInv /\ ControlInv /\ FileInv /\ OrderInv

\* The Boolean half of the type invariant, and the rest of it.
FlagsOK ==
  /\ threadRunning \in BOOLEAN /\ isPlaying \in BOOLEAN /\ isLooping \in BOOLEAN
  /\ forceUpdate \in BOOLEAN /\ videoLoaded \in BOOLEAN /\ dialogRunning \in BOOLEAN
DataOK ==
  /\ gui \in GuiPC
  /\ after \in {"none", "openVideo", "clearVideo", "leavePage", "pause", "resume"}
  /\ decoder \in DecoderPC
  /\ cap \in [video : Videos \cup {NoVideo}, pos : Nat]
  /\ inHand \in Frame \cup {NoFrame}
  /\ frameQueue \in Seq(Frame)
  /\ seekTarget \in Nat \cup {NoSeek}
  /\ totalFrames \in Nat
  /\ currentFrameUI \in Nat /\ seekArg \in Nat
  /\ shown \in Frame \cup {NoFrame}
  /\ videoPath \in Videos \cup {NoVideo}
  /\ selectedVideo \in Videos \cup {NoVideo}

\* The two halves make the type invariant, before and after a step.
LEMMA TypePrime == (FlagsOK /\ DataOK)' => TypeOK'
  BY DEF TypeOK, FlagsOK, DataOK

LEMMA TypeSplit == TypeOK <=> FlagsOK /\ DataOK
  BY DEF TypeOK, FlagsOK, DataOK

\* What the front of the queue is made of.
LEMMA HeadTail ==
  ASSUME frameQueue \in Seq(Frame), frameQueue # <<>>
  PROVE  /\ Head(frameQueue) \in Frame /\ Head(frameQueue) = frameQueue[1]
         /\ Head(frameQueue)[1] \in Videos /\ Head(frameQueue)[2] \in Nat
         /\ Tail(frameQueue) \in Seq(Frame)
         /\ Len(Tail(frameQueue)) = Len(frameQueue) - 1
         /\ \A i \in 1 .. Len(frameQueue) - 1 :
              Tail(frameQueue)[i] = frameQueue[i + 1]
<1>1. /\ Head(frameQueue) \in Frame /\ Head(frameQueue) = frameQueue[1]
      /\ Tail(frameQueue) \in Seq(Frame)
      /\ Len(Tail(frameQueue)) = Len(frameQueue) - 1
      /\ \A i \in 1 .. Len(frameQueue) - 1 : Tail(frameQueue)[i] = frameQueue[i + 1]
  OBVIOUS
<1> QED
  BY <1>1 DEF Frame

\* Reading from an open capture yields a frame of its file at its position.
LEMMA ReadFrameEffect ==
  ASSUME IInv, Capturing, ReadFrame
  PROVE  /\ cap' \in [video : Videos \cup {NoVideo}, pos : Nat]
         /\ cap'.video = cap.video
         /\ \/ /\ decoder' = "push" /\ inHand' \in Frame
               /\ inHand' = <<cap.video, cap.pos>> /\ cap'.pos = cap.pos + 1
            \/ /\ decoder' = "predicate" /\ UNCHANGED inHand
               /\ cap'.pos \in {cap.pos, 0}
<1>1. cap \in [video : Videos \cup {NoVideo}, pos : Nat] /\ cap.video \in Videos
  BY DEF IInv, TypeOK, FileInv, ControlInv, Capturing
<1>2. CASE cap.pos < Length[cap.video]
  BY <1>1, <1>2 DEF ReadFrame, Frame
<1>3. CASE ~(cap.pos < Length[cap.video])
  BY <1>1, <1>3 DEF ReadFrame
<1> QED
  BY <1>2, <1>3

\* A timer tick drops k frames at the front and keeps the rest.
LEMMA TimerTickEffect ==
  ASSUME frameQueue \in Seq(Frame), NEW n \in Nat \ {0}, TimerTick(n)
  PROVE  \E k \in 0 .. Len(frameQueue) :
           /\ frameQueue' = SubSeq(frameQueue, k + 1, Len(frameQueue))
           /\ Len(frameQueue') = Len(frameQueue) - k
           /\ frameQueue # <<>> => k < Len(frameQueue)
           /\ \A i \in 1 .. Len(frameQueue) - k : frameQueue'[i] = frameQueue[i + k]
<1> DEFINE len  == Len(frameQueue)
           drop == IF n > 1 /\ len > 0
                   THEN IF len - 1 < n - 1 THEN len - 1 ELSE n - 1
                   ELSE 0
<1>1. len \in Nat /\ drop \in 0 .. len /\ (frameQueue # <<>> => drop < len)
  OBVIOUS
<1>2. frameQueue' = SubSeq(frameQueue, drop + 1, len)
  BY DEF TimerTick
<1>3. /\ Len(SubSeq(frameQueue, drop + 1, len)) = len - drop
      /\ \A i \in 1 .. len - drop : SubSeq(frameQueue, drop + 1, len)[i] = frameQueue[i + drop]
  <2> HIDE DEF drop
  <2> QED
    BY <1>1
<1> HIDE DEF drop
<1> QED
  BY <1>1, <1>2, <1>3

\* What a taken frame leaves behind.
LEMMA TakeEffect ==
  ASSUME frameQueue \in Seq(Frame), frameQueue # <<>>,
         UpdateTexture, gui = "tick" \/ forceUpdate
  PROVE  /\ shown' = frameQueue[1] /\ frameQueue' \in Seq(Frame)
         /\ Len(frameQueue') = Len(frameQueue) - 1
         /\ \A i \in 1 .. Len(frameQueue') : frameQueue'[i] = frameQueue[i + 1]
         /\ decoder' = Notified
         /\ gui \in {"tick", "update"} /\ gui' \in {"controls", "rhs"}
         /\ UNCHANGED <<after, cap, inHand, videoPath, selectedVideo>>
<1>1. shown' = Head(frameQueue) /\ frameQueue' = Tail(frameQueue) /\ decoder' = Notified
  BY DEF UpdateTexture
<1>2. /\ gui \in {"tick", "update"} /\ gui' \in {"controls", "rhs"}
      /\ UNCHANGED <<after, cap, inHand, videoPath, selectedVideo>>
  BY DEF UpdateTexture, dialogVars
<1> QED
  BY <1>1, <1>2, HeadTail

\* Every step keeps the flags Boolean.
LEMMA FlagStep == IInv /\ [Next]_vars => FlagsOK'
<1> SUFFICES ASSUME IInv, [Next]_vars PROVE FlagsOK'
  OBVIOUS
<1> USE TypeSplit DEF IInv, FlagsOK, guiVars, capVars, flagVars, seekVars,
         dialogVars, DecoderLeaves
<1>1. CASE StayOnPage
  BY <1>1 DEF StayOnPage, GuiGoto
<1>2. CASE NoSelection
  BY <1>2 DEF NoSelection, GuiGoto
<1>3. CASE TakeSelection
  BY <1>3 DEF TakeSelection, BeginStop
<1>4. CASE NoTimerTick
  BY <1>4 DEF NoTimerTick, GuiGoto
<1>5. ASSUME NEW n \in 1 .. MaxQueue + 1, TimerTick(n) PROVE FlagsOK'
  BY <1>5 DEF TimerTick
<1>6. CASE UpdateTexture
  BY <1>6 DEF UpdateTexture, Notified
<1>7. CASE NoControl
  BY <1>7 DEF NoControl, GuiGoto
<1>8. CASE EndFrame
  BY <1>8 DEF EndFrame, GuiGoto
<1>9. CASE SeekClear
  BY <1>9 DEF SeekClear
<1>10. CASE SeekSet
  BY <1>10 DEF SeekSet
<1>11. CASE SeekNotify
  BY <1>11 DEF SeekNotify, Notified
<1>12. CASE SeekPause
  BY <1>12 DEF SeekPause
<1>13. CASE StopNotify
  BY <1>13 DEF StopNotify, Notified
<1>14. CASE StopJoin
  BY <1>14 DEF StopJoin
<1>15. CASE OpenVideo
  BY <1>15 DEF OpenVideo
<1>16. CASE ClearVideo
  BY <1>16 DEF ClearVideo
<1>17. CASE NewPage
  BY <1>17 DEF NewPage
<1>18. CASE LeavePage
  BY <1>18 DEF LeavePage, BeginStop
<1>19. CASE PressOpenVideo
  BY <1>19 DEF PressOpenVideo
<1>20. CASE PressClearVideo
  BY <1>20 DEF PressClearVideo, BeginStop
<1>21. CASE TogglePlay
  BY <1>21 DEF TogglePlay
<1>22. CASE ToggleLooping
  BY <1>22 DEF ToggleLooping
<1>23. ASSUME NEW i \in 0 .. totalFrames, SliderSeek(i) PROVE FlagsOK'
  BY <1>23 DEF SliderSeek, BeginSeek, Clamp
<1>24. ASSUME NEW d \in Deltas, StepSeek(d) PROVE FlagsOK'
  BY <1>24 DEF StepSeek, BeginSeek, Clamp
<1>25. CASE SyncSeek
  BY <1>25 DEF SyncSeek, BeginSeek, Clamp
<1>26. CASE OpenCapture
  BY <1>26 DEF OpenCapture
<1>27. CASE EvalPredicate
  BY <1>27 DEF EvalPredicate
<1>28. CASE Block
  BY <1>28 DEF Block, DecoderGoto
<1>29. CASE ExchangeSeek
  BY <1>29 DEF ExchangeSeek
<1>30. CASE FlushAndRead
  BY <1>30 DEF FlushAndRead, ReadFrame
<1>31. CASE ReadWhenPlaying
  BY <1>31 DEF ReadWhenPlaying, ReadFrame
<1>32. CASE PushFrame
  BY <1>32 DEF PushFrame
<1>33. ASSUME NEW choice \in Videos \cup {NoVideo}, DialogReturns(choice) PROVE FlagsOK'
  BY <1>33 DEF DialogReturns
<1>34. CASE SpuriousWakeup
  BY <1>34 DEF SpuriousWakeup, DecoderGoto
<1>35. CASE UNCHANGED vars
  BY <1>35 DEF vars
<1> QED
  BY <1>1, <1>2, <1>3, <1>4, <1>5, <1>6, <1>7, <1>8, <1>9, <1>10,
     <1>11, <1>12, <1>13, <1>14, <1>15, <1>16, <1>17, <1>18, <1>19, <1>20,
     <1>21, <1>22, <1>23, <1>24, <1>25, <1>26, <1>27, <1>28, <1>29, <1>30,
     <1>31, <1>32, <1>33, <1>34, <1>35
  DEF Next, GuiProceeds, UserActs, DecoderStep, DialogStep

\* Every step keeps the other variables in their types.
LEMMA DataStep == IInv /\ [Next]_vars => DataOK'
<1> SUFFICES ASSUME IInv, [Next]_vars PROVE DataOK'
  OBVIOUS
<1> USE TypeSplit, VideoAssumption DEF IInv, DataOK, GuiPC, DecoderPC, Frame,
         NoSeek, NoCap, guiVars, capVars, flagVars, seekVars, dialogVars,
         DecoderLeaves
<1>1. CASE StayOnPage
  BY <1>1 DEF StayOnPage, GuiGoto
<1>2. CASE NoSelection
  BY <1>2 DEF NoSelection, GuiGoto
<1>3. CASE TakeSelection
  BY <1>3 DEF TakeSelection, BeginStop
<1>4. CASE NoTimerTick
  BY <1>4 DEF NoTimerTick, GuiGoto
<1>5. ASSUME NEW n \in 1 .. MaxQueue + 1, TimerTick(n) PROVE DataOK'
  BY <1>5 DEF TimerTick
<1>6. CASE UpdateTexture
  <2>1. CASE (gui = "tick" \/ forceUpdate) /\ frameQueue # <<>>
    BY <1>6, <2>1, HeadTail DEF UpdateTexture, Notified
  <2>2. CASE ~((gui = "tick" \/ forceUpdate) /\ frameQueue # <<>>)
    BY <1>6, <2>2 DEF UpdateTexture
  <2> QED
    BY <2>1, <2>2
<1>7. CASE NoControl
  BY <1>7 DEF NoControl, GuiGoto
<1>8. CASE EndFrame
  BY <1>8 DEF EndFrame, GuiGoto
<1>9. CASE SeekClear
  BY <1>9 DEF SeekClear
<1>10. CASE SeekSet
  BY <1>10 DEF SeekSet
<1>11. CASE SeekNotify
  BY <1>11 DEF SeekNotify, Notified
<1>12. CASE SeekPause
  BY <1>12 DEF SeekPause
<1>13. CASE StopNotify
  BY <1>13 DEF StopNotify, Notified
<1>14. CASE StopJoin
  BY <1>14 DEF StopJoin
<1>15. CASE OpenVideo
  BY <1>15 DEF OpenVideo
<1>16. CASE ClearVideo
  BY <1>16 DEF ClearVideo
<1>17. CASE NewPage
  BY <1>17 DEF NewPage
<1>18. CASE LeavePage
  BY <1>18 DEF LeavePage, BeginStop
<1>19. CASE PressOpenVideo
  BY <1>19 DEF PressOpenVideo
<1>20. CASE PressClearVideo
  BY <1>20 DEF PressClearVideo, BeginStop
<1>21. CASE TogglePlay
  BY <1>21 DEF TogglePlay
<1>22. CASE ToggleLooping
  BY <1>22 DEF ToggleLooping
<1>23. ASSUME NEW i \in 0 .. totalFrames, SliderSeek(i) PROVE DataOK'
  BY <1>23 DEF SliderSeek, BeginSeek, Clamp
<1>24. ASSUME NEW d \in Deltas, StepSeek(d) PROVE DataOK'
  BY <1>24 DEF StepSeek, BeginSeek, Clamp
<1>25. CASE SyncSeek
  BY <1>25 DEF SyncSeek, BeginSeek, Clamp
<1>26. CASE OpenCapture
  <2>1. videoPath \in Videos /\ Length[videoPath] \in Nat
    BY <1>26 DEF OpenCapture, ControlInv
  <2> QED
    BY <1>26, <2>1 DEF OpenCapture
<1>27. CASE EvalPredicate
  BY <1>27 DEF EvalPredicate
<1>28. CASE Block
  BY <1>28 DEF Block, DecoderGoto
<1>29. CASE ExchangeSeek
  BY <1>29 DEF ExchangeSeek
<1>30. CASE FlushAndRead
  <2>1. Capturing
    BY <1>30 DEF FlushAndRead, Capturing
  <2>2. ReadFrame
    BY <1>30 DEF FlushAndRead
  <2>3. cap' \in [video : Videos \cup {NoVideo}, pos : Nat] /\ decoder' \in {"push", "predicate"}
        /\ inHand' \in Frame \cup {NoFrame}
    BY <2>1, <2>2, ReadFrameEffect
  <2> QED
    BY <1>30, <2>3 DEF FlushAndRead
<1>31. CASE ReadWhenPlaying
  <2>1. Capturing
    BY <1>31 DEF ReadWhenPlaying, Capturing
  <2>2. cap' \in [video : Videos \cup {NoVideo}, pos : Nat] /\ decoder' \in {"push", "predicate"}
        /\ inHand' \in Frame \cup {NoFrame}
    <3>1. CASE isPlaying
      BY <1>31, <2>1, <3>1, ReadFrameEffect DEF ReadWhenPlaying
    <3>2. CASE ~isPlaying
      BY <1>31, <3>2 DEF ReadWhenPlaying
    <3> QED
      BY <3>1, <3>2
  <2> QED
    BY <1>31, <2>2 DEF ReadWhenPlaying
<1>32. CASE PushFrame
  <2>1. Append(frameQueue, inHand) \in Seq(Frame)
    BY <1>32 DEF PushFrame, FileInv
  <2> QED
    BY <1>32, <2>1 DEF PushFrame
<1>33. ASSUME NEW choice \in Videos \cup {NoVideo}, DialogReturns(choice) PROVE DataOK'
  BY <1>33 DEF DialogReturns
<1>34. CASE SpuriousWakeup
  BY <1>34 DEF SpuriousWakeup, DecoderGoto
<1>35. CASE UNCHANGED vars
  BY <1>35 DEF vars
<1> QED
  BY <1>1, <1>2, <1>3, <1>4, <1>5, <1>6, <1>7, <1>8, <1>9, <1>10,
     <1>11, <1>12, <1>13, <1>14, <1>15, <1>16, <1>17, <1>18, <1>19, <1>20,
     <1>21, <1>22, <1>23, <1>24, <1>25, <1>26, <1>27, <1>28, <1>29, <1>30,
     <1>31, <1>32, <1>33, <1>34, <1>35
  DEF Next, GuiProceeds, UserActs, DecoderStep, DialogStep

\* The bound: between the wait predicate and the push nobody else appends.
LEMMA RoomStep == IInv /\ [Next]_vars => RoomInv'
<1> SUFFICES ASSUME IInv, [Next]_vars PROVE RoomInv'
  OBVIOUS
<1> USE VideoAssumption DEF IInv, TypeOK, RoomInv, guiVars, capVars, flagVars,
         seekVars, dialogVars, DecoderLeaves
<1>1. CASE StayOnPage
  BY <1>1 DEF StayOnPage, GuiGoto
<1>2. CASE NoSelection
  BY <1>2 DEF NoSelection, GuiGoto
<1>3. CASE TakeSelection
  BY <1>3 DEF TakeSelection, BeginStop
<1>4. CASE NoTimerTick
  BY <1>4 DEF NoTimerTick, GuiGoto
<1>5. ASSUME NEW n \in 1 .. MaxQueue + 1, TimerTick(n) PROVE RoomInv'
  <2>1. PICK k \in 0 .. Len(frameQueue) :
           /\ frameQueue' = SubSeq(frameQueue, k + 1, Len(frameQueue))
           /\ Len(frameQueue') = Len(frameQueue) - k
           /\ frameQueue # <<>> => k < Len(frameQueue)
           /\ \A i \in 1 .. Len(frameQueue) - k : frameQueue'[i] = frameQueue[i + k]
    <3>1. frameQueue \in Seq(Frame) /\ n \in Nat \ {0}
      OBVIOUS
    <3> QED
      BY ONLY <1>5, <3>1, TimerTickEffect
  <2>2. /\ gui = "lhs" /\ gui' = "tick"
        /\ UNCHANGED <<after, decoder, cap, inHand, shown, videoPath, selectedVideo>>
    BY <1>5 DEF TimerTick
  <2> QED
    BY <2>1, <2>2
<1>6. CASE UpdateTexture
  <2>1. CASE (gui = "tick" \/ forceUpdate) /\ frameQueue # <<>>
    BY <1>6, <2>1, TakeEffect DEF Notified
  <2>2. CASE ~((gui = "tick" \/ forceUpdate) /\ frameQueue # <<>>)
    BY <1>6, <2>2 DEF UpdateTexture
  <2> QED
    BY <2>1, <2>2
<1>7. CASE NoControl
  BY <1>7 DEF NoControl, GuiGoto
<1>8. CASE EndFrame
  BY <1>8 DEF EndFrame, GuiGoto
<1>9. CASE SeekClear
  BY <1>9 DEF SeekClear
<1>10. CASE SeekSet
  BY <1>10 DEF SeekSet
<1>11. CASE SeekNotify
  BY <1>11 DEF SeekNotify, Notified
<1>12. CASE SeekPause
  BY <1>12 DEF SeekPause
<1>13. CASE StopNotify
  BY <1>13 DEF StopNotify, Notified
<1>14. CASE StopJoin
  BY <1>14 DEF StopJoin
<1>15. CASE OpenVideo
  BY <1>15 DEF OpenVideo
<1>16. CASE ClearVideo
  BY <1>16 DEF ClearVideo
<1>17. CASE NewPage
  BY <1>17 DEF NewPage
<1>18. CASE LeavePage
  BY <1>18 DEF LeavePage, BeginStop
<1>19. CASE PressOpenVideo
  BY <1>19 DEF PressOpenVideo
<1>20. CASE PressClearVideo
  BY <1>20 DEF PressClearVideo, BeginStop
<1>21. CASE TogglePlay
  BY <1>21 DEF TogglePlay
<1>22. CASE ToggleLooping
  BY <1>22 DEF ToggleLooping
<1>23. ASSUME NEW i \in 0 .. totalFrames, SliderSeek(i) PROVE RoomInv'
  BY <1>23 DEF SliderSeek, BeginSeek, Clamp
<1>24. ASSUME NEW d \in Deltas, StepSeek(d) PROVE RoomInv'
  BY <1>24 DEF StepSeek, BeginSeek, Clamp
<1>25. CASE SyncSeek
  BY <1>25 DEF SyncSeek, BeginSeek, Clamp
<1>26. CASE OpenCapture
  BY <1>26 DEF OpenCapture, FileInv
<1>27. CASE EvalPredicate
  BY <1>27 DEF EvalPredicate
<1>28. CASE Block
  BY <1>28 DEF Block, DecoderGoto
<1>29. CASE ExchangeSeek
  BY <1>29 DEF ExchangeSeek
<1>30. CASE FlushAndRead
  BY <1>30, ReadFrameEffect DEF FlushAndRead, ReadFrame, Capturing
<1>31. CASE ReadWhenPlaying
  BY <1>31, ReadFrameEffect DEF ReadWhenPlaying, ReadFrame, Capturing
<1>32. CASE PushFrame
  BY <1>32 DEF PushFrame
<1>33. ASSUME NEW choice \in Videos \cup {NoVideo}, DialogReturns(choice) PROVE RoomInv'
  BY <1>33 DEF DialogReturns
<1>34. CASE SpuriousWakeup
  BY <1>34 DEF SpuriousWakeup, DecoderGoto
<1>35. CASE UNCHANGED vars
  BY <1>35 DEF vars
<1> QED
  BY <1>1, <1>2, <1>3, <1>4, <1>5, <1>6, <1>7, <1>8, <1>9, <1>10,
     <1>11, <1>12, <1>13, <1>14, <1>15, <1>16, <1>17, <1>18, <1>19, <1>20,
     <1>21, <1>22, <1>23, <1>24, <1>25, <1>26, <1>27, <1>28, <1>29, <1>30,
     <1>31, <1>32, <1>33, <1>34, <1>35
  DEF Next, GuiProceeds, UserActs, DecoderStep, DialogStep

\* A thread is gone before the GUI goes on after join().
LEMMA ControlStep == IInv /\ [Next]_vars => ControlInv'
<1> SUFFICES ASSUME IInv, [Next]_vars PROVE ControlInv'
  OBVIOUS
<1> USE VideoAssumption DEF IInv, TypeOK, ControlInv, guiVars, capVars,
         flagVars, seekVars, dialogVars, DecoderLeaves
<1>1. CASE StayOnPage
  BY <1>1 DEF StayOnPage, GuiGoto
<1>2. CASE NoSelection
  BY <1>2 DEF NoSelection, GuiGoto
<1>3. CASE TakeSelection
  BY <1>3 DEF TakeSelection, BeginStop
<1>4. CASE NoTimerTick
  BY <1>4 DEF NoTimerTick, GuiGoto
<1>5. ASSUME NEW n \in 1 .. MaxQueue + 1, TimerTick(n) PROVE ControlInv'
  BY <1>5 DEF TimerTick
<1>6. CASE UpdateTexture
  BY <1>6 DEF UpdateTexture, Notified
<1>7. CASE NoControl
  BY <1>7 DEF NoControl, GuiGoto
<1>8. CASE EndFrame
  BY <1>8 DEF EndFrame, GuiGoto
<1>9. CASE SeekClear
  BY <1>9 DEF SeekClear
<1>10. CASE SeekSet
  BY <1>10 DEF SeekSet
<1>11. CASE SeekNotify
  BY <1>11 DEF SeekNotify, Notified
<1>12. CASE SeekPause
  BY <1>12 DEF SeekPause
<1>13. CASE StopNotify
  BY <1>13 DEF StopNotify, Notified
<1>14. CASE StopJoin
  BY <1>14 DEF StopJoin
<1>15. CASE OpenVideo
  BY <1>15 DEF OpenVideo
<1>16. CASE ClearVideo
  BY <1>16 DEF ClearVideo
<1>17. CASE NewPage
  BY <1>17 DEF NewPage
<1>18. CASE LeavePage
  BY <1>18 DEF LeavePage, BeginStop
<1>19. CASE PressOpenVideo
  BY <1>19 DEF PressOpenVideo
<1>20. CASE PressClearVideo
  BY <1>20 DEF PressClearVideo, BeginStop
<1>21. CASE TogglePlay
  BY <1>21 DEF TogglePlay
<1>22. CASE ToggleLooping
  BY <1>22 DEF ToggleLooping
<1>23. ASSUME NEW i \in 0 .. totalFrames, SliderSeek(i) PROVE ControlInv'
  BY <1>23 DEF SliderSeek, BeginSeek, Clamp
<1>24. ASSUME NEW d \in Deltas, StepSeek(d) PROVE ControlInv'
  BY <1>24 DEF StepSeek, BeginSeek, Clamp
<1>25. CASE SyncSeek
  BY <1>25 DEF SyncSeek, BeginSeek, Clamp
<1>26. CASE OpenCapture
  BY <1>26 DEF OpenCapture
<1>27. CASE EvalPredicate
  BY <1>27 DEF EvalPredicate
<1>28. CASE Block
  BY <1>28 DEF Block, DecoderGoto
<1>29. CASE ExchangeSeek
  BY <1>29 DEF ExchangeSeek
<1>30. CASE FlushAndRead
  BY <1>30 DEF FlushAndRead, ReadFrame, VideoPathLocked
<1>31. CASE ReadWhenPlaying
  BY <1>31 DEF ReadWhenPlaying, ReadFrame
<1>32. CASE PushFrame
  BY <1>32 DEF PushFrame
<1>33. ASSUME NEW choice \in Videos \cup {NoVideo}, DialogReturns(choice) PROVE ControlInv'
  BY <1>33 DEF DialogReturns, VideoPathLocked
<1>34. CASE SpuriousWakeup
  BY <1>34 DEF SpuriousWakeup, DecoderGoto
<1>35. CASE UNCHANGED vars
  BY <1>35 DEF vars
<1> QED
  BY <1>1, <1>2, <1>3, <1>4, <1>5, <1>6, <1>7, <1>8, <1>9, <1>10,
     <1>11, <1>12, <1>13, <1>14, <1>15, <1>16, <1>17, <1>18, <1>19, <1>20,
     <1>21, <1>22, <1>23, <1>24, <1>25, <1>26, <1>27, <1>28, <1>29, <1>30,
     <1>31, <1>32, <1>33, <1>34, <1>35
  DEF Next, GuiProceeds, UserActs, DecoderStep, DialogStep

\* Queue, capture and texture change files together, with no thread alive.
LEMMA FileStep == IInv /\ [Next]_vars => FileInv'
<1> SUFFICES ASSUME IInv, [Next]_vars PROVE FileInv'
  OBVIOUS
<1> USE VideoAssumption DEF IInv, TypeOK, ControlInv, FileInv, Capturing,
         guiVars, capVars, flagVars, seekVars, dialogVars, DecoderLeaves
<1>1. CASE StayOnPage
  BY <1>1 DEF StayOnPage, GuiGoto
<1>2. CASE NoSelection
  BY <1>2 DEF NoSelection, GuiGoto
<1>3. CASE TakeSelection
  BY <1>3 DEF TakeSelection, BeginStop
<1>4. CASE NoTimerTick
  BY <1>4 DEF NoTimerTick, GuiGoto
<1>5. ASSUME NEW n \in 1 .. MaxQueue + 1, TimerTick(n) PROVE FileInv'
  <2>1. PICK k \in 0 .. Len(frameQueue) :
           /\ frameQueue' = SubSeq(frameQueue, k + 1, Len(frameQueue))
           /\ Len(frameQueue') = Len(frameQueue) - k
           /\ frameQueue # <<>> => k < Len(frameQueue)
           /\ \A i \in 1 .. Len(frameQueue) - k : frameQueue'[i] = frameQueue[i + k]
    <3>1. frameQueue \in Seq(Frame) /\ n \in Nat \ {0}
      OBVIOUS
    <3> QED
      BY ONLY <1>5, <3>1, TimerTickEffect
  <2>2. /\ gui = "lhs" /\ gui' = "tick"
        /\ UNCHANGED <<after, decoder, cap, inHand, shown, videoPath, selectedVideo>>
    BY <1>5 DEF TimerTick
  <2> QED
    BY <2>1, <2>2
<1>6. CASE UpdateTexture
  <2>1. CASE (gui = "tick" \/ forceUpdate) /\ frameQueue # <<>>
    <3>1. /\ shown' = frameQueue[1] /\ Len(frameQueue') = Len(frameQueue) - 1
          /\ Len(frameQueue) \in Nat \ {0}
          /\ \A i \in 1 .. Len(frameQueue') : frameQueue'[i] = frameQueue[i + 1]
      BY <1>6, <2>1, TakeEffect
    <3>2. /\ decoder' = Notified
          /\ gui \in {"tick", "update"} /\ gui' \in {"controls", "rhs"}
          /\ UNCHANGED <<after, cap, inHand, videoPath, selectedVideo>>
      BY <1>6, <2>1, TakeEffect
    <3>3. shown'[1] = videoPath /\ \A i \in 1 .. Len(frameQueue') : frameQueue'[i][1] = videoPath
      BY <3>1
    <3>4. decoder' \in {"none", "opening"} => FALSE
      BY <2>1, <3>2 DEF Notified
    <3> QED
      BY <3>2, <3>3, <3>4 DEF Notified
  <2>2. CASE ~((gui = "tick" \/ forceUpdate) /\ frameQueue # <<>>)
    BY <1>6, <2>2 DEF UpdateTexture
  <2> QED
    BY <2>1, <2>2
<1>7. CASE NoControl
  BY <1>7 DEF NoControl, GuiGoto
<1>8. CASE EndFrame
  BY <1>8 DEF EndFrame, GuiGoto
<1>9. CASE SeekClear
  BY <1>9 DEF SeekClear
<1>10. CASE SeekSet
  BY <1>10 DEF SeekSet
<1>11. CASE SeekNotify
  BY <1>11 DEF SeekNotify, Notified
<1>12. CASE SeekPause
  BY <1>12 DEF SeekPause
<1>13. CASE StopNotify
  BY <1>13 DEF StopNotify, Notified
<1>14. CASE StopJoin
  BY <1>14 DEF StopJoin
<1>15. CASE OpenVideo
  BY <1>15 DEF OpenVideo
<1>16. CASE ClearVideo
  BY <1>16 DEF ClearVideo
<1>17. CASE NewPage
  BY <1>17 DEF NewPage, NoCap
<1>18. CASE LeavePage
  BY <1>18 DEF LeavePage, BeginStop
<1>19. CASE PressOpenVideo
  BY <1>19 DEF PressOpenVideo
<1>20. CASE PressClearVideo
  BY <1>20 DEF PressClearVideo, BeginStop
<1>21. CASE TogglePlay
  BY <1>21 DEF TogglePlay
<1>22. CASE ToggleLooping
  BY <1>22 DEF ToggleLooping
<1>23. ASSUME NEW i \in 0 .. totalFrames, SliderSeek(i) PROVE FileInv'
  BY <1>23 DEF SliderSeek, BeginSeek, Clamp
<1>24. ASSUME NEW d \in Deltas, StepSeek(d) PROVE FileInv'
  BY <1>24 DEF StepSeek, BeginSeek, Clamp
<1>25. CASE SyncSeek
  BY <1>25 DEF SyncSeek, BeginSeek, Clamp
<1>26. CASE OpenCapture
  BY <1>26 DEF OpenCapture
<1>27. CASE EvalPredicate
  BY <1>27 DEF EvalPredicate
<1>28. CASE Block
  BY <1>28 DEF Block, DecoderGoto
<1>29. CASE ExchangeSeek
  BY <1>29 DEF ExchangeSeek
<1>30. CASE FlushAndRead
  BY <1>30, ReadFrameEffect DEF FlushAndRead, ReadFrame
<1>31. CASE ReadWhenPlaying
  BY <1>31, ReadFrameEffect DEF ReadWhenPlaying, ReadFrame
<1>32. CASE PushFrame
  BY <1>32 DEF PushFrame
<1>33. ASSUME NEW choice \in Videos \cup {NoVideo}, DialogReturns(choice) PROVE FileInv'
  BY <1>33 DEF DialogReturns
<1>34. CASE SpuriousWakeup
  BY <1>34 DEF SpuriousWakeup, DecoderGoto
<1>35. CASE UNCHANGED vars
  BY <1>35 DEF vars
<1> QED
  BY <1>1, <1>2, <1>3, <1>4, <1>5, <1>6, <1>7, <1>8, <1>9, <1>10,
     <1>11, <1>12, <1>13, <1>14, <1>15, <1>16, <1>17, <1>18, <1>19, <1>20,
     <1>21, <1>22, <1>23, <1>24, <1>25, <1>26, <1>27, <1>28, <1>29, <1>30,
     <1>31, <1>32, <1>33, <1>34, <1>35
  DEF Next, GuiProceeds, UserActs, DecoderStep, DialogStep

\* A seek moves the capture first and empties the queue before it reads on.
LEMMA OrderStep == IInv /\ [Next]_vars => OrderInv'
<1> SUFFICES ASSUME IInv, [Next]_vars PROVE OrderInv'
  OBVIOUS
<1> USE VideoAssumption DEF IInv, TypeOK, ControlInv, FileInv, OrderInv,
         NextIndex, Capturing, guiVars, capVars, flagVars, seekVars,
         dialogVars, DecoderLeaves
<1>1. CASE StayOnPage
  BY <1>1 DEF StayOnPage, GuiGoto
<1>2. CASE NoSelection
  BY <1>2 DEF NoSelection, GuiGoto
<1>3. CASE TakeSelection
  BY <1>3 DEF TakeSelection, BeginStop
<1>4. CASE NoTimerTick
  BY <1>4 DEF NoTimerTick, GuiGoto
<1>5. ASSUME NEW n \in 1 .. MaxQueue + 1, TimerTick(n) PROVE OrderInv'
  <2>1. PICK k \in 0 .. Len(frameQueue) :
           /\ frameQueue' = SubSeq(frameQueue, k + 1, Len(frameQueue))
           /\ Len(frameQueue') = Len(frameQueue) - k
           /\ frameQueue # <<>> => k < Len(frameQueue)
           /\ \A i \in 1 .. Len(frameQueue) - k : frameQueue'[i] = frameQueue[i + k]
    <3>1. frameQueue \in Seq(Frame) /\ n \in Nat \ {0}
      OBVIOUS
    <3> QED
      BY ONLY <1>5, <3>1, TimerTickEffect
  <2>2. /\ gui = "lhs" /\ gui' = "tick"
        /\ UNCHANGED <<after, decoder, cap, inHand, shown, videoPath, selectedVideo>>
    BY <1>5 DEF TimerTick
  <2> QED
    <3>1. CASE frameQueue = <<>>
      BY <2>1, <2>2, <3>1
    <3>2. CASE frameQueue # <<>>
      <4>1. frameQueue'[Len(frameQueue')] = frameQueue[Len(frameQueue)]
        <5>1. /\ Len(frameQueue) \in Nat /\ k \in Nat /\ k < Len(frameQueue)
              /\ Len(frameQueue') = Len(frameQueue) - k
          BY <2>1, <3>2
        <5>2. \A i \in 1 .. Len(frameQueue) - k : frameQueue'[i] = frameQueue[i + k]
          BY <2>1
        <5> QED
          BY ONLY <5>1, <5>2
      <4> QED
        BY <2>2, <3>2, <4>1
    <3> QED
      BY <3>1, <3>2
<1>6. CASE UpdateTexture
  <2>1. CASE (gui = "tick" \/ forceUpdate) /\ frameQueue # <<>>
    BY <1>6, <2>1, TakeEffect DEF Notified
  <2>2. CASE ~((gui = "tick" \/ forceUpdate) /\ frameQueue # <<>>)
    BY <1>6, <2>2 DEF UpdateTexture
  <2> QED
    BY <2>1, <2>2
<1>7. CASE NoControl
  BY <1>7 DEF NoControl, GuiGoto
<1>8. CASE EndFrame
  BY <1>8 DEF EndFrame, GuiGoto
<1>9. CASE SeekClear
  BY <1>9 DEF SeekClear
<1>10. CASE SeekSet
  BY <1>10 DEF SeekSet
<1>11. CASE SeekNotify
  BY <1>11 DEF SeekNotify, Notified
<1>12. CASE SeekPause
  BY <1>12 DEF SeekPause
<1>13. CASE StopNotify
  BY <1>13 DEF StopNotify, Notified
<1>14. CASE StopJoin
  BY <1>14 DEF StopJoin
<1>15. CASE OpenVideo
  BY <1>15 DEF OpenVideo
<1>16. CASE ClearVideo
  BY <1>16 DEF ClearVideo
<1>17. CASE NewPage
  BY <1>17 DEF NewPage
<1>18. CASE LeavePage
  BY <1>18 DEF LeavePage, BeginStop
<1>19. CASE PressOpenVideo
  BY <1>19 DEF PressOpenVideo
<1>20. CASE PressClearVideo
  BY <1>20 DEF PressClearVideo, BeginStop
<1>21. CASE TogglePlay
  BY <1>21 DEF TogglePlay
<1>22. CASE ToggleLooping
  BY <1>22 DEF ToggleLooping
<1>23. ASSUME NEW i \in 0 .. totalFrames, SliderSeek(i) PROVE OrderInv'
  BY <1>23 DEF SliderSeek, BeginSeek, Clamp
<1>24. ASSUME NEW d \in Deltas, StepSeek(d) PROVE OrderInv'
  BY <1>24 DEF StepSeek, BeginSeek, Clamp
<1>25. CASE SyncSeek
  BY <1>25 DEF SyncSeek, BeginSeek, Clamp
<1>26. CASE OpenCapture
  BY <1>26 DEF OpenCapture
<1>27. CASE EvalPredicate
  BY <1>27 DEF EvalPredicate
<1>28. CASE Block
  BY <1>28 DEF Block, DecoderGoto
<1>29. CASE ExchangeSeek
  BY <1>29 DEF ExchangeSeek
<1>30. CASE FlushAndRead
  BY <1>30, ReadFrameEffect DEF FlushAndRead, ReadFrame
<1>31. CASE ReadWhenPlaying
  BY <1>31, ReadFrameEffect DEF ReadWhenPlaying, ReadFrame
<1>32. CASE PushFrame
  BY <1>32 DEF PushFrame
<1>33. ASSUME NEW choice \in Videos \cup {NoVideo}, DialogReturns(choice) PROVE OrderInv'
  BY <1>33 DEF DialogReturns
<1>34. CASE SpuriousWakeup
  BY <1>34 DEF SpuriousWakeup, DecoderGoto
<1>35. CASE UNCHANGED vars
  BY <1>35 DEF vars
<1> QED
  BY <1>1, <1>2, <1>3, <1>4, <1>5, <1>6, <1>7, <1>8, <1>9, <1>10,
     <1>11, <1>12, <1>13, <1>14, <1>15, <1>16, <1>17, <1>18, <1>19, <1>20,
     <1>21, <1>22, <1>23, <1>24, <1>25, <1>26, <1>27, <1>28, <1>29, <1>30,
     <1>31, <1>32, <1>33, <1>34, <1>35
  DEF Next, GuiProceeds, UserActs, DecoderStep, DialogStep

\* The inductive invariant behind the theorems below.
THEOREM Inductive == Spec => []IInv
<1>1. Init => IInv
  <2> SUFFICES ASSUME Init PROVE IInv
    OBVIOUS
  <2>1. FlagsOK
    BY DEF Init, FlagsOK
  <2>2. DataOK
    BY DEF Init, DataOK, GuiPC, DecoderPC, NoSeek, NoCap
  <2>3. RoomInv
    BY VideoAssumption DEF Init, RoomInv
  <2>4. ControlInv /\ FileInv /\ OrderInv
    BY DEF Init, ControlInv, FileInv, OrderInv, Capturing
  <2> QED
    BY <2>1, <2>2, <2>3, <2>4, TypeSplit DEF IInv
<1>2. IInv /\ [Next]_vars => IInv'
  BY FlagStep, DataStep, RoomStep, ControlStep, FileStep, OrderStep, TypePrime DEF IInv
<1> QED
  BY <1>1, <1>2, PTL DEF Spec

\* Every state of the player is one its declarations allow.
THEOREM TypeCorrect == Spec => []TypeOK
<1>1. IInv => TypeOK
  BY DEF IInv
<1> QED
  BY <1>1, Inductive, PTL

\* The queue never holds more than MAX_QUEUE_SIZE frames, although the size is
\* tested under one lock and the frame is appended under another.
THEOREM QueueStaysBounded == Spec => []QueueBounded
<1>1. IInv => QueueBounded
  BY DEF IInv, RoomInv, QueueBounded
<1> QED
  BY <1>1, Inductive, PTL

\* No frame of an earlier file is queued or on screen.
THEOREM NeverStaleVideo == Spec => []NoStaleVideo
<1>1. IInv => NoStaleVideo
  BY DEF IInv, FileInv, NoStaleVideo
<1> QED
  BY <1>1, Inductive, PTL

\* What the GUI does with the decode thread's own state: nothing but from "stopped",
\* where the thread is gone.
LEMMA ThreadSteps ==
  ASSUME IInv, [Next]_vars
  PROVE  \/ gui = "stopped"
         \/ /\ videoPath' = videoPath /\ (threadRunning' => threadRunning)
            /\ decoder' = "opening" => decoder = "opening"
<1> USE DEF guiVars, capVars, flagVars, seekVars, dialogVars, DecoderLeaves
<1>1. CASE \/ StayOnPage \/ NoSelection \/ NoTimerTick \/ NoControl \/ EndFrame
           \/ TakeSelection \/ LeavePage \/ PressClearVideo
  BY <1>1 DEF StayOnPage, NoSelection, NoTimerTick, NoControl, EndFrame, GuiGoto,
              TakeSelection, LeavePage, PressClearVideo, BeginStop
<1>2. ASSUME NEW n \in 1 .. MaxQueue + 1, TimerTick(n)
      PROVE  UNCHANGED <<decoder, threadRunning, videoPath>>
  BY <1>2 DEF TimerTick
<1>3. CASE UpdateTexture \/ SeekNotify \/ StopNotify
  BY <1>3 DEF UpdateTexture, SeekNotify, StopNotify, Notified
<1>4. CASE \/ SeekClear \/ SeekSet \/ SeekPause \/ PressOpenVideo \/ TogglePlay
           \/ ToggleLooping \/ SyncSeek
  BY <1>4 DEF SeekClear, SeekSet, SeekPause, PressOpenVideo, TogglePlay, ToggleLooping,
              SyncSeek, BeginSeek
<1>5. ASSUME NEW i, SliderSeek(i) \/ StepSeek(i)
      PROVE  UNCHANGED <<decoder, threadRunning, videoPath>>
  BY <1>5 DEF SliderSeek, StepSeek, BeginSeek
<1>6. CASE StopJoin
  BY <1>6 DEF StopJoin
<1>7. CASE OpenVideo \/ ClearVideo \/ NewPage
  BY <1>7 DEF OpenVideo, ClearVideo, NewPage
<1>8. CASE OpenCapture \/ EvalPredicate \/ Block \/ SpuriousWakeup
  BY <1>8 DEF OpenCapture, EvalPredicate, Block, SpuriousWakeup, DecoderGoto
<1>9. CASE ExchangeSeek \/ FlushAndRead \/ ReadWhenPlaying \/ PushFrame
  BY <1>9 DEF ExchangeSeek, FlushAndRead, ReadWhenPlaying, ReadFrame, PushFrame
<1>10. ASSUME NEW choice \in Videos \cup {NoVideo}, DialogReturns(choice)
       PROVE  UNCHANGED <<decoder, threadRunning, videoPath>>
  BY <1>10 DEF DialogReturns
<1>11. CASE UNCHANGED vars
  BY <1>11 DEF vars
<1> QED
  BY <1>1, <1>2, <1>3, <1>4, <1>5, <1>6, <1>7, <1>8, <1>9, <1>10, <1>11
  DEF Next, GuiProceeds, UserActs, DecoderStep, DialogStep

\* StartDecodingThread, ClearVideo and the destructor of the page come after a join,
\* whoever calls them: no decode thread, running or only not yet joined, sees
\* m_DecodeThread assigned, m_ThreadRunning raised again or m_VideoPath changed.
THEOREM NeverTwoDecoders == Spec => OneDecoder
<1>1. IInv /\ [Next]_vars
        => [\/ decoder # "opening" /\ decoder' = "opening"
            \/ ~threadRunning /\ threadRunning'
            \/ videoPath' # videoPath
            \/ gui = "stopped" /\ after = "leavePage"
            => decoder = "none"]_vars
  BY ThreadSteps DEF IInv, ControlInv
<1> QED
  BY <1>1, Inductive, PTL DEF Spec, OneDecoder

\* Seen at the queue, a step is one of FrameQueue or none at all.
LEMMA FeedStep == IInv /\ [Next]_vars => [Feed!Next]_frameQueue
<1> SUFFICES ASSUME IInv, [Next]_vars PROVE [Feed!Next]_frameQueue
  OBVIOUS
<1> USE VideoAssumption DEF IInv, guiVars, capVars, flagVars, seekVars,
         dialogVars, DecoderLeaves
<1>1. CASE StayOnPage
  BY <1>1 DEF StayOnPage, GuiGoto
<1>2. CASE NoSelection
  BY <1>2 DEF NoSelection, GuiGoto
<1>3. CASE TakeSelection
  BY <1>3 DEF TakeSelection, BeginStop
<1>4. CASE NoTimerTick
  BY <1>4 DEF NoTimerTick, GuiGoto
<1>5. ASSUME NEW n \in 1 .. MaxQueue + 1, TimerTick(n) PROVE [Feed!Next]_frameQueue
  <2>1. frameQueue \in Seq(Frame) /\ n \in Nat \ {0}
    BY VideoAssumption DEF TypeOK
  <2>2. PICK k \in 0 .. Len(frameQueue) : frameQueue' = SubSeq(frameQueue, k + 1, Len(frameQueue))
    BY ONLY <1>5, <2>1, TimerTickEffect
  <2>3. CASE k = 0
    <3>1. SubSeq(frameQueue, 1, Len(frameQueue)) = frameQueue
      BY <2>1
    <3> QED
      BY <2>2, <2>3, <3>1
  <2>4. CASE k # 0
    <3>1. k \in 1 .. Len(frameQueue)
      BY <2>1, <2>4
    <3>2. Feed!Drop
      BY <2>2, <3>1 DEF Feed!Drop
    <3> QED
      BY <3>2 DEF Feed!Next
  <2> QED
    BY <2>3, <2>4
<1>6. CASE UpdateTexture
  <2>1. frameQueue \in Seq(Frame)
    BY DEF TypeOK
  <2>2. CASE (gui = "tick" \/ forceUpdate) /\ frameQueue # <<>>
    <3>1. frameQueue' = Tail(frameQueue)
      BY <1>6, <2>2 DEF UpdateTexture
    <3>2. Tail(frameQueue) = SubSeq(frameQueue, 2, Len(frameQueue)) /\ 1 \in 1 .. Len(frameQueue)
      BY <2>1, <2>2
    <3>3. Feed!Drop
      BY <3>1, <3>2 DEF Feed!Drop
    <3> QED
      BY <3>3 DEF Feed!Next
  <2>3. CASE ~((gui = "tick" \/ forceUpdate) /\ frameQueue # <<>>)
    BY <1>6, <2>3 DEF UpdateTexture
  <2> QED
    BY <2>2, <2>3
<1>7. CASE NoControl
  BY <1>7 DEF NoControl, GuiGoto
<1>8. CASE EndFrame
  BY <1>8 DEF EndFrame, GuiGoto
<1>9. CASE SeekClear
  BY <1>9 DEF SeekClear, Feed!Next, Feed!Flush
<1>10. CASE SeekSet
  BY <1>10 DEF SeekSet
<1>11. CASE SeekNotify
  BY <1>11 DEF SeekNotify, Notified
<1>12. CASE SeekPause
  BY <1>12 DEF SeekPause
<1>13. CASE StopNotify
  BY <1>13 DEF StopNotify, Notified
<1>14. CASE StopJoin
  BY <1>14 DEF StopJoin, Feed!Next, Feed!Flush
<1>15. CASE OpenVideo
  BY <1>15 DEF OpenVideo
<1>16. CASE ClearVideo
  BY <1>16 DEF ClearVideo
<1>17. CASE NewPage
  BY <1>17 DEF NewPage
<1>18. CASE LeavePage
  BY <1>18 DEF LeavePage, BeginStop
<1>19. CASE PressOpenVideo
  BY <1>19 DEF PressOpenVideo
<1>20. CASE PressClearVideo
  BY <1>20 DEF PressClearVideo, BeginStop
<1>21. CASE TogglePlay
  BY <1>21 DEF TogglePlay
<1>22. CASE ToggleLooping
  BY <1>22 DEF ToggleLooping
<1>23. ASSUME NEW i \in 0 .. totalFrames, SliderSeek(i) PROVE [Feed!Next]_frameQueue
  BY <1>23 DEF SliderSeek, BeginSeek, Clamp
<1>24. ASSUME NEW d \in Deltas, StepSeek(d) PROVE [Feed!Next]_frameQueue
  BY <1>24 DEF StepSeek, BeginSeek, Clamp
<1>25. CASE SyncSeek
  BY <1>25 DEF SyncSeek, BeginSeek, Clamp
<1>26. CASE OpenCapture
  BY <1>26 DEF OpenCapture
<1>27. CASE EvalPredicate
  BY <1>27 DEF EvalPredicate
<1>28. CASE Block
  BY <1>28 DEF Block, DecoderGoto
<1>29. CASE ExchangeSeek
  BY <1>29 DEF ExchangeSeek
<1>30. CASE FlushAndRead
  BY <1>30 DEF FlushAndRead, Feed!Next, Feed!Flush
<1>31. CASE ReadWhenPlaying
  BY <1>31 DEF ReadWhenPlaying, ReadFrame
<1>32. CASE PushFrame
  <2>1. inHand \in Frame /\ Len(frameQueue) < MaxQueue /\ frameQueue \in Seq(Frame)
    BY <1>32 DEF PushFrame, FileInv, RoomInv, TypeOK
  <2>2. frameQueue' = Append(frameQueue, inHand)
    BY <1>32 DEF PushFrame
  <2>3. frameQueue # <<>> => Feed!Follows(frameQueue[Len(frameQueue)], inHand)
    <3>1. frameQueue # <<>> => Len(frameQueue) \in 1 .. Len(frameQueue)
      BY <2>1
    <3> QED
      BY <1>32, <3>1 DEF PushFrame, FileInv, OrderInv, NextIndex, Capturing, Feed!Follows
  <2>4. Len(frameQueue') = Len(frameQueue) + 1 /\ frameQueue'[Len(frameQueue')] = inHand
    BY <2>1, <2>2
  <2>5. Feed!Put
    BY <2>1, <2>2, <2>3, <2>4 DEF Feed!Put
  <2> QED
    BY <2>5 DEF Feed!Next
<1>33. ASSUME NEW choice \in Videos \cup {NoVideo}, DialogReturns(choice) PROVE [Feed!Next]_frameQueue
  BY <1>33 DEF DialogReturns
<1>34. CASE SpuriousWakeup
  BY <1>34 DEF SpuriousWakeup, DecoderGoto
<1>35. CASE UNCHANGED vars
  BY <1>35 DEF vars
<1> QED
  BY <1>1, <1>2, <1>3, <1>4, <1>5, <1>6, <1>7, <1>8, <1>9, <1>10,
     <1>11, <1>12, <1>13, <1>14, <1>15, <1>16, <1>17, <1>18, <1>19, <1>20,
     <1>21, <1>22, <1>23, <1>24, <1>25, <1>26, <1>27, <1>28, <1>29, <1>30,
     <1>31, <1>32, <1>33, <1>34, <1>35
  DEF Next, GuiProceeds, UserActs, DecoderStep, DialogStep

\* The player implements the bounded queue of FrameQueue.
THEOREM ImplementsFrameQueue == Spec => FeedSpec
<1>1. Init => Feed!Init
  BY DEF Init, Feed!Init
<1> QED
  BY <1>1, FeedStep, Inductive, PTL DEF Spec, FeedSpec, Feed!Spec

----------------------------------------------------------------------------
(* The frame that answers a seek                                            *)

\* The user has asked for a frame, the decode thread has taken the request,
\* and the frame is not on screen yet.
Awaited ==
  /\ forceUpdate /\ seekTarget = NoSeek /\ shown # NoFrame /\ gui # "seekSet"
  /\ currentFrameUI < totalFrames

\* It is in front of the queue or, as long as the queue is empty or about to be
\* emptied, the next to be read.  Before the first frame of a file nothing of
\* it is on screen.
SoughtInv ==
  /\ decoder = "opening" => shown = NoFrame
  /\ Capturing => totalFrames = Length[cap.video]
  /\ forceUpdate /\ seekTarget # NoSeek => seekTarget = currentFrameUI
  /\ Awaited =>
       /\ Capturing /\ (decoder = "flush" \/ frameQueue = <<>>)
            => NextIndex = currentFrameUI
       /\ decoder # "flush" /\ gui # "tick" /\ frameQueue # <<>>
            => frameQueue[1][2] = currentFrameUI

\* Steps that leave the player's data alone.
LEMMA SoughtKept ==
  ASSUME SoughtInv, decoder' \in {decoder, Notified}, gui' = gui \/ gui \notin {"seekSet", "tick"},
         UNCHANGED <<cap, inHand, frameQueue, seekTarget, totalFrames, forceUpdate,
                     currentFrameUI, shown>>
  PROVE  SoughtInv'
<1>1. /\ decoder' = "opening" <=> decoder = "opening"
      /\ decoder' = "flush" <=> decoder = "flush"
      /\ decoder' = "push" <=> decoder = "push"
      /\ Capturing' <=> Capturing
  BY DEF Notified, Capturing
<1>2. NextIndex' = NextIndex
  BY <1>1 DEF NextIndex
<1>3. Awaited' => Awaited /\ (gui' # "tick" => gui # "tick")
  BY DEF Awaited
<1> QED
  BY <1>1, <1>2, <1>3 DEF SoughtInv

\* Steps after which no frame is awaited.
LEMMA NotAwaited ==
  ASSUME SoughtInv, decoder' \in {decoder, Notified} \/ decoder' = "none",
         UNCHANGED <<cap, totalFrames>> \/ decoder' = "none",
         shown' = shown \/ decoder # "opening", ~Awaited',
         \/ UNCHANGED <<forceUpdate, seekTarget, currentFrameUI>>
         \/ ~forceUpdate' \/ seekTarget' = NoSeek \/ seekTarget' = currentFrameUI'
  PROVE  SoughtInv'
<1>1. /\ decoder' = "opening" => decoder = "opening"
      /\ Capturing' => Capturing /\ decoder' # "none"
  BY DEF Notified, Capturing
<1> QED
  BY <1>1 DEF SoughtInv

\* A frame read from the sought position is the sought one.
LEMMA ReadSought ==
  ASSUME IInv, SoughtInv, Capturing, ReadFrame,
         UNCHANGED <<gui, seekTarget, totalFrames, forceUpdate, currentFrameUI, shown>>,
         decoder # "push",
         \/ decoder = "flush" /\ frameQueue' = <<>>
         \/ decoder = "gate" /\ frameQueue' = frameQueue
  PROVE  SoughtInv'
<1>1. cap \in [video : Videos \cup {NoVideo}, pos : Nat] /\ totalFrames = Length[cap.video]
  BY DEF IInv, TypeOK, SoughtInv
<1>2. decoder' \in {"push", "predicate"} /\ cap'.video = cap.video
  BY <1>1 DEF ReadFrame
<1>3. decoder' # "opening" /\ (Capturing' => totalFrames' = Length[cap'.video])
      /\ (forceUpdate' /\ seekTarget' # NoSeek => seekTarget' = currentFrameUI')
  BY <1>1, <1>2 DEF SoughtInv
<1>4. ASSUME Awaited'
      PROVE  /\ frameQueue' = <<>> => NextIndex' = currentFrameUI'
             /\ gui' # "tick" /\ frameQueue' # <<>> => frameQueue'[1][2] = currentFrameUI'
             /\ decoder' # "flush"
  <2>1. Awaited /\ currentFrameUI < totalFrames
    BY <1>4 DEF Awaited
  <2>2. CASE frameQueue' = <<>>
    <3>1. NextIndex = currentFrameUI
      BY <2>1, <2>2 DEF SoughtInv
    <3>2. cap.pos = currentFrameUI /\ cap.pos < Length[cap.video]
      BY <1>1, <2>1, <3>1 DEF NextIndex
    <3>3. decoder' = "push" /\ inHand' = <<cap.video, cap.pos>>
      BY <3>2 DEF ReadFrame
    <3> QED
      BY <2>2, <3>2, <3>3 DEF NextIndex
  <2>3. CASE frameQueue' # <<>>
    BY <1>2, <2>1, <2>3 DEF SoughtInv
  <2> QED
    BY <2>2, <2>3
<1> QED
  BY <1>3, <1>4 DEF SoughtInv

\* Every step keeps it.
LEMMA SoughtStep == IInv /\ SoughtInv /\ [Next]_vars => SoughtInv'
<1> SUFFICES ASSUME IInv, SoughtInv, [Next]_vars PROVE SoughtInv'
  OBVIOUS
<1> USE DEF guiVars, capVars, flagVars, seekVars, dialogVars, DecoderLeaves
<1>1. CASE StayOnPage
  BY <1>1, SoughtKept DEF StayOnPage, GuiGoto
<1>2. CASE NoSelection
  BY <1>2, SoughtKept DEF NoSelection, GuiGoto
<1>3. CASE TakeSelection
  BY <1>3, SoughtKept DEF TakeSelection, BeginStop
<1>4. CASE NoTimerTick
  BY <1>4, SoughtKept DEF NoTimerTick, GuiGoto
<1>5. ASSUME NEW n \in 1 .. MaxQueue + 1, TimerTick(n) PROVE SoughtInv'
  <2>1. PICK k \in 0 .. Len(frameQueue) :
           /\ Len(frameQueue') = Len(frameQueue) - k
           /\ frameQueue' = SubSeq(frameQueue, k + 1, Len(frameQueue))
           /\ frameQueue # <<>> => k < Len(frameQueue)
    <3>1. frameQueue \in Seq(Frame) /\ n \in Nat \ {0}
      BY VideoAssumption DEF IInv, TypeOK
    <3> QED
      BY ONLY <1>5, <3>1, TimerTickEffect
  <2>2. frameQueue' = <<>> => frameQueue = <<>>
    <3>1. frameQueue \in Seq(Frame) /\ Len(frameQueue) \in Nat
      BY DEF IInv, TypeOK
    <3>2. frameQueue' = <<>> => Len(frameQueue') = 0
      OBVIOUS
    <3> QED
      BY ONLY <2>1, <3>1, <3>2
  <2>3. /\ gui = "lhs" /\ gui' = "tick"
        /\ UNCHANGED <<decoder, cap, inHand, seekTarget, totalFrames, forceUpdate,
                       currentFrameUI, shown>>
    BY <1>5 DEF TimerTick
  <2>4. (Awaited' => Awaited) /\ (Capturing' <=> Capturing) /\ NextIndex' = NextIndex
    BY <2>3 DEF Awaited, Capturing, NextIndex
  <2> QED
    BY <2>2, <2>3, <2>4 DEF SoughtInv
<1>6. CASE UpdateTexture
  <2>1. CASE (gui = "tick" \/ forceUpdate) /\ frameQueue # <<>>
    <3>1. /\ ~forceUpdate' /\ decoder' = Notified
          /\ UNCHANGED <<cap, totalFrames>>
      BY <1>6, <2>1 DEF UpdateTexture
    <3>2. decoder # "opening" /\ ~Awaited'
      BY <2>1, <3>1 DEF IInv, FileInv, Awaited
    <3> QED
      BY <3>1, <3>2, NotAwaited
  <2>2. CASE ~((gui = "tick" \/ forceUpdate) /\ frameQueue # <<>>)
    <3>1. /\ gui' \in {"controls", "rhs"} /\ gui \in {"tick", "update"}
          /\ UNCHANGED <<decoder, cap, inHand, frameQueue, seekTarget, totalFrames,
                         forceUpdate, currentFrameUI, shown>>
      BY <1>6, <2>2 DEF UpdateTexture
    <3>2. CASE gui = "update"
      BY <3>1, <3>2, SoughtKept
    <3>3. CASE gui = "tick"
      <4>1. frameQueue = <<>>
        BY <2>2, <3>3
      <4>2. (Awaited' => Awaited) /\ (Capturing' <=> Capturing) /\ NextIndex' = NextIndex
        BY <3>1 DEF Awaited, Capturing, NextIndex
      <4> QED
        BY <3>1, <4>1, <4>2 DEF SoughtInv
    <3> QED
      BY <3>1, <3>2, <3>3
  <2> QED
    BY <2>1, <2>2
<1>7. CASE NoControl
  BY <1>7, SoughtKept DEF NoControl, GuiGoto
<1>8. CASE EndFrame
  BY <1>8, SoughtKept DEF EndFrame, GuiGoto
<1>9. CASE SeekClear
  <2>1. /\ gui' = "seekSet"
        /\ UNCHANGED <<decoder, cap, totalFrames, forceUpdate, seekTarget, currentFrameUI, shown>>
    BY <1>9 DEF SeekClear
  <2> QED
    BY <2>1, NotAwaited DEF Awaited
<1>10. CASE SeekSet
  <2>1. /\ seekTarget' = seekArg /\ currentFrameUI' = seekArg
        /\ UNCHANGED <<decoder, cap, totalFrames, shown>>
    BY <1>10 DEF SeekSet
  <2>2. seekArg # NoSeek
    BY DEF IInv, TypeOK, NoSeek
  <2> QED
    BY <2>1, <2>2, NotAwaited DEF Awaited
<1>11. CASE SeekNotify
  BY <1>11, SoughtKept DEF SeekNotify
<1>12. CASE SeekPause
  BY <1>12, SoughtKept DEF SeekPause
<1>13. CASE StopNotify
  BY <1>13, SoughtKept DEF StopNotify
<1>14. CASE StopJoin
  <2>1. /\ decoder' = "none" /\ frameQueue' = <<>>
        /\ UNCHANGED <<forceUpdate, seekTarget, currentFrameUI>>
    BY <1>14 DEF StopJoin
  <2> QED
    BY <2>1 DEF SoughtInv, Capturing
<1>15. CASE OpenVideo
  <2>1. /\ decoder' = "opening" /\ shown' = NoFrame
        /\ UNCHANGED <<forceUpdate, seekTarget, currentFrameUI>>
    BY <1>15 DEF OpenVideo
  <2> QED
    BY <2>1 DEF SoughtInv, Awaited, Capturing
<1>16. CASE ClearVideo
  <2>1. /\ shown' = NoFrame /\ UNCHANGED <<decoder, cap, totalFrames>>
        /\ UNCHANGED <<forceUpdate, seekTarget, currentFrameUI>>
    BY <1>16 DEF ClearVideo
  <2>2. decoder # "opening"
    BY <1>16 DEF ClearVideo, IInv, ControlInv
  <2> QED
    BY <2>1, <2>2, NotAwaited DEF Awaited
<1>17. CASE NewPage
  <2>1. ~forceUpdate' /\ decoder' = decoder /\ decoder = "none"
    BY <1>17 DEF NewPage, IInv, ControlInv
  <2> QED
    BY <2>1 DEF SoughtInv, Awaited, Capturing
<1>18. CASE LeavePage
  BY <1>18, SoughtKept DEF LeavePage, BeginStop
<1>19. CASE PressOpenVideo
  BY <1>19, SoughtKept DEF PressOpenVideo
<1>20. CASE PressClearVideo
  BY <1>20, SoughtKept DEF PressClearVideo, BeginStop
<1>21. CASE TogglePlay
  BY <1>21, SoughtKept DEF TogglePlay
<1>22. CASE ToggleLooping
  BY <1>22, SoughtKept DEF ToggleLooping
<1>23. ASSUME NEW i \in 0 .. totalFrames, SliderSeek(i) PROVE SoughtInv'
  BY <1>23, SoughtKept DEF SliderSeek, BeginSeek
<1>24. ASSUME NEW d \in Deltas, StepSeek(d) PROVE SoughtInv'
  BY <1>24, SoughtKept DEF StepSeek, BeginSeek
<1>25. CASE SyncSeek
  BY <1>25, SoughtKept DEF SyncSeek, BeginSeek
<1>26. CASE OpenCapture
  <2>1. /\ decoder = "opening" /\ decoder' \in {"exited", "predicate"}
        /\ decoder' = "predicate" => totalFrames' = Length[videoPath] /\ cap'.video = videoPath
        /\ UNCHANGED <<forceUpdate, seekTarget, currentFrameUI, shown>>
    BY <1>26 DEF OpenCapture
  <2>2. ~Awaited'
    BY <2>1 DEF SoughtInv, Awaited
  <2> QED
    BY <2>1, <2>2 DEF SoughtInv, Capturing
<1>27. CASE EvalPredicate
  <2>1. /\ decoder = "predicate" /\ decoder' \in {"exited", "exchange", "blocking"}
        /\ UNCHANGED <<gui, cap, inHand, frameQueue, seekTarget, totalFrames, forceUpdate,
                       currentFrameUI, shown>>
    BY <1>27 DEF EvalPredicate
  <2> QED
    BY <2>1 DEF SoughtInv, Awaited, Capturing, NextIndex
<1>28. CASE Block
  BY <1>28 DEF Block, DecoderGoto, SoughtInv, Awaited, Capturing, NextIndex
<1>29. CASE ExchangeSeek
  <2>1. /\ decoder = "exchange" /\ seekTarget' = NoSeek
        /\ UNCHANGED <<gui, inHand, frameQueue, totalFrames, forceUpdate, currentFrameUI, shown>>
    BY <1>29 DEF ExchangeSeek
  <2>2. CASE seekTarget # NoSeek
    <3>1. cap \in [video : Videos \cup {NoVideo}, pos : Nat]
      BY DEF IInv, TypeOK
    <3>2. decoder' = "flush" /\ cap'.pos = seekTarget /\ cap'.video = cap.video
      BY <1>29, <2>2, <3>1 DEF ExchangeSeek
    <3>3. Capturing /\ (Awaited' => seekTarget = currentFrameUI)
      BY <2>1, <2>2 DEF SoughtInv, Awaited, Capturing
    <3> QED
      BY <2>1, <3>2, <3>3 DEF SoughtInv, NextIndex
  <2>3. CASE seekTarget = NoSeek
    <3>1. decoder' = "gate" /\ cap' = cap
      BY <1>29, <2>3 DEF ExchangeSeek
    <3> QED
      BY <2>1, <2>3, <3>1 DEF SoughtInv, Awaited, Capturing, NextIndex
  <2> QED
    BY <2>2, <2>3
<1>30. CASE FlushAndRead
  <2>1. /\ decoder = "flush" /\ frameQueue' = <<>> /\ ReadFrame
        /\ UNCHANGED <<gui, seekTarget, totalFrames, forceUpdate, currentFrameUI, shown>>
    BY <1>30 DEF FlushAndRead
  <2>2. Capturing /\ decoder # "push" /\ IInv /\ SoughtInv
    BY <2>1 DEF Capturing
  <2> QED
    BY ONLY <2>1, <2>2, ReadSought
<1>31. CASE ReadWhenPlaying
  <2>1. /\ decoder = "gate"
        /\ UNCHANGED <<gui, frameQueue, seekTarget, totalFrames, forceUpdate, currentFrameUI, shown>>
        /\ \/ ReadFrame
           \/ decoder' = "predicate" /\ UNCHANGED <<cap, inHand>>
    BY <1>31 DEF ReadWhenPlaying
  <2>2. CASE ReadFrame
    <3>1. Capturing /\ decoder # "push" /\ IInv /\ SoughtInv
      BY <2>1 DEF Capturing
    <3> QED
      BY ONLY <2>1, <2>2, <3>1, ReadSought
  <2>3. CASE decoder' = "predicate" /\ UNCHANGED <<cap, inHand>>
    BY <2>1, <2>3 DEF SoughtInv, Awaited, Capturing, NextIndex
  <2> QED
    BY <2>1, <2>2, <2>3
<1>32. CASE PushFrame
  <2>1. /\ decoder = "push" /\ decoder' = "predicate" /\ frameQueue' = Append(frameQueue, inHand)
        /\ UNCHANGED <<gui, cap, seekTarget, totalFrames, forceUpdate, currentFrameUI, shown>>
    BY <1>32 DEF PushFrame
  <2>2. frameQueue \in Seq(Frame) /\ inHand \in Frame
    BY <2>1 DEF IInv, TypeOK, FileInv
  <2>3. /\ frameQueue' # <<>>
        /\ frameQueue = <<>> => frameQueue'[1] = inHand
        /\ frameQueue # <<>> => frameQueue'[1] = frameQueue[1]
    BY <2>1, <2>2
  <2>4. /\ Awaited' => Awaited
        /\ Awaited /\ frameQueue = <<>> => inHand[2] = currentFrameUI
    BY <2>1 DEF SoughtInv, Awaited, Capturing, NextIndex
  <2> QED
    BY <2>1, <2>3, <2>4 DEF SoughtInv, Capturing
<1>33. ASSUME NEW choice \in Videos \cup {NoVideo}, DialogReturns(choice) PROVE SoughtInv'
  BY <1>33, SoughtKept DEF DialogReturns
<1>34. CASE SpuriousWakeup
  BY <1>34 DEF SpuriousWakeup, DecoderGoto, SoughtInv, Awaited, Capturing, NextIndex
<1>35. CASE UNCHANGED vars
  BY <1>35, SoughtKept DEF vars
<1> QED
  BY <1>1, <1>2, <1>3, <1>4, <1>5, <1>6, <1>7, <1>8, <1>9, <1>10,
     <1>11, <1>12, <1>13, <1>14, <1>15, <1>16, <1>17, <1>18, <1>19, <1>20,
     <1>21, <1>22, <1>23, <1>24, <1>25, <1>26, <1>27, <1>28, <1>29, <1>30,
     <1>31, <1>32, <1>33, <1>34, <1>35
  DEF Next, GuiProceeds, UserActs, DecoderStep, DialogStep

\* Once the decode thread has taken a seek and emptied the queue, the frame in
\* front is the one the user asked for.
THEOREM SoughtComesFirst == Spec => []SoughtFrameFirst
<1>1. Init => SoughtInv
  BY DEF Init, SoughtInv, Awaited, Capturing
<1>2. IInv /\ SoughtInv => SoughtFrameFirst
  BY HeadTail DEF IInv, TypeOK, SoughtInv, Awaited, SoughtFrameFirst
<1> QED
  BY <1>1, <1>2, Inductive, SoughtStep, PTL DEF Spec

----------------------------------------------------------------------------
(* No wake-up is lost on the way from the queue to a sleeping thread        *)

\* The predicate and the sleep are one critical section: a thread between them
\* has seen the queue as it is.  (SleepsWhenFull speaks of the sleep alone.)
FullInv ==
  /\ decoder = "blocking" => Len(frameQueue) = MaxQueue
  /\ SleepsWhenFull

\* A forced update that a frame of the old position has answered has made room:
\* the thread gets to its exchange, and to the target, before it can sleep.
PendingInv ==
  seekTarget # NoSeek /\ ~forceUpdate =>
    /\ decoder \notin {"blocking", "blocked"}
    /\ decoder = "predicate" => Len(frameQueue) < MaxQueue
    /\ decoder \in {"flush", "gate", "push"} => Len(frameQueue) + 1 < MaxQueue

\* A tick with the mutex held by the decode thread skips nothing.
LEMMA TickOfOne ==
  ASSUME frameQueue \in Seq(Frame), NEW n \in Nat \ {0}, TimerTick(n), ~FrameMutexFree
  PROVE  Len(frameQueue') = Len(frameQueue)
<1>1. n = 1
  BY DEF TimerTick
<1>2. frameQueue' = SubSeq(frameQueue, 1, Len(frameQueue))
  BY <1>1 DEF TimerTick
<1> QED
  BY <1>2

\* Every step of either thread keeps the sleeper's queue full or owes it a
\* notification.
LEMMA FullStep == IInv /\ FullInv /\ [Next]_vars => FullInv'
<1> SUFFICES ASSUME IInv, FullInv, [Next]_vars PROVE FullInv'
  OBVIOUS
<1> USE VideoAssumption
<1>0. frameQueue \in Seq(Frame) /\ Len(frameQueue) \in Nat /\ Len(frameQueue) <= MaxQueue
      /\ MaxQueue \in Nat \ {0}
  BY DEF IInv, TypeOK, RoomInv
\* A step that leaves the queue and a sleeping thread alone, and does not
\* end a tick or a seek.
<1>a. ASSUME UNCHANGED <<frameQueue, decoder>>,
             gui \in {"tick", "seekSet", "seekNotify"} => gui' = gui
      PROVE  FullInv'
  BY <1>a DEF FullInv, SleepsWhenFull
<1>b. ASSUME decoder' \notin {"blocking", "blocked"} PROVE FullInv'
  BY <1>b DEF FullInv, SleepsWhenFull
<1> USE DEF guiVars, capVars, flagVars, seekVars, dialogVars, DecoderLeaves
<1>1. CASE StayOnPage
  BY <1>1, <1>a DEF StayOnPage, GuiGoto
<1>2. CASE NoSelection
  BY <1>2, <1>a DEF NoSelection, GuiGoto
<1>3. CASE TakeSelection
  BY <1>3, <1>a DEF TakeSelection, BeginStop
<1>4. CASE NoTimerTick
  BY <1>4, <1>a DEF NoTimerTick, GuiGoto
<1>5. ASSUME NEW n \in 1 .. MaxQueue + 1, TimerTick(n) PROVE FullInv'
  <2>0. n \in Nat \ {0}
    BY <1>0
  <2>1. PICK k \in 0 .. Len(frameQueue) :
           /\ frameQueue' = SubSeq(frameQueue, k + 1, Len(frameQueue))
           /\ Len(frameQueue') = Len(frameQueue) - k
           /\ frameQueue # <<>> => k < Len(frameQueue)
           /\ \A i \in 1 .. Len(frameQueue) - k : frameQueue'[i] = frameQueue[i + k]
    BY ONLY <1>0, <1>5, <2>0, TimerTickEffect
  <2>2. gui = "lhs" /\ gui' = "tick" /\ decoder' = decoder
    BY <1>5 DEF TimerTick
  <2>3. CASE decoder = "blocking"
    <3>1. Len(frameQueue') = Len(frameQueue)
      BY <1>0, <1>5, <2>0, <2>3, TickOfOne DEF FrameMutexFree
    <3> QED
      BY <2>2, <2>3, <3>1 DEF FullInv, SleepsWhenFull
  <2>4. CASE decoder = "blocked"
    <3>1. Len(frameQueue) = MaxQueue
      BY <2>2, <2>4 DEF FullInv, SleepsWhenFull
    <3>2. Len(frameQueue) > 0 /\ frameQueue # <<>>
      BY <1>0, <3>1
    <3>3. Len(frameQueue') > 0 /\ frameQueue' \in Seq(Frame)
      BY <1>0, <2>1, <3>2
    <3>4. frameQueue' # <<>>
      BY <3>3
    <3> QED
      BY <2>2, <2>4, <3>4 DEF FullInv, SleepsWhenFull
  <2> QED
    BY <1>b, <2>2, <2>3, <2>4
<1>6. CASE UpdateTexture
  <2>0. decoder # "blocking" /\ gui \in {"tick", "update"}
    BY <1>6 DEF UpdateTexture, FrameMutexFree
  <2>1. CASE (gui = "tick" \/ forceUpdate) /\ frameQueue # <<>>
    <3>1. decoder' = Notified
      BY <1>6, <2>1 DEF UpdateTexture
    <3> QED
      BY <1>b, <2>0, <3>1 DEF Notified
  <2>2. CASE ~((gui = "tick" \/ forceUpdate) /\ frameQueue # <<>>)
    <3>1. UNCHANGED <<frameQueue, decoder>>
      BY <1>6, <2>2 DEF UpdateTexture
    <3>2. decoder = "blocked" => Len(frameQueue) = MaxQueue
      <4>1. frameQueue = <<>> => Len(frameQueue) # MaxQueue
        BY <1>0
      <4> QED
        BY <2>0, <2>2, <4>1 DEF FullInv, SleepsWhenFull
    <3> QED
      BY <2>0, <3>1, <3>2 DEF FullInv, SleepsWhenFull
  <2> QED
    BY <2>1, <2>2
<1>7. CASE NoControl
  BY <1>7, <1>a DEF NoControl, GuiGoto
<1>8. CASE EndFrame
  BY <1>8, <1>a DEF EndFrame, GuiGoto
<1>9. CASE SeekClear
  BY <1>9 DEF SeekClear, FrameMutexFree, FullInv, SleepsWhenFull
<1>10. CASE SeekSet
  BY <1>10 DEF SeekSet, FullInv, SleepsWhenFull
<1>11. CASE SeekNotify
  BY <1>11 DEF SeekNotify, Notified, FullInv, SleepsWhenFull
<1>12. CASE SeekPause
  BY <1>12, <1>a DEF SeekPause
<1>13. CASE StopNotify
  BY <1>13 DEF StopNotify, Notified, FullInv, SleepsWhenFull
<1>14. CASE StopJoin
  BY <1>14, <1>b DEF StopJoin
<1>15. CASE OpenVideo
  BY <1>15, <1>b DEF OpenVideo
<1>16. CASE ClearVideo
  BY <1>16, <1>a DEF ClearVideo
<1>17. CASE NewPage
  BY <1>17, <1>a DEF NewPage
<1>18. CASE LeavePage
  BY <1>18, <1>a DEF LeavePage, BeginStop
<1>19. CASE PressOpenVideo
  BY <1>19, <1>a DEF PressOpenVideo
<1>20. CASE PressClearVideo
  BY <1>20, <1>a DEF PressClearVideo, BeginStop
<1>21. CASE TogglePlay
  BY <1>21, <1>a DEF TogglePlay
<1>22. CASE ToggleLooping
  BY <1>22, <1>a DEF ToggleLooping
<1>23. ASSUME NEW i \in 0 .. totalFrames, SliderSeek(i) PROVE FullInv'
  BY <1>23, <1>a DEF SliderSeek, BeginSeek
<1>24. ASSUME NEW d \in Deltas, StepSeek(d) PROVE FullInv'
  BY <1>24, <1>a DEF StepSeek, BeginSeek
<1>25. CASE SyncSeek
  BY <1>25, <1>a DEF SyncSeek, BeginSeek
<1>26. CASE OpenCapture
  BY <1>26, <1>b DEF OpenCapture
<1>27. CASE EvalPredicate
  BY <1>0, <1>27 DEF EvalPredicate, FullInv, SleepsWhenFull
<1>28. CASE Block
  BY <1>28 DEF Block, DecoderGoto, FullInv, SleepsWhenFull
<1>29. CASE ExchangeSeek
  BY <1>29, <1>b DEF ExchangeSeek
<1>30. CASE FlushAndRead
  BY <1>30, <1>b DEF FlushAndRead, ReadFrame
<1>31. CASE ReadWhenPlaying
  BY <1>31, <1>b DEF ReadWhenPlaying, ReadFrame
<1>32. CASE PushFrame
  BY <1>32, <1>b DEF PushFrame
<1>33. ASSUME NEW choice \in Videos \cup {NoVideo}, DialogReturns(choice) PROVE FullInv'
  BY <1>33, <1>a DEF DialogReturns
<1>34. CASE SpuriousWakeup
  BY <1>34, <1>b DEF SpuriousWakeup, DecoderGoto
<1>35. CASE UNCHANGED vars
  BY <1>35, <1>a DEF vars
<1> QED
  BY <1>1, <1>2, <1>3, <1>4, <1>5, <1>6, <1>7, <1>8, <1>9, <1>10,
     <1>11, <1>12, <1>13, <1>14, <1>15, <1>16, <1>17, <1>18, <1>19, <1>20,
     <1>21, <1>22, <1>23, <1>24, <1>25, <1>26, <1>27, <1>28, <1>29, <1>30,
     <1>31, <1>32, <1>33, <1>34, <1>35
  DEF Next, GuiProceeds, UserActs, DecoderStep, DialogStep

\* Every step keeps a seek that is pending from being slept over.
LEMMA PendingStep == IInv /\ PendingInv /\ [Next]_vars => PendingInv'
<1> SUFFICES ASSUME IInv, PendingInv, [Next]_vars PROVE PendingInv'
  OBVIOUS
<1> USE VideoAssumption
<1>0. frameQueue \in Seq(Frame) /\ Len(frameQueue) \in Nat /\ Len(frameQueue) <= MaxQueue
      /\ MaxQueue \in Nat \ {0}
  BY DEF IInv, TypeOK, RoomInv
\* A step of the GUI thread that adds no frame and settles no update.
<1>a. ASSUME UNCHANGED <<decoder, seekTarget, forceUpdate>>,
             Len(frameQueue') \in Nat, Len(frameQueue') <= Len(frameQueue)
      PROVE  PendingInv'
  BY <1>0, <1>a DEF PendingInv
<1>b. ASSUME UNCHANGED <<decoder, seekTarget, forceUpdate, frameQueue>> PROVE PendingInv'
  BY <1>b DEF PendingInv
<1>c. ASSUME seekTarget' = NoSeek \/ forceUpdate' = TRUE PROVE PendingInv'
  BY <1>c DEF PendingInv
<1> USE DEF guiVars, capVars, flagVars, seekVars, dialogVars, DecoderLeaves
<1>1. CASE StayOnPage
  BY <1>1, <1>b DEF StayOnPage, GuiGoto
<1>2. CASE NoSelection
  BY <1>2, <1>b DEF NoSelection, GuiGoto
<1>3. CASE TakeSelection
  BY <1>3, <1>b DEF TakeSelection, BeginStop
<1>4. CASE NoTimerTick
  BY <1>4, <1>b DEF NoTimerTick, GuiGoto
<1>5. ASSUME NEW n \in 1 .. MaxQueue + 1, TimerTick(n) PROVE PendingInv'
  <2>0. n \in Nat \ {0}
    BY <1>0
  <2>1. PICK k \in 0 .. Len(frameQueue) :
           /\ frameQueue' = SubSeq(frameQueue, k + 1, Len(frameQueue))
           /\ Len(frameQueue') = Len(frameQueue) - k
           /\ frameQueue # <<>> => k < Len(frameQueue)
           /\ \A i \in 1 .. Len(frameQueue) - k : frameQueue'[i] = frameQueue[i + k]
    BY ONLY <1>0, <1>5, <2>0, TimerTickEffect
  <2>2. UNCHANGED <<decoder, seekTarget, forceUpdate>>
    BY <1>5 DEF TimerTick
  <2>3. Len(frameQueue') \in Nat /\ Len(frameQueue') <= Len(frameQueue)
    BY <1>0, <2>1
  <2> QED
    BY <1>a, <2>2, <2>3
<1>6. CASE UpdateTexture
  <2>1. CASE (gui = "tick" \/ forceUpdate) /\ frameQueue # <<>>
    <3>1. /\ decoder' = Notified /\ decoder # "blocking" /\ seekTarget' = seekTarget
          /\ Len(frameQueue') = Len(frameQueue) - 1
      BY <1>0, <1>6, <2>1, TakeEffect DEF UpdateTexture, FrameMutexFree
    <3>2. decoder' \notin {"blocking", "blocked"}
      BY <3>1 DEF Notified
    <3>3. decoder' \in {"flush", "gate", "push"} => Len(frameQueue) < MaxQueue
      BY <3>1 DEF Notified, IInv, RoomInv
    <3> QED
      BY <1>0, <3>1, <3>2, <3>3 DEF PendingInv
  <2>2. CASE ~((gui = "tick" \/ forceUpdate) /\ frameQueue # <<>>)
    BY <1>6, <2>2, <1>b DEF UpdateTexture
  <2> QED
    BY <2>1, <2>2
<1>7. CASE NoControl
  BY <1>7, <1>b DEF NoControl, GuiGoto
<1>8. CASE EndFrame
  BY <1>8, <1>b DEF EndFrame, GuiGoto
<1>9. CASE SeekClear
  BY <1>0, <1>9, <1>a DEF SeekClear
<1>10. CASE SeekSet
  BY <1>10, <1>c DEF SeekSet
<1>11. CASE SeekNotify
  <2>1. UNCHANGED <<frameQueue, seekTarget, forceUpdate>>
    BY <1>11 DEF SeekNotify
  <2>2. decoder' = decoder \/ (decoder = "blocked" /\ decoder' = "predicate")
    BY <1>11 DEF SeekNotify, Notified
  <2> QED
    BY <1>b, <2>1, <2>2 DEF PendingInv
<1>12. CASE SeekPause
  BY <1>12, <1>b DEF SeekPause
<1>13. CASE StopNotify
  <2>1. UNCHANGED <<frameQueue, seekTarget, forceUpdate>>
    BY <1>13 DEF StopNotify
  <2>2. decoder' = decoder \/ (decoder = "blocked" /\ decoder' = "predicate")
    BY <1>13 DEF StopNotify, Notified
  <2> QED
    BY <1>b, <2>1, <2>2 DEF PendingInv
<1>14. CASE StopJoin
  <2>1. decoder' = "none"
    BY <1>14 DEF StopJoin
  <2> QED
    BY <2>1 DEF PendingInv
<1>15. CASE OpenVideo
  <2>1. decoder' = "opening"
    BY <1>15 DEF OpenVideo
  <2> QED
    BY <2>1 DEF PendingInv
<1>16. CASE ClearVideo
  BY <1>16, <1>b DEF ClearVideo
<1>17. CASE NewPage
  BY <1>17, <1>c DEF NewPage
<1>18. CASE LeavePage
  BY <1>18, <1>b DEF LeavePage, BeginStop
<1>19. CASE PressOpenVideo
  BY <1>19, <1>b DEF PressOpenVideo
<1>20. CASE PressClearVideo
  BY <1>20, <1>b DEF PressClearVideo, BeginStop
<1>21. CASE TogglePlay
  BY <1>21, <1>b DEF TogglePlay
<1>22. CASE ToggleLooping
  BY <1>22, <1>b DEF ToggleLooping
<1>23. ASSUME NEW i \in 0 .. totalFrames, SliderSeek(i) PROVE PendingInv'
  BY <1>23, <1>b DEF SliderSeek, BeginSeek
<1>24. ASSUME NEW d \in Deltas, StepSeek(d) PROVE PendingInv'
  BY <1>24, <1>b DEF StepSeek, BeginSeek
<1>25. CASE SyncSeek
  BY <1>25, <1>b DEF SyncSeek, BeginSeek
<1>26. CASE OpenCapture
  <2>1. decoder = "opening" /\ decoder' \in {"exited", "predicate"}
        /\ UNCHANGED <<frameQueue, seekTarget, forceUpdate>>
    BY <1>26 DEF OpenCapture
  <2>2. frameQueue' = <<>>
    BY <2>1 DEF IInv, FileInv
  <2>3. Len(frameQueue') = 0
    BY <2>2
  <2> QED
    BY <1>0, <2>1, <2>3 DEF PendingInv
<1>27. CASE EvalPredicate
  <2>1. /\ decoder = "predicate" /\ UNCHANGED <<frameQueue, seekTarget, forceUpdate>>
        /\ decoder' \in {"exited", "exchange", "blocking"}
        /\ Len(frameQueue) < MaxQueue => decoder' # "blocking"
    BY <1>27 DEF EvalPredicate
  <2> QED
    BY <2>1 DEF PendingInv
<1>28. CASE Block
  BY <1>28 DEF Block, DecoderGoto, PendingInv
<1>29. CASE ExchangeSeek
  BY <1>29, <1>c DEF ExchangeSeek
<1>30. CASE FlushAndRead
  <2>1. /\ decoder = "flush" /\ frameQueue' = <<>> /\ UNCHANGED <<seekTarget, forceUpdate>>
        /\ decoder' \in {"push", "predicate"}
    BY <1>30 DEF FlushAndRead, ReadFrame
  <2>2. Len(frameQueue') = 0
    BY <2>1
  <2> QED
    BY <1>0, <2>1, <2>2 DEF PendingInv
<1>31. CASE ReadWhenPlaying
  <2>1. /\ decoder = "gate" /\ UNCHANGED <<frameQueue, seekTarget, forceUpdate>>
        /\ decoder' \in {"push", "predicate"}
    BY <1>31 DEF ReadWhenPlaying, ReadFrame
  <2> QED
    BY <1>0, <2>1 DEF PendingInv
<1>32. CASE PushFrame
  <2>1. /\ decoder = "push" /\ decoder' = "predicate" /\ UNCHANGED <<seekTarget, forceUpdate>>
        /\ frameQueue' = Append(frameQueue, inHand)
    BY <1>32 DEF PushFrame
  <2>2. Len(frameQueue') = Len(frameQueue) + 1
    BY <1>0, <2>1
  <2> QED
    BY <1>0, <2>1, <2>2 DEF PendingInv
<1>33. ASSUME NEW choice \in Videos \cup {NoVideo}, DialogReturns(choice) PROVE PendingInv'
  BY <1>33, <1>b DEF DialogReturns
<1>34. CASE SpuriousWakeup
  BY <1>34 DEF SpuriousWakeup, DecoderGoto, PendingInv
<1>35. CASE UNCHANGED vars
  BY <1>35, <1>b DEF vars
<1> QED
  BY <1>1, <1>2, <1>3, <1>4, <1>5, <1>6, <1>7, <1>8, <1>9, <1>10,
     <1>11, <1>12, <1>13, <1>14, <1>15, <1>16, <1>17, <1>18, <1>19, <1>20,
     <1>21, <1>22, <1>23, <1>24, <1>25, <1>26, <1>27, <1>28, <1>29, <1>30,
     <1>31, <1>32, <1>33, <1>34, <1>35
  DEF Next, GuiProceeds, UserActs, DecoderStep, DialogStep

\* The decode thread (view.cpp, its wait on m_FrameCV) never sleeps through the
\* notification that would tell it of room in the queue.
THEOREM WakesForRoom == Spec => []SleepsWhenFull
<1>1. Init => FullInv
  BY DEF Init, FullInv, SleepsWhenFull
<1>2. FullInv => SleepsWhenFull
  BY DEF FullInv
<1> QED
  BY <1>1, <1>2, FullStep, Inductive, PTL DEF Spec

\* RequestSeek never leaves a target behind that the decode thread sleeps over:
\* a forced update, and with it a notification, is owed.
THEOREM NeverSleepsOverSeek == Spec => []SeekNotSleptOver
<1>1. Init => PendingInv
  BY DEF Init, PendingInv
<1>2. PendingInv => SeekNotSleptOver
  BY DEF PendingInv, SeekNotSleptOver
<1> QED
  BY <1>1, <1>2, PendingStep, Inductive, PTL DEF Spec
=============================================================================
