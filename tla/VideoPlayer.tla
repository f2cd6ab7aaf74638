---------------------------- MODULE VideoPlayer ----------------------------
(***************************************************************************)
(* The video half of the View page (src/src/app/pages/view.cpp): the GUI   *)
(* thread draws one frame after another and the decode thread fills        *)
(* m_FrameQueue, a bounded queue guarded by m_FrameMutex and m_QueueCV.    *)
(* Variables carry the names of the members without the m_ prefix.         *)
(*                                                                         *)
(* gui and decoder are the program counters of the two threads.  A         *)
(* critical section of m_FrameMutex is one step, except the one in which   *)
(* the decode thread evaluates its wait predicate: it keeps the mutex      *)
(* until it sleeps on the condition variable (decoder = "blocking").       *)
(***************************************************************************)
EXTENDS Integers, Sequences

CONSTANTS Videos,      \* the files a user may choose
          NoVideo,     \* an empty path, an empty optional
          NoFrame,     \* no texture on screen, no frame in hand
          Length,      \* frames in each file; 0 when it cannot be opened
          MaxQueue,    \* MAX_QUEUE_SIZE
          Deltas       \* the steps of the buttons and arrow keys

ASSUME VideoAssumption ==
  /\ NoVideo \notin Videos
  /\ Length \in [Videos -> Nat]
  /\ MaxQueue \in Nat \ {0}
  /\ Deltas \subseteq Int
  /\ NoFrame \notin Videos \X Nat

VARIABLES
  gui, after,          \* GUI thread: where it is, what it does afterwards
  decoder, cap, inHand,\* decode thread: where it is, the capture, the frame just read
  frameQueue, seekTarget, threadRunning, isPlaying, isLooping,   \* shared
  totalFrames,         \* written by the decode thread, read by the GUI
  forceUpdate, currentFrameUI, seekArg, shown,                   \* GUI only
  videoPath, videoLoaded, selectedVideo, dialogRunning           \* file dialog

guiVars    == <<gui, after>>
capVars    == <<decoder, cap, inHand>>
flagVars   == <<threadRunning, isPlaying, isLooping>>
seekVars   == <<forceUpdate, currentFrameUI, seekArg>>
dialogVars == <<videoPath, videoLoaded, selectedVideo, dialogRunning>>
vars == <<gui, after, decoder, cap, inHand, frameQueue, seekTarget,
          threadRunning, isPlaying, isLooping, totalFrames, forceUpdate,
          currentFrameUI, seekArg, shown, videoPath, videoLoaded,
          selectedVideo, dialogRunning>>

Frame  == Videos \X Nat                        \* (cv::Mat, index)
NoSeek == -1
NoCap  == [video |-> NoVideo, pos |-> 0]       \* no cv::VideoCapture

GuiPC == {"menu", "open", "lhs", "tick", "update", "controls", "rhs",
          "seekClear", "seekSet", "seekNotify", "seekPause",
          "stopNotify", "stopJoin", "stopped"}
DecoderPC == {"none", "opening", "predicate", "blocking", "blocked",
              "exchange", "flush", "gate", "push", "exited"}

Init ==
  /\ gui = "menu" /\ after = "none"
  /\ decoder = "none" /\ cap = NoCap /\ inHand = NoFrame
  /\ frameQueue = <<>> /\ seekTarget = NoSeek
  /\ threadRunning = FALSE /\ isPlaying = FALSE /\ isLooping = FALSE
  /\ totalFrames = 0
  /\ forceUpdate = FALSE /\ currentFrameUI = 0 /\ seekArg = 0
  /\ shown = NoFrame
  /\ videoPath = NoVideo /\ videoLoaded = FALSE
  /\ selectedVideo = NoVideo /\ dialogRunning = FALSE

FrameMutexFree == decoder # "blocking"

\* DrawOpenVideo holds m_VideoPathMutex from the test of m_SelectedVideo to
\* the start of the new thread.
VideoPathLocked == after = "openVideo"

\* notify_one / notify_all: the decode thread is the only waiter.  A notify
\* that comes before the thread is asleep is lost.
Notified == IF decoder = "blocked" THEN "predicate" ELSE decoder

\* Slip: only the upper bound is clamped.
Clamp_NoLower(i) == IF i > totalFrames THEN totalFrames ELSE i

Clamp(i) == IF i < 0 THEN 0 ELSE IF i > totalFrames THEN totalFrames ELSE i

----------------------------------------------------------------------------
(* GUI thread: menu bar, DrawOpenVideo, DrawLHS                             *)

\* StopDecodingThread, first statement; its caller is remembered in after.
BeginStop(caller) ==
  /\ threadRunning' = FALSE
  /\ gui' = "stopNotify" /\ after' = caller
  /\ UNCHANGED <<decoder, cap, inHand, frameQueue, seekTarget, isPlaying, isLooping,
                 totalFrames, seekVars, shown, dialogVars>>

GuiGoto(from, to) ==
  /\ gui = from /\ gui' = to
  /\ UNCHANGED <<after, capVars, frameQueue, seekTarget, flagVars,
                 totalFrames, seekVars, shown, dialogVars>>

\* ChangePage -> OnExit -> Cleanup, then the page object is destroyed.
LeavePage == gui = "menu" /\ BeginStop("leavePage")
StayOnPage == GuiGoto("menu", "open")

\* Slip: the selected file is opened over a thread that still decodes.
TakeSelection_NoStop ==
  /\ gui = "open" /\ selectedVideo # NoVideo
  /\ gui' = "stopped" /\ after' = "openVideo"
  /\ UNCHANGED <<capVars, frameQueue, seekTarget, flagVars, totalFrames, seekVars, shown,
                 dialogVars>>

TakeSelection == /\ gui = "open" /\ selectedVideo # NoVideo
                 /\ BeginStop("openVideo")
NoSelection   == selectedVideo = NoVideo /\ GuiGoto("open", "lhs")

PressOpenVideo ==
  /\ gui = "lhs" /\ ~dialogRunning
  /\ dialogRunning' = TRUE /\ videoLoaded' = FALSE
  /\ UNCHANGED <<guiVars, capVars, frameQueue, seekTarget, flagVars,
                 totalFrames, seekVars, shown, videoPath, selectedVideo>>

PressClearVideo == gui = "lhs" /\ BeginStop("clearVideo")

\* n frame periods have passed while playing (m_VideoFPS is set together
\* with m_TotalFrames): drop what can be dropped, keep at least one frame.
TimerTick(n) ==
  /\ gui = "lhs" /\ isPlaying /\ totalFrames > 0
  /\ n > 1 => FrameMutexFree
  /\ gui' = "tick"
  /\ LET len  == Len(frameQueue)
         drop == IF n > 1 /\ len > 0
                 THEN IF len - 1 < n - 1 THEN len - 1 ELSE n - 1
                 ELSE 0
     IN  frameQueue' = SubSeq(frameQueue, drop + 1, len)
  /\ UNCHANGED <<after, capVars, seekTarget, flagVars, totalFrames,
                 seekVars, shown, dialogVars>>

NoTimerTick == GuiGoto("lhs", "update")

\* Slip: only a timer tick puts a frame onto the screen.
UpdateTexture_TickOnly ==
  /\ gui \in {"tick", "update"} /\ FrameMutexFree
  /\ IF gui = "tick" /\ frameQueue # <<>>
     THEN /\ shown' = Head(frameQueue)
          /\ currentFrameUI' = Head(frameQueue)[2]
          /\ frameQueue' = Tail(frameQueue)
          /\ forceUpdate' = FALSE
          /\ decoder' = Notified
     ELSE UNCHANGED <<shown, currentFrameUI, frameQueue, forceUpdate, decoder>>
  /\ gui' = IF threadRunning THEN "controls" ELSE "rhs"
  /\ UNCHANGED <<after, cap, inHand, seekTarget, flagVars, totalFrames,
                 seekArg, dialogVars>>

\* UpdateTexture, then the test of m_ThreadRunning in DrawLHS.
UpdateTexture ==
  /\ gui \in {"tick", "update"} /\ FrameMutexFree
  /\ IF (gui = "tick" \/ forceUpdate) /\ frameQueue # <<>>
     THEN /\ shown' = Head(frameQueue)
          /\ currentFrameUI' = Head(frameQueue)[2]
          /\ frameQueue' = Tail(frameQueue)
          /\ forceUpdate' = FALSE
          /\ decoder' = Notified
     ELSE UNCHANGED <<shown, currentFrameUI, frameQueue, forceUpdate, decoder>>
  /\ gui' = IF threadRunning THEN "controls" ELSE "rhs"
  /\ UNCHANGED <<after, cap, inHand, seekTarget, flagVars, totalFrames,
                 seekArg, dialogVars>>

----------------------------------------------------------------------------
(* GUI thread: DrawLHSControls and RequestSeek; at most one control a frame *)

NoControl == GuiGoto("controls", "rhs")

TogglePlay ==
  /\ gui = "controls" /\ gui' = "rhs"
  /\ isPlaying' = ~isPlaying
  /\ UNCHANGED <<after, capVars, frameQueue, seekTarget, threadRunning,
                 isLooping, totalFrames, seekVars, shown, dialogVars>>

ToggleLooping ==
  /\ gui = "controls" /\ gui' = "rhs"
  /\ isLooping' = ~isLooping
  /\ UNCHANGED <<after, capVars, frameQueue, seekTarget, threadRunning,
                 isPlaying, totalFrames, seekVars, shown, dialogVars>>

\* Enter RequestSeek(i); the caller pauses afterwards or not.
BeginSeek(i, caller) ==
  /\ seekArg' = Clamp(i)
  /\ gui' = "seekClear" /\ after' = caller
  /\ UNCHANGED <<capVars, frameQueue, seekTarget, threadRunning, isLooping,
                 totalFrames, forceUpdate, currentFrameUI, shown, dialogVars>>

SliderSeek(i) == /\ gui = "controls" /\ i # currentFrameUI
                 /\ isPlaying' = FALSE
                 /\ BeginSeek(i, "pause")
StepSeek(d)   == /\ gui = "controls"
                 /\ BeginSeek(currentFrameUI + d, "pause")
                 /\ UNCHANGED isPlaying
\* DrawSyncVideoButtons rewinds the video and does not pause it.
SyncSeek      == /\ gui = "rhs" /\ videoLoaded
                 /\ BeginSeek(0, "resume")
                 /\ UNCHANGED isPlaying

SeekClear ==
  /\ gui = "seekClear" /\ FrameMutexFree
  /\ gui' = "seekSet" /\ frameQueue' = <<>>
  /\ UNCHANGED <<after, capVars, seekTarget, flagVars, totalFrames, seekVars,
                 shown, dialogVars>>

\* Slip: a seek does not force the next frame onto the screen.
SeekSet_NoForce ==
  /\ gui = "seekSet" /\ gui' = "seekNotify"
  /\ seekTarget' = seekArg /\ currentFrameUI' = seekArg
  /\ UNCHANGED <<after, capVars, frameQueue, flagVars, totalFrames, seekArg,
                 forceUpdate, shown, dialogVars>>
SeekSet ==
  /\ gui = "seekSet" /\ gui' = "seekNotify"
  /\ seekTarget' = seekArg /\ forceUpdate' = TRUE /\ currentFrameUI' = seekArg
  /\ UNCHANGED <<after, capVars, frameQueue, flagVars, totalFrames, seekArg,
                 shown, dialogVars>>

\* Slip: RequestSeek forgets the notify.
SeekNotify_Silent ==
  /\ gui = "seekNotify"
  /\ gui' = IF after = "pause" THEN "seekPause" ELSE "menu"
  /\ after' = "none"
  /\ UNCHANGED <<capVars, frameQueue, seekTarget, flagVars, totalFrames,
                 seekVars, shown, dialogVars>>

SeekNotify ==
  /\ gui = "seekNotify"
  /\ gui' = IF after = "pause" THEN "seekPause" ELSE "menu"
  /\ after' = "none"
  /\ decoder' = Notified
  /\ UNCHANGED <<cap, inHand, frameQueue, seekTarget, flagVars, totalFrames,
                 seekVars, shown, dialogVars>>

SeekPause ==
  /\ gui = "seekPause" /\ gui' = "rhs"
  /\ isPlaying' = FALSE
  /\ UNCHANGED <<after, capVars, frameQueue, seekTarget, threadRunning,
                 isLooping, totalFrames, seekVars, shown, dialogVars>>

EndFrame == GuiGoto("rhs", "menu")

----------------------------------------------------------------------------
(* GUI thread: the rest of StopDecodingThread and what its callers do       *)

StopNotify ==
  /\ gui = "stopNotify" /\ gui' = "stopJoin"
  /\ decoder' = Notified
  /\ UNCHANGED <<after, cap, inHand, frameQueue, seekTarget, flagVars,
                 totalFrames, seekVars, shown, dialogVars>>

\* Slip: the queue survives the thread.
StopJoin_KeepQueue ==
  /\ gui = "stopJoin" /\ decoder \in {"none", "exited"}
  /\ gui' = "stopped"
  /\ decoder' = "none" /\ cap' = NoCap
  /\ UNCHANGED <<after, inHand, frameQueue, seekTarget, flagVars, totalFrames,
                 seekVars, shown, dialogVars>>

\* join() returns once the thread function has; the queue is then flushed.
StopJoin ==
  /\ gui = "stopJoin" /\ decoder \in {"none", "exited"}
  /\ gui' = "stopped"
  /\ decoder' = "none" /\ cap' = NoCap
  /\ frameQueue' = <<>>
  /\ UNCHANGED <<after, inHand, seekTarget, flagVars, totalFrames, seekVars,
                 shown, dialogVars>>

\* StartDecodingThread on the selected file.
OpenVideo ==
  /\ gui = "stopped" /\ after = "openVideo"
  /\ gui' = "lhs" /\ after' = "none"
  /\ shown' = NoFrame
  /\ videoPath' = selectedVideo /\ selectedVideo' = NoVideo /\ videoLoaded' = TRUE
  /\ threadRunning' = TRUE /\ isPlaying' = TRUE
  /\ decoder' = "opening"
  /\ UNCHANGED <<cap, inHand, frameQueue, seekTarget, isLooping, totalFrames,
                 seekVars, dialogRunning>>

ClearVideo ==
  /\ gui = "stopped" /\ after = "clearVideo"
  /\ gui' = "rhs" /\ after' = "none"
  /\ isPlaying' = FALSE /\ videoPath' = NoVideo /\ shown' = NoFrame
  /\ UNCHANGED <<capVars, frameQueue, seekTarget, threadRunning, isLooping,
                 totalFrames, seekVars, videoLoaded, selectedVideo, dialogRunning>>

\* The page is gone; opening it again makes a new one (a dialog that is still
\* open belongs to the old page, whose m_IsAlive is now false).
NewPage ==
  /\ gui = "stopped" /\ after = "leavePage"
  /\ gui' = "menu" /\ after' = "none"
  /\ seekTarget' = NoSeek
  /\ isPlaying' = FALSE /\ isLooping' = FALSE /\ totalFrames' = 0
  /\ forceUpdate' = FALSE /\ currentFrameUI' = 0 /\ seekArg' = 0
  /\ shown' = NoFrame
  /\ videoPath' = NoVideo /\ videoLoaded' = FALSE
  /\ selectedVideo' = NoVideo /\ dialogRunning' = FALSE
  /\ UNCHANGED <<capVars, frameQueue, threadRunning>>

----------------------------------------------------------------------------
(* Decode thread                                                            *)

\* Everything the GUI owns, and everything only it writes.
DecoderLeaves == UNCHANGED <<guiVars, isPlaying, isLooping, seekVars, shown, dialogVars>>

OpenCapture ==
  /\ decoder = "opening"
  /\ IF Length[videoPath] = 0
     THEN /\ decoder' = "exited" /\ threadRunning' = FALSE
          /\ UNCHANGED <<cap, totalFrames>>
     ELSE /\ decoder' = "predicate"
          /\ cap' = [video |-> videoPath, pos |-> 0]
          /\ totalFrames' = Length[videoPath]
          /\ UNCHANGED threadRunning
  /\ UNCHANGED <<inHand, frameQueue, seekTarget>>
  /\ DecoderLeaves

\* Slip: the predicate lets one frame too many in.
EvalPredicate_OffByOne ==
  /\ decoder = "predicate"
  /\ decoder' = IF ~threadRunning THEN "exited"
                ELSE IF Len(frameQueue) <= MaxQueue THEN "exchange"
                ELSE "blocking"
  /\ UNCHANGED <<cap, inHand, frameQueue, seekTarget, threadRunning, totalFrames>>
  /\ DecoderLeaves

\* The loop test, the lock and one evaluation of the wait predicate.
EvalPredicate ==
  /\ decoder = "predicate"
  /\ decoder' = IF ~threadRunning THEN "exited"
                ELSE IF Len(frameQueue) < MaxQueue THEN "exchange"
                ELSE "blocking"
  /\ UNCHANGED <<cap, inHand, frameQueue, seekTarget, threadRunning, totalFrames>>
  /\ DecoderLeaves

DecoderGoto(from, to) ==
  /\ decoder = from /\ decoder' = to
  /\ UNCHANGED <<cap, inHand, frameQueue, seekTarget, threadRunning, totalFrames>>
  /\ DecoderLeaves

Block == DecoderGoto("blocking", "blocked")
SpuriousWakeup == DecoderGoto("blocked", "predicate")

\* Slip: the target is taken but the capture stays where it is.
ExchangeSeek_NoMove ==
  /\ decoder = "exchange"
  /\ decoder' = IF seekTarget # NoSeek THEN "flush" ELSE "gate"
  /\ seekTarget' = NoSeek
  /\ UNCHANGED <<cap, inHand, frameQueue, threadRunning, totalFrames>>
  /\ DecoderLeaves

\* m_SeekTarget.exchange(-1) and the repositioning of the capture.
ExchangeSeek ==
  /\ decoder = "exchange"
  /\ decoder' = IF seekTarget # NoSeek THEN "flush" ELSE "gate"
  /\ cap' = IF seekTarget # NoSeek THEN [cap EXCEPT !.pos = seekTarget] ELSE cap
  /\ seekTarget' = NoSeek
  /\ UNCHANGED <<inHand, frameQueue, threadRunning, totalFrames>>
  /\ DecoderLeaves

\* cap.read: the frame at the position, or the end of the file.
ReadFrame ==
  IF cap.pos < Length[cap.video]
  THEN /\ decoder' = "push"
       /\ inHand' = <<cap.video, cap.pos>>
       /\ cap' = [cap EXCEPT !.pos = @ + 1]
  ELSE /\ decoder' = "predicate"
       /\ cap' = IF isLooping THEN [cap EXCEPT !.pos = 0] ELSE cap
       /\ UNCHANGED inHand

\* Slip: the decode thread trusts the GUI to have emptied the queue.
FlushAndRead_NoFlush ==
  /\ decoder = "flush"
  /\ ReadFrame
  /\ UNCHANGED <<frameQueue, seekTarget, threadRunning, totalFrames>>
  /\ DecoderLeaves

FlushAndRead ==
  /\ decoder = "flush"
  /\ frameQueue' = <<>>
  /\ ReadFrame
  /\ UNCHANGED <<seekTarget, threadRunning, totalFrames>>
  /\ DecoderLeaves

\* No seek was pending: read on when playing, sleep when paused.
ReadWhenPlaying ==
  /\ decoder = "gate"
  /\ IF isPlaying THEN ReadFrame
     ELSE decoder' = "predicate" /\ UNCHANGED <<cap, inHand>>
  /\ UNCHANGED <<frameQueue, seekTarget, threadRunning, totalFrames>>
  /\ DecoderLeaves

\* Slip: frames are pushed at the wrong end.
PushFrame_Front ==
  /\ decoder = "push" /\ decoder' = "predicate"
  /\ frameQueue' = <<inHand>> \o frameQueue
  /\ inHand' = NoFrame
  /\ UNCHANGED <<cap, seekTarget, threadRunning, totalFrames>>
  /\ DecoderLeaves

PushFrame ==
  /\ decoder = "push" /\ decoder' = "predicate"
  /\ frameQueue' = Append(frameQueue, inHand)
  /\ inHand' = NoFrame
  /\ UNCHANGED <<cap, seekTarget, threadRunning, totalFrames>>
  /\ DecoderLeaves

----------------------------------------------------------------------------
(* File dialog thread, while its page lives                                 *)

DialogReturns(choice) ==
  /\ dialogRunning /\ ~VideoPathLocked
  /\ selectedVideo' = choice /\ dialogRunning' = FALSE
  /\ UNCHANGED <<guiVars, capVars, frameQueue, seekTarget, flagVars,
                 totalFrames, seekVars, shown, videoPath, videoLoaded>>

----------------------------------------------------------------------------
\* What the frame callback does by itself, and what the user may make it do.
GuiProceeds ==
  \/ StayOnPage \/ NoSelection \/ TakeSelection \/ NoTimerTick
  \/ \E n \in 1 .. MaxQueue + 1 : TimerTick(n)
  \/ UpdateTexture \/ NoControl \/ EndFrame
  \/ SeekClear \/ SeekSet \/ SeekNotify \/ SeekPause
  \/ StopNotify \/ StopJoin \/ OpenVideo \/ ClearVideo \/ NewPage
UserActs ==
  \/ LeavePage \/ PressOpenVideo \/ PressClearVideo \/ TogglePlay \/ ToggleLooping
  \/ \E i \in 0 .. totalFrames : SliderSeek(i)
  \/ \E d \in Deltas : StepSeek(d)
  \/ SyncSeek
DecoderStep ==
  \/ OpenCapture \/ EvalPredicate \/ Block \/ ExchangeSeek \/ FlushAndRead
  \/ ReadWhenPlaying \/ PushFrame
DialogStep == \E choice \in Videos \cup {NoVideo} : DialogReturns(choice)

Next == GuiProceeds \/ UserActs \/ DecoderStep \/ DialogStep \/ SpuriousWakeup

Spec == Init /\ [][Next]_vars

\* The two threads are scheduled, and the GUI gets a mutex it keeps asking
\* for; the user, the dialog and spurious wake-ups owe nothing.
FairSpec == Spec /\ SF_vars(GuiProceeds) /\ WF_vars(DecoderStep)
----------------------------------------------------------------------------
(* Properties                                                               *)

\* Type invariant: every variable keeps to the values its declaration allows.
TypeOK ==
  /\ gui \in GuiPC
  /\ after \in {"none", "openVideo", "clearVideo", "leavePage", "pause", "resume"}
  /\ decoder \in DecoderPC
  /\ cap \in [video : Videos \cup {NoVideo}, pos : Nat]
  /\ inHand \in Frame \cup {NoFrame}
  /\ frameQueue \in Seq(Frame)
  /\ seekTarget \in Nat \cup {NoSeek}
  /\ threadRunning \in BOOLEAN /\ isPlaying \in BOOLEAN /\ isLooping \in BOOLEAN
  /\ totalFrames \in Nat
  /\ forceUpdate \in BOOLEAN /\ currentFrameUI \in Nat /\ seekArg \in Nat
  /\ shown \in Frame \cup {NoFrame}
  /\ videoPath \in Videos \cup {NoVideo} /\ videoLoaded \in BOOLEAN
  /\ selectedVideo \in Videos \cup {NoVideo} /\ dialogRunning \in BOOLEAN

\* The decode thread tests the size under one lock and appends under a later
\* one, and the GUI works on the queue in between: the queue still never
\* holds more than MAX_QUEUE_SIZE frames.
QueueBounded == Len(frameQueue) <= MaxQueue

\* After another file was opened, or the video was cleared, neither the
\* queue nor the texture holds a frame of the earlier file.
NoStaleVideo ==
  /\ gui # "stopped" =>
       \A i \in 1 .. Len(frameQueue) : frameQueue[i][1] = videoPath
  /\ shown # NoFrame => shown[1] = videoPath

\* What only one decode thread at a time may see is done by the GUI when there is
\* none: m_DecodeThread is assigned (to a joinable std::thread that would end the
\* program, even after its function has returned), m_ThreadRunning is raised again
\* (a thread told to stop would go on), m_VideoPath, which the thread reads without
\* a lock, is changed, and the page is destroyed.
OneDecoder ==
  [][\/ decoder # "opening" /\ decoder' = "opening"
     \/ ~threadRunning /\ threadRunning'
     \/ videoPath' # videoPath
     \/ gui = "stopped" /\ after = "leavePage"
     => decoder = "none"]_vars

\* Once the decode thread has taken a seek and flushed the queue, the frame
\* that will answer it is the frame the user asked for: nothing older is in
\* front of it.  (Not so before the flush, see SeekAnswered, nor in a timer
\* tick, which skips frames on purpose.)
SoughtFrameFirst ==
  /\ forceUpdate /\ seekTarget = NoSeek /\ shown # NoFrame
  /\ decoder # "flush" /\ gui \notin {"seekSet", "tick"} /\ frameQueue # <<>>
  /\ currentFrameUI < totalFrames
  => Head(frameQueue)[2] = currentFrameUI

\* No wake-up of a filled queue is lost: once the decode thread sleeps, the
\* queue is full, or the GUI, which has just skipped or cleared frames, is
\* still to notify it.
SleepsWhenFull ==
  decoder = "blocked" =>
    \/ Len(frameQueue) = MaxQueue
    \/ gui = "tick" /\ frameQueue # <<>>
    \/ gui \in {"seekSet", "seekNotify"}

\* A seek that was requested behind the back of a thread that falls asleep is
\* not slept over: the forced update, which notifies, is still to come.
SeekNotSleptOver ==
  decoder = "blocked" /\ seekTarget # NoSeek => forceUpdate

\* view.cpp says that nothing is decoded "if seeking or paused to prevent
\* jitters": the frame that answers a seek is the frame that was sought.
SeekAnswered ==
  [][forceUpdate /\ ~forceUpdate' /\ gui = "update" /\ currentFrameUI < totalFrames
       /\ shown # NoFrame
     => shown'[2] = currentFrameUI]_vars

\* A seek that was requested is taken up by the decode thread even when that
\* thread sleeps on a full queue, unless the video is being closed.
SeekTaken == seekTarget # NoSeek ~> (seekTarget = NoSeek \/ ~threadRunning)

\* Once the user has let go of the controls, a seek to a frame the file has
\* (the clamp lets one index too many through) is answered with a frame, or
\* the video is closed.
SeekServed ==
  <>[](gui # "seekClear") =>
    (seekTarget # NoSeek
       ~> (~forceUpdate \/ ~threadRunning \/ currentFrameUI >= totalFrames))

\* "File selection can happen at any point during playback": closing the
\* decode thread, the first thing a selection does, comes to an end.
StopCompletes == gui = "stopJoin" ~> gui = "stopped"

\* The queue between the threads, seen by itself, is the bounded queue of
\* FrameQueue: every step of either thread fills it in file order, takes from
\* its front, empties it or leaves it alone.
Feed == INSTANCE FrameQueue
          WITH Frames <- Frame, Capacity <- MaxQueue, queue <- frameQueue
FeedSpec == Feed!Spec
=============================================================================
