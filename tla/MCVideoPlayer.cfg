CONSTANTS
  v1 = v1
  v2 = v2
  NoVideo = NoVideo
  NoFrame = NoFrame
  Videos = {v1, v2}
  Length <- TwoVideos
  MaxQueue = 2
  Deltas <- OneStep
SPECIFICATION Spec
INVARIANTS
  TypeOK
  QueueBounded
  NoStaleVideo
  SoughtFrameFirst
  SleepsWhenFull
  SeekNotSleptOver
PROPERTIES
  OneDecoder
  FeedSpec
