CONSTANTS
  v1 = v1
  v2 = v2
  NoVideo = NoVideo
  NoFrame = NoFrame
  Videos = {v1}
  Length <- OneVideo
  MaxQueue = 2
  Deltas <- OneStep
SPECIFICATION Spec
PROPERTY
  SeekAnswered
