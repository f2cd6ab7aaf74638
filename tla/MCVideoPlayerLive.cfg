CONSTANTS
  v1 = v1
  v2 = v2
  NoVideo = NoVideo
  NoFrame = NoFrame
  Videos = {v1, v2}
  Length <- BrokenVideo
  MaxQueue = 1
  Deltas <- OneStep
SPECIFICATION FairSpec
PROPERTIES
  SeekTaken
  SeekServed
