CONSTANTS
  None = None
  Slots = {0, 1}
  SpsPps = {"h1"}
  AudioFrame = 2
  Interval = 3
  Drift = 9
  VideoSteps = {3}
  AudioSteps = {2}
  Decodes = {TRUE}
  Skew = 3
  MaxTime = 4
  MaxSpsPps = 1
  MaxPublishers = 1
SPECIFICATION Spec
INVARIANTS TypeOK NoAssertionFails MixedHavePictures
PROPERTIES AudioGoesBackOnlyForANewStream VideoNeverGoesBack VideoIsNotFasterThanAudio
