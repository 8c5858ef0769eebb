CONSTANTS
  None = None
  Slots = {0}
  SpsPps = {"h1"}
  AudioFrame = 2
  Interval = 3
  Drift = 9
  VideoSteps = {3}
  AudioSteps = {2, 12}
  Decodes = {TRUE}
  Skew = 6
  MaxTime = 15
  MaxSpsPps = 2
  MaxPublishers = 2
SPECIFICATION Spec
INVARIANT QueuesSorted
