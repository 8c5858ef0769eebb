CONSTANTS
  None = None
  Slots = {0}
  SpsPps = {"h1", "h2"}
  AudioFrame = 2
  Interval = 3
  Drift = 9
  VideoSteps = {3}
  AudioSteps = {2}
  Decodes = {TRUE, FALSE}
  Skew = 3
  MaxTime = 6
  MaxSpsPps = 2
  MaxPublishers = 1
SPECIFICATION Spec
INVARIANT NoAssertionFails
