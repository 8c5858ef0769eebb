CONSTANTS
  a = a
  b = b
  None = None
  allinone = allinone
  karaoke = karaoke
  Senders = {a, b}
  InitiallyIn = {a}
  SystemNames = {allinone, karaoke}
  AllInOneNames = {allinone}
  KaraokeNames = {karaoke}
  MAX_STREAM_COUNT = 2
  f1 = f1
  Frames = {f1}
  QueueBound = 1
  PipeCap = 1
  MaxChanges = 2
SPECIFICATION Spec
CHECK_DEADLOCK FALSE
INVARIANTS WaitsOnlyUntilSomethingIsAdded
