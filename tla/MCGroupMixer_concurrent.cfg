CONSTANTS
  c1 = c1
  c2 = c2
  a = a
  b = b
  None = None
  allinone = allinone
  karaoke = karaoke
  karaoke_delayed = karaoke_delayed
  Conns = {c1, c2}
  ClientNames = {a, b}
  SystemNames <- SystemStreams
  AllInOneNames = {allinone}
  KaraokeNames = {karaoke}
  MAX_STREAM_COUNT = 3
  Serial = FALSE
  MaxBacklog = 3
SPECIFICATION Spec
INVARIANTS IdsInStep
