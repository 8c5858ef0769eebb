CONSTANTS
  FRAME = 3
  MaxSamples = 4
  Unset = Unset
  Width = 8
  MAX_XCODING_INSTANCES = 3
  AllIn = AllIn
  None = None
  SizeLen = 2
  RestLen = 2
  PrevLen = 2
  SignatureLen = 3
  TagLens = {1, 3}
  AdjustPTS = 4
  ChunkLen = 8
  MaxTags = 1
SPECIFICATION Spec
INVARIANT SamplesInOrder
CHECK_DEADLOCK FALSE
