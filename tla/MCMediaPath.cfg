CONSTANTS
  FRAME = 3
  MaxSamples = 3
  Unset = Unset
  Width = 8
  MAX_XCODING_INSTANCES = 5
  AllIn = AllIn
  None = None
  SizeLen = 2
  RestLen = 2
  PrevLen = 2
  SignatureLen = 3
  TagLens = {1, 3}
  AdjustPTS = 4
  ChunkLen = 8
  MaxTags = 3
SPECIFICATION Spec
INVARIANTS SamplesInOrder ScalersFit PicturesFit EverybodyElseIsHeard TagsInOrder NoTagHeldBack
CHECK_DEADLOCK FALSE
