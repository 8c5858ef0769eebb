CONSTANTS
  MAX_XCODING_INSTANCES = 3
  HeaderLen = 2
  MaskLen = 2
  StreamHeaderLen = 2
  FrameLens = {1, 3}
  ReadLen = 5
  AssertionsEnabled = FALSE
  MaxSegments = 2
SPECIFICATION Spec
INVARIANTS TypeOK InStep DeliveredInOrder NothingHeldBack
CHECK_DEADLOCK FALSE
