SPECIFICATION Spec
CONSTANTS
  NULL = NULL
  Crc <- CrcX25
  Scripts <- MCScripts
CHECK_DEADLOCK FALSE
INVARIANTS
  TypeOK
  FramesAreGreedy
  AcksAnswerInOrder
  QuietNoiseLosesNothing
PROPERTIES
  DecodingEnds
