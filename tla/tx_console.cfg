SPECIFICATION Spec
CONSTANTS
  MAX_QUEUE_SIZE = 2
  p1 = p1
  bad = bad
  NoPage = NoPage
  Pages <- MCPages
  InvalidPages <- MCInvalidPages
  MAX_PACKET = 3
  FIFO_CHUNK = 2
  EMR_SIZE = 1
  BUFFER_SIZE = 4
  FrameLengths = {3, 4}
  Commands <- MCAllCommands
INVARIANTS
  RingConsistent
  FlashKeptOutOfRf
  TransmittingOnlyInRf
  RawBufferExclusive
  UndisturbedFrameComplete
PROPERTY
  RingIsFifo
