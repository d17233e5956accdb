SPECIFICATION Spec
CONSTANTS
  MAX_QUEUE_SIZE = 1
  p1 = p1
  bad = bad
  NoPage = NoPage
  Pages <- MCPages
  InvalidPages <- MCInvalidPages
  MAX_PACKET = 2
  FIFO_CHUNK = 1
  EMR_SIZE = 1
  BUFFER_SIZE = 4
  FrameLengths = {3}
  Commands = {"AT"}
INVARIANT
  FrameComplete
