SPECIFICATION FairSpec
CONSTANTS
  MAX_QUEUE_SIZE = 1
  p1 = p1
  bad = bad
  NoPage = NoPage
  Pages <- MCPages
  InvalidPages <- MCInvalidPages
  MAX_PACKET = 2
  FIFO_CHUNK = 2
  EMR_SIZE = 1
  BUFFER_SIZE = 3
  FrameLengths = {2}
  Commands = {"SEND"}
PROPERTIES
  PagesLeave
  RawServed
