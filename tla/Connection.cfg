CONSTANTS
  m1 = m1
  m2 = m2
  m3 = m3
  Messages <- MCMessages
  MaxReceived = 2
SPECIFICATION FairSpec
CHECK_DEADLOCK FALSE
INVARIANTS OneWriteAtATime
PROPERTIES ChannelSpec EverythingIsWritten FailureIsReported
