CONSTANTS
  m1 = m1
  m2 = m2
  m3 = m3
  main = main
  Messages <- MCMessages
  Threads <- MCThreads
  MaxReceived = 1
SPECIFICATION FairSpec
CHECK_DEADLOCK FALSE
INVARIANTS QuitIsClean
PROPERTIES ChannelSpec SendsAreWritten Quits
