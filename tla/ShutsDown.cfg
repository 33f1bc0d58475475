CONSTANTS
  main = main
  pool = pool
  c1 = c1
  c2 = c2
  Main <- main
  Workers <- MCWorkers
  Clients <- MCClients
SPECIFICATION FairSpec
CHECK_DEADLOCK FALSE
PROPERTIES ShutsDown
