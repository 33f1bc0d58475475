CONSTANTS
  Workers = {w1, w2, w3}
  PoolSize = 2
  MaxDown = 1
  MaxCalls = 2
  QueueBound = 2
SPECIFICATION FairSpec
INVARIANTS Conservation NoLostWakeup NoStall
PROPERTIES SomebodyGetsThrough
