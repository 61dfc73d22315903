CONSTANTS
  Producers = {p1, p2}
  Consumers = {c1, c2}
  Items = {i1, i2}
  Guard = Guard
  MaxShutdowns = 1
SPECIFICATION FairQueueSpec
INVARIANTS QueueExact NoLostWakeup DrainedBeforeGuards
PROPERTY SleeperServed
