CONSTANTS
  p1 = p1
  c1 = c1
  c2 = c2
  s1 = s1
  Producers = {p1}
  Consumers = {c1, c2}
  Closers = {s1}
  Capacity = 2
  MaxPush <- MCThreePush
SPECIFICATION FairSpec
INVARIANTS TypeOK ExactlyOnceInOrder RefusedNeverEnters ClosedMeansDrained NoLostWakeup
PROPERTIES NothingAcceptedAfterClose ImplementsFifo ShutdownReleasesAll ItemMeetsWaiter
