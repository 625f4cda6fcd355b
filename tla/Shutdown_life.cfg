CONSTANTS
  Client = {c1}
  Topic = {t1}
  Priority = {255}
  MaxArrivals = 2
  Signal = {int, term}
  MetricsTopic = t1
SPECIFICATION FairLifeSpec
INVARIANT LifeTypeOK
INVARIANT NothingSurvivesExit
INVARIANT RoutesWhileServing
PROPERTY NoServiceAfterStop
PROPERTY ShutdownCompletes
PROPERTY EventuallyServed
PROPERTY StopCompletes
CHECK_DEADLOCK FALSE
