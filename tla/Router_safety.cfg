CONSTANTS
  Client = {c1, c2}
  Topic = {t1}
  Priority = {0, 255}
  MaxArrivals = 2
SPECIFICATION Spec
SYMMETRY Symmetry
INVARIANT TypeOK
INVARIANT NoLostWakeup
INVARIANT DeliveredInOrder
INVARIANT FanoutReachesEveryone
PROPERTY NoResurrection
PROPERTY ImplementsQoSQueue
CHECK_DEADLOCK FALSE
