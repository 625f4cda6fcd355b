CONSTANTS
  Topic = {t1, t2}
  Priority = {0, 128, 255}
  MaxArrivals = 5
SPECIFICATION Spec
SYMMETRY Symmetry
INVARIANT TypeOK
INVARIANT ServedByPriority
INVARIANT ServedOnce
CHECK_DEADLOCK FALSE
