SPECIFICATION GracefulSpec
CONSTANTS
  Threads = {t1, t2, t3}
  Nobody = Nobody
  TimeoutsFire = TRUE
  Misusers = {}
SYMMETRY ThreadSymmetry
INVARIANTS
  NoLostWakeup
  NoCircularWait
  ErrorsLagBehind
  Inv
PROPERTIES
  WaitOkOnlyWhenDrained
  ImplementsPhasedCellSync
