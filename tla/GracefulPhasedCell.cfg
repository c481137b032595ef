SPECIFICATION GracefulSpec
CONSTANTS
  Threads = {t1, t2, t3}
  Nobody = Nobody
  TimeoutsFire = TRUE
  Misusers = {t3}
SYMMETRY ThreadSymmetry
INVARIANTS
  Inv
  NoLostWakeup
PROPERTIES
  ImplementsPhasedCell
