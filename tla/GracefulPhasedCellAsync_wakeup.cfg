SPECIFICATION GracefulSpec
CONSTANTS
  Tasks = {t1, t2}
  Nobody = Nobody
  Allowed = {"missed"}
  MaxAccidents = 1
INVARIANTS
  NoLostWakeup
