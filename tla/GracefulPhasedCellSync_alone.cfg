SPECIFICATION GracefulSpec
CONSTANTS
  Threads = {t1, t2}
  Nobody = Nobody
  TimeoutsFire = FALSE
  Misusers = {}
INVARIANTS
  CleanupRunsAlone
