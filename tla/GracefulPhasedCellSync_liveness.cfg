SPECIFICATION UnlockedFairSpec
CONSTANTS
  Threads = {t1, t2, t3}
  Nobody = Nobody
  TimeoutsFire = FALSE
  Misusers = {t3}
INVARIANTS
  CounterBounded
PROPERTIES
  TransitionsEnd
  ReadersAnswered
