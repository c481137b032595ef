SPECIFICATION AsyncSpec
CONSTANTS
  Tasks = {t1, t2, t3}
  Nobody = Nobody
  Allowed = {"cancelled", "panicked", "contended"}
SYMMETRY TaskSymmetry
INVARIANTS
  ExclusiveMut
  TruthfulResults
  DataHome
  MutexReleased
  WedgedOnlyByAccident
  Inv
PROPERTIES
  TransitionsWindDown
  ImplementsAbandonableLifecycle
