SPECIFICATION FairSpec
CONSTANTS
  Threads = {t1, t2, t3}
  Nobody = Nobody
INVARIANTS
  ExclusiveMut
  ReadPhaseIsImmutable
  ReadersMeetOnlyCleanup
  DataHome
  ImpossibleCase
  Inv
  PoisonNeverRead
  TruthfulResults
PROPERTIES
  ImplementsLifecycle
  TransitionsEnd
