SPECIFICATION PhasedCellSpec
CONSTANTS
  Threads = {t1, t2, t3}
  Nobody = Nobody
INVARIANTS
  ExclusiveMut
  MutatorSeesAll
  ReadersSeeSetup
  Inv
PROPERTIES
  ImplementsLifecycle
