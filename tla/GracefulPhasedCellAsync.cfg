SPECIFICATION BoundedSpec
CONSTANTS
  Tasks = {t1, t2, t3}
  Nobody = Nobody
  Allowed = {"cancelled", "panicked", "contended", "missed", "surplus"}
  MaxAccidents = 1
SYMMETRY TaskSymmetry
INVARIANTS
  Inv
  ForgottenOnlyByAccident
PROPERTIES
  WaitOkOnlyWhenDrained
  ImplementsPhasedCellAsync
