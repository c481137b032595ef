SPECIFICATION Spec
INVARIANTS
  AssertionsHold
