SPECIFICATION AsyncSpec
CONSTANTS
  Tasks = {t1, t2}
  Nobody = Nobody
  Allowed = {"contended"}
PROPERTIES
  RefusedDuringTransition
