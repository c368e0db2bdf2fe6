CONSTANTS
  Runs = {r1, r2, r3}
  Requests = {q1, q2}
  NoRun = NoRun
SPECIFICATION Spec
SYMMETRY Symmetry
INVARIANTS
  TypeOK
  PermissionsAgree
  SessionAgrees
  EveryRunIsAnnounced
CHECK_DEADLOCK FALSE
