SPECIFICATION Spec
CONSTANTS
  t1 = t1
  b1 = b1
  b2 = b2
  e1 = e1
  w1 = w1
  w2 = w2
  k1 = k1
  k2 = k2
  k3 = k3
  Absent = Absent
  Gone = Gone
  None = None
  Trace = {t1}
  Book = {b1, b2}
  Evidence = {}
  Strategy = {"full_recipe_context", "exp_full_headed"}
  WithEvidence = {"full_recipe_context", "exp_full_headed"}
  DepositStrategies = {"full_recipe_context"}
  WriteBooks = {}
  Src = {k1, k2, k3}
  Worker = {w1, w2}
  MayShare = FALSE
  MaxCrashes = 1
INVARIANTS TypeOK NoOrphans
PROPERTY ActsWhereAuthorised
CHECK_DEADLOCK FALSE
SYMMETRY Alike
