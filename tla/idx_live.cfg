SPECIFICATION FairSpec
CONSTANTS
  t1 = t1
  b1 = b1
  b2 = b2
  e1 = e1
  w1 = w1
  w2 = w2
  k1 = k1
  k2 = k2
  k3 = k3
  Absent = Absent
  Gone = Gone
  None = None
  Trace = {t1}
  Book = {b1, b2}
  Evidence = {e1}
  Strategy = {"full_recipe_context", "exp_full_headed"}
  WithEvidence = {"full_recipe_context", "exp_full_headed"}
  DepositStrategies = {"full_recipe_context"}
  WriteBooks = {b1}
  Src = {k1, k2, k3}
  Worker = {w1}
  MayShare = FALSE
  MaxCrashes = 0
INVARIANTS  EvidencePruned
PROPERTIES EveryTraceIndexed ImplementsRecipes
CHECK_DEADLOCK FALSE
