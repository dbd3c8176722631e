SPECIFICATION Spec
CONSTANTS
  r1 = r1
  r2 = r2
  read = read
  target = target
  h1 = h1
  h2 = h2
  None = None
  Row = {r1, r2}
  Model = {read, target}
  Hash = {h1, h2}
  ModelOf <- TwoModels
  HashOf <- SameHash
  Image = {}
  ReadModel = read
  s1 = s1
  s2 = s2
  s3 = s3
  Slot = {s1, s2}
  Batch = 2
  RetryLimit = 1
  MaxRetries = 1
  MaxTries = 1
  MaxChecks = 2
  MaxFaults = 1
INVARIANTS TypeOK 
PROPERTIES CompleteIsFinalForText ImplementsRows
CHECK_DEADLOCK FALSE
SYMMETRY Slots2
