SPECIFICATION Spec
CONSTANTS
  r1 = r1
  r2 = r2
  read = read
  target = target
  h1 = h1
  h2 = h2
  None = None
  Row = {r1, r2}
  Model = {read, target}
  Hash = {h1, h2}
  ModelOf <- Rebuilt
  HashOf <- OwnHash
  Image = {r2}
  ReadModel = read
  s1 = s1
  s2 = s2
  s3 = s3
  Slot = {s1, s2}
  Batch = 2
  RetryLimit = 0
  MaxRetries = 0
  MaxTries = 1
  MaxChecks = 1
  MaxFaults = 1
INVARIANTS CacheHoldsWhatItHashes CachedOnlyIfWritten NoRowStranded
CHECK_DEADLOCK FALSE
SYMMETRY Slots2
