SPECIFICATION FairSpec
CONSTANTS
  r1 = r1
  r2 = r2
  read = read
  target = target
  h1 = h1
  h2 = h2
  None = None
  Row = {r1}
  Model = {read}
  Hash = {h1, h2}
  ModelOf <- OneRow
  HashOf <- OneHash
  Image = {}
  ReadModel = read
  s1 = s1
  s2 = s2
  s3 = s3
  Slot = {s1, s2, s3}
  Batch = 2
  RetryLimit = 1
  MaxRetries = 1
  MaxTries = 1
  MaxChecks = 1
  MaxFaults = 1
PROPERTY EveryRowSettles
CHECK_DEADLOCK FALSE
