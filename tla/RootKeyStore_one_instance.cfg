SPECIFICATION FairSpec
CONSTANTS
  t1 = t1  t2 = t2  i1 = i1  i2 = i2  id1 = id1  bogus = bogus
  Threads = {t1, t2}
  Instances = {i1}
  Home <- TwoThreadsOneInstance
  Ids = {id1}
  BogusIds = {bogus}
  NoId = NoId
  Absent = Absent
  NoThread = NoThread
  PolicyParams <- TwoPolicies
  MaxTime = 2
  MaxCacheSize = 1
  MaxPolicyCache = 1
INVARIANTS CacheBounded
PROPERTIES ImplementsService CallsReturn
