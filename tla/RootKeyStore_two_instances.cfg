SPECIFICATION Spec
CONSTANTS
  t1 = t1  t2 = t2  i1 = i1  i2 = i2  id1 = id1  bogus = bogus
  Threads = {t1, t2}
  Instances = {i1, i2}
  Home <- TwoThreadsTwoInstances
  Ids = {id1}
  BogusIds = {bogus}
  NoId = NoId
  Absent = Absent
  NoThread = NoThread
  PolicyParams <- OnePolicy
  MaxTime = 3
  MaxCacheSize = 1
  MaxPolicyCache = 1
INVARIANTS TypeOK IssuedKeysFindable DurableInv
