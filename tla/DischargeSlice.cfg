SPECIFICATION FairSpec
CONSTANTS
  Client = "client"
  Parties = {"new", "old"}
  Version <- MCVersion
  MaxTime = 1
  MaxKeys = 4
INVARIANTS
  TypeOK
  UniqueIds
  RequestVerifies
  SliceInv
PROPERTY
  DischargeAllReturns
