SPECIFICATION Spec
CONSTANTS
  Client = "client"
  Parties = {"new"}
  Version <- MCVersionNew
  MaxTime = 1
  MaxKeys = 4
INVARIANT ReacquiredVerifies
