SPECIFICATION FairSpec
CONSTANTS
  MaxDischargeRetries = 3
  BodyLen = 3
INVARIANTS
  TypeOK
  BodyIntact
  ClosedAfterUse
  BodyInv
PROPERTY BodyClosed
