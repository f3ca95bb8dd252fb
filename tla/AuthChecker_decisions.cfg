SPECIFICATION Spec
CONSTANTS
  Threads = {t1}
  N = 2
  Ops = {read, write}
  NoOp = noop
  MacaroonOps <- MCMacaroonOps
  Policies <- MCPolicies
INVARIANTS
  TypeOK
  DecisionJustified
  IndexesJustified
  DecisionInv
