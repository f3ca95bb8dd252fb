SPECIFICATION IdentSpec
CONSTANTS
  Threads = {t1, t2}
  N = 1
  Ops = {"login", "read", "write"}
  NoOp = "noop"
  LoginOp = "login"
  Identities = {"alice", "bob"}
  Nobody = "nobody"
  MacaroonOps <- MCMacaroonOps
  Policies <- MCPolicies
  Requests <- MCSomeRequests
  Declares <- MCDeclares
  Acl <- MCAcl
  Contexts <- MCContexts
INVARIANTS
  OneIdentity
  ResultJustified
  IdentInv
PROPERTY IdentityKept
