SPECIFICATION FairSpec
CONSTANTS
  Conversations = {"a", "b", "c"}
  Groups <- MCGroups
  Wanted <- MCWanted
  Needs <- MCNeeds
  Headers <- MCHeaders
  Answers <- MCAnswers
  Additions <- MCAdditions
  Earlier = {"a"}
  LegacyOps <- MCLegacyOps
  Namespaces <- MCNamespaces
  Own <- MCOwn
  MaxDischarges <- MCMaxDischarges
  MaxTime = 2
INVARIANTS
  TypeOK
  DischargeJustified
  AnswerKnown
  Understood
  VerdictRight
  DeclaredRight
  CapabilityEquivalent
  OpsReadBack
  DischargerInv
PROPERTIES
  ImplementsPromise
  ConversationEnds
CHECK_DEADLOCK FALSE
