SPECIFICATION Spec
CONSTANTS
  t1 = t1  t2 = t2
  Threads = {t1}
  Requests <- MCOneRequest
  Class <- MCClass
  MaxDischargeRetries = 3
  AuthnExpiry = 3
  AuthzExpiry = 1
  DischargeExpiries = {2}
  InteractionMethods <- MCInteractionMethods
  WebBrowser = "browser"
  LegacyKinds = {"agent", "browser"}
  Kinds = {"agent", "form", "browser"}
  Offers <- MCOffers
  MaxTime = 1
INVARIANT RefusalReported
