SPECIFICATION MCSpec
CONSTANTS
  F = F
  B = B
  N = N
  G = G
  T1 = T1
  Institution = {F, B, N}
  ProposalId = {p1}
  CertificateId = {x1}
  Founders = {F, B}
  Account = {F, N, G}
  Guest = {G}
  MspOf <- MCMspOf
  Tab = {T1}
  MaxRequests = 2
  MaxElsewhere = 2
  InstitutionId = {F, N}
  PrivatePath = {"/", "/governance"}
  BrowserTab = {T1, T2}
  MaxSessions = 2
  MaxRemovals = 1
  None = None
  Null = Null
INVARIANTS
  NoticesAreTrue
  ClientErrorsAreFinal
  RetriesCountOnce
  VoteIsReflected
  ListedOnce
  NotFoundFits
  PagesNeedSignIn
PROPERTIES
  RequestsEnd
  SessionsEndForAReason
  OnlyOrphansLoop
