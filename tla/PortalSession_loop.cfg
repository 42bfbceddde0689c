SPECIFICATION SessionSpec
CONSTANTS
  InstitutionId = {"A", "B"}
  PrivatePath = {"/"}
  BrowserTab = {t1}
  MaxSessions = 1
  MaxRemovals = 1
  Null = Null
PROPERTIES
  RedirectsEnd
CHECK_DEADLOCK FALSE
