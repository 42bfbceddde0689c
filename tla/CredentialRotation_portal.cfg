SPECIFICATION Spec
CONSTANTS
  Account = {"founder", "guest", "other"}
  Guest = {"guest"}
  Backend = {"b1", "b2"}
  ServedBy <- MCServedBy
  Credential = {"key", "new", "read-only"}
  Deployed <- MCDeployed
  KnownCredential = {"key", "new"}
  NewCredential = {"key", "new"}
  KeyPair = {k1, k2}
  Issued = k1
  Provisioned = {"b1"}
  Tab = {t1, t2}
  MaxFaults = 2
  MaxRotations = 3
  None = None
  Torn = Torn
INVARIANTS
  SignsForItsCertificate
  LockOutHasACause
  GuestsNeverRotate
PROPERTIES
  LockOutLasts
  RotationsEnd
  ImplementsRegister
\* Users may stop submitting, and a backend without its key does not start.
CHECK_DEADLOCK FALSE
