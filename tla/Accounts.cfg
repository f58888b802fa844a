\* Sign-ins, sign-in methods, the desktop exchange and email codes, one at a time.
SPECIFICATION AccountsSpec
CONSTANTS
  Parts = {"sessions", "methods", "desktop", "codes"}
  a1 = a1  b1 = b1  r1 = r1  g1 = g1  w1 = w1  v1 = v1  k1 = k1  e1 = e1
  Sids = {a1, b1}  Reqs = {r1}  SessionLifetime = 3  TokenLifetime = 3
  MaxNow = 7  MaxEpoch = 1  Legacy = Legacy  None = None
  Accounts = {1, 2}  Subjects = {g1, w1, v1}  Passkeys = {k1}  Requests = {a1, b1}
  Provider <- MCProvider  Reported <- MCReported  Address = {e1}
  MaxActs = 4  MaxGenerations = 1  Nobody = Nobody
  MaxAttempts = 2  Exchanges = {1, 2}  TryLimit = 2  MaxFaults = 1  MaxWindows = 1
  Forms = {a1, b1}  MaxCodes = 2  GuessLimit = 2  Quota = 2  MaxSteps = 4
SYMMETRY Symmetry
CHECK_DEADLOCK FALSE
INVARIANTS TypesOK NoResurrection RotationSessionIsAlone
PROPERTIES  MethodsAreSound ExchangesAreSound KeepsItsPromise 
