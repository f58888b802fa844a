\* Authenticators offline, the generation marker, the walk and the wizard of a rotation, one at a time.
SPECIFICATION BrowserSpec
CONSTANTS
  Parts = {"otp", "pages", "faults", "walk", "wizard"}
  a1 = a1  b1 = b1  p1 = p1  q1 = q1  m1 = m1  n1 = n1  x1 = x1
  Cards = {x1}  Windows = {a1, b1}  Browsers = {p1, q1}
  MaxWrites = 2  MaxTurns = 1  MaxBusy = 2  MaxWork = 3  Watched = {}
  Tabs = {a1, b1}  Devices = {a1, b1}  Homes <- MCHomes
  MaxGen = 1  MaxShares = 3  MaxTasks = 4  MaxFaults = 1  Stored = TRUE
  Inventories <- MCInventories  Attempts = 2  MaxPage = 2  MaxValues = 6  MaxLosses = 2  MaxWalks = 2
  Screens = {x1}  Machines = {m1, n1}  Seats <- MCSeats
  MaxSids = 3  MaxOps = 2  MaxTargets = 2  MaxSlips = 1  MaxWhims = 1  Forgetful = FALSE
SYMMETRY Symmetry
CHECK_DEADLOCK FALSE
INVARIANTS TypesOK RotationLeavesAWayIn WalkIsWhole WizardIsSound
 
