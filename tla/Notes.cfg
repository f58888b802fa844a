\* A Seal's key, promotion, drafts, history, lists, tags and self-destruction, one at a time.
SPECIFICATION NotesSpec
CONSTANTS
  Parts = {"written", "title", "promotion", "drafts", "history", "lists", "tags", "destruct"}
  a1 = a1  b1 = b1  n1 = n1  m1 = m1  u1 = u1  x1 = x1
  Devices = {a1, b1}  Texts = {x1}  MaxKeys = 2  MaxVersions = 2  Lossy = TRUE  None = None
  Notes = {n1}  First = n1  Tabs = {a1}  MaxFiles = 2  MaxSaves = 1  MaxWork = 2  MaxHistory = 1
  Batch = 3  Restored = FALSE
  Windows = {a1, b1}  Accounts = {u1}  Tier = "secret"  MaxText = 1  MaxSlots = 1  MaxTries = 2  MaxTurns = 2
  Wordings = {1, 2, 3}  Window = 1  Cap = 2  MaxRows = 4  MaxTime = 2  MaxSteps = 3  Hasty = FALSE
  Cards = {n1, m1}  Fresh = {m1}  MaxWrites = 2  MaxViews = 1  OpensLate = FALSE
  MaxTags = 2  MaxIds = 2  MaxNames = 2  MaxCalls = 2  MaxMishaps = 1  Waits = TRUE
  Readers = {1, 2}  MaxHours = 2  MaxDeeds = 3  MaxLost = 1
SYMMETRY Symmetry
CHECK_DEADLOCK FALSE
INVARIANTS TypesOK EverythingOpens TagsAgree ReadersDecide
PROPERTIES PromotionLosesNothing DraftsAreSafe HistoryIsKept ListsAreTrue
