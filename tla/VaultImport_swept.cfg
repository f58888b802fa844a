\* An import expires while its commit is under way and the daily cleanup comes by.
SPECIFICATION VaultsSpec
CONSTANTS
  Parts = {"import"}
  a1 = a1  b1 = b1  r1 = r1  r2 = r2  f1 = f1
  Devices = {a1}  Tables = 1  MaxKeys = 2  KeepsShare = TRUE  Lossy = TRUE  None = None
  Pages = {a1, b1}  Records = {r1, r2}  PlainNotes = {r1}  Bound = {r2}  Files = {f1}  Owner <- MCOwner
  MaxImports = 1  MaxEdits = 1  SweepInCommit = TRUE
  Entries <- MCEntries  MaxRuns = 2  MaxVaultChanges = 1
  ChunkBytes = 2  TagBytes = 1  HeadBytes = 2  MaxBytes = 5  MaxPiece = 4
  Tiers = {"secret", "seal"}  MaxText = 1  MaxChanges = 1  MaxFaults = 1  MaxActs = 8  MaxSaves = 1
  Kept = TRUE  Patient = TRUE
SYMMETRY Symmetry
CHECK_DEADLOCK FALSE
INVARIANTS ImportedFilesExist
