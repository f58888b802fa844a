\* A Seal with a body and an attachment still under the vault key, in two tabs of one session, each able
\* to make its own note key; one ordinary device that writes the Seal before and after.
SPECIFICATION Spec
CONSTANTS
  o1 = o1  o2 = o2  note = note  wrap = wrap  body = body  file = file
  s1 = s1  s2 = s2  w1 = w1  w2 = w2  c1 = c1  t1 = t1  t2 = t2  n1 = n1  n2 = n2
  k0 = k0  k1 = k1  k2 = k2
  Ops = {o1}
  Notes = {}  Wrappers = {wrap}  Bodies = {body}  Files = {file}  SealFiles = {file}
  WrapperOf <- MCWrapperOf
  Sids = {s1}  Workers = {w1, w2}  SidOf <- MCSidOf
  Clients = {c1}  Texts = {t1}  IVs = {n1, n2}
  Objects = {k0, k1}  FirstObject <- MCFirst
  Genesis = Genesis  MaxFence = 1  MaxRev = 0
  Null = Null  Junk = Junk  None = None
SYMMETRY Symmetry
INVARIANTS TypeOK VaultOpens NeededObjectsAreKept StagedSealsAgree

