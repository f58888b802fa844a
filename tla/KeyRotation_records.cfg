\* A record vault: two operations, two sessions with a tab each, one ordinary device.
SPECIFICATION Spec
CONSTANTS
  o1 = o1  o2 = o2  note = note  wrap = wrap  body = body  file = file
  s1 = s1  s2 = s2  w1 = w1  w2 = w2  c1 = c1  t1 = t1  t2 = t2  n1 = n1  n2 = n2
  k0 = k0  k1 = k1  k2 = k2
  Ops = {o1, o2}
  Notes = {note}  Wrappers = {}  Bodies = {}  Files = {}  SealFiles = {}
  WrapperOf <- MCWrapperOf
  Sids = {s1, s2}  Workers = {w1, w2}  SidOf <- MCSidOf
  Clients = {c1}  Texts = {t1}  IVs = {n1}
  Objects = {}  FirstObject <- MCFirst
  Genesis = Genesis  MaxFence = 2  MaxRev = 0
  Null = Null  Junk = Junk  None = None
INVARIANTS KeyIsRecoverable 
PROPERTIES ActivationKeepsPlaintext ChangesAreAtomic ImplementsContract
