SPECIFICATION Spec
CONSTANTS
  Threads = {t1, t2}
  Bufs = {b1, b2}
  Objects = {o1, o2, f1}
  Foreign = {f1}
  None = None
  MaxFd = 2
  Planes = {0, 1, 2}
  Liberties = {}
SYMMETRY Symmetry
INVARIANTS
  TypeOK
  LiveBuffersUsable
  HandlesLeakOnlyOnGivingUp
PROPERTY PoolSpec
