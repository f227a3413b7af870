SPECIFICATION Spec
CONSTANTS
  Threads = {t1}
  Bufs = {b1, b2}
  Objects = {o1, f1}
  Foreign = {f1}
  None = None
  MaxFd = 3
  Planes = {2}
  Liberties = {"switch", "import", "alias"}
SYMMETRY Symmetry
INVARIANT FdsAndFbsReleased
