SPECIFICATION Spec
CONSTANTS
  Threads = {t1}
  Bufs = {b1, b2}
  Objects = {o1, f1}
  Foreign = {f1}
  None = None
  MaxFd = 2
  Planes = {1}
  Liberties = {"import"}
PROPERTY ImportsReleased
