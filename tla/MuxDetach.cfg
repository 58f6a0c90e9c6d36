CONSTANTS
  Pane = {p1, p2}
  Tab = {t1, t2}
  Window = {w1, w2}
  Remote = {p2}
  Op = {o1, o2}
  ResizeMayFail = TRUE
  MaxQueue = 2
SPECIFICATION FairSpec
PROPERTIES PruneSparesLiving DeadPanesLeave
CHECK_DEADLOCK FALSE
