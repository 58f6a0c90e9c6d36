CONSTANTS
  Pane = {p1, p2}
  Tab = {t1, t2}
  Window = {w1}
  Remote = {}
  Op = {o1, o2}
  ResizeMayFail = FALSE
  MaxQueue = 2
SPECIFICATION FairSpec
PROPERTY QuitWhenWindowsClosed
CHECK_DEADLOCK FALSE
