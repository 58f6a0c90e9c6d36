CONSTANTS
  Pane = {p1, p2}
  Tab = {t1, t2}
  Window = {w1, w2}
  Remote = {}
  Op = {o1, o2}
  ResizeMayFail = FALSE
  MaxQueue = 2
SPECIFICATION Spec
PROPERTY QuitOnlyWhenEmpty
CHECK_DEADLOCK FALSE
