CONSTANTS
  Pane = {p1, p2, p3}
  Tab = {t1, t2}
  Window = {w1, w2}
  Remote = {}
  Op = {o1, o2, o3}
  ResizeMayFail = FALSE
  MaxQueue = 1
SPECIFICATION Spec
INVARIANTS TypeOK PaneInOneTab ListedTabsKnown PruneNotLost
SYMMETRY MuxSymmetry
CHECK_DEADLOCK FALSE
