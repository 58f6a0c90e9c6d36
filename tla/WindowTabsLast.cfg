CONSTANTS
  Tab = {t1, t2, t3, t4}
  NoTab = NoTab
  SwitchToLastSettings = {TRUE}
SPECIFICATION Spec
PROPERTIES PreviousTabActivated
CHECK_DEADLOCK FALSE
SYMMETRY TabSymmetry
