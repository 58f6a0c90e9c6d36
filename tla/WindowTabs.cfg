CONSTANTS
  Tab = {t1, t2, t3, t4}
  NoTab = NoTab
  SwitchToLastSettings = {TRUE, FALSE}
SPECIFICATION Spec
INVARIANTS TypeOK NoTabTwice ActiveIsListed
PROPERTIES ActiveTabFollowed OrderKept
SYMMETRY TabSymmetry
