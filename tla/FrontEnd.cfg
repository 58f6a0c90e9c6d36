SPECIFICATION FairSpec
CONSTANTS
  MaxWindows = 3
  MaxGuiWindows = 2
  MaxWorkspaces = 2
  MaxEvents = 4
  MaxQueued = 1
INVARIANTS TypeOK ActiveShown OthersHidden NotLeftEmpty SwitchPending
PROPERTIES ComesToRest
CHECK_DEADLOCK FALSE
