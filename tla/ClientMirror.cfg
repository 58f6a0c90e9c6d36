SPECIFICATION FairSpec
CONSTANTS
  Pane = {p1, p2}
  Tab = {t1, t2}
  Window = {w1, w2}
  None = None
  Gone = Gone
  First = p1
  FirstTab = t1
  FirstWindow = w1
  Home = Home
  Copies = 3
  MaxEvents = 3
  MaxQueued = 1
  NoRoom = FALSE
INVARIANTS TypeOK OnePanePerRemote 
PROPERTIES EachShown GoneLeaves
CHECK_DEADLOCK FALSE
