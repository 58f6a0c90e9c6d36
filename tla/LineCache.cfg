CONSTANTS
  MaxRow = 2
  Height = 1
  Tag = {t1, t2}
  NoTag = NoTag
  Images = FALSE
  MaxSeqno = 2
  MaxDrops = 1
SPECIFICATION FairSpec
INVARIANTS TypeOK NothingLost NeverWaitsInVain
PROPERTY EventuallyShown
CHECK_DEADLOCK FALSE
