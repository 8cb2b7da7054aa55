SPECIFICATION FairSpec
CONSTANTS
  Tids = {t1}
  t1 = t1
  Workers = {w1, w2}
  w1 = w1
  w2 = w2
  None = None
  MaxInbox = 1
INVARIANTS GoingIsWorked WorkersAreHeld HistoryTells
PROPERTIES SharedByRestart GoingEnds
CHECK_DEADLOCK FALSE
