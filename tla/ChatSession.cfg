SPECIFICATION FairSpec
CONSTANTS
  Windows = {w1, w2}
  w1 = w1
  w2 = w2
  MaxChats = 2
  MaxMessages = 4
INVARIANTS RepliesAnswerTheirPath TreesAreWhole EditsStayHome IndexNeverAhead
PROPERTIES SavesOnlyAdd StopFrees
CHECK_DEADLOCK FALSE
