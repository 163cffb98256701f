SPECIFICATION GFairSpec
CONSTANTS
  g1 = g1
  g2 = g2
  m1 = m1
  Chats <- MCBoth
  Groups <- MCBoth
  MessageIds <- MCMessageIds
  Updates <- MCUpdates
  MaxUpdates = 2
  Limit = 1
  Retries = 1
INVARIANTS GTypeOK BacklogRecovered NothingLostAcrossMaps
PROPERTIES SweepSparesMapped BufferBounded
