SPECIFICATION Spec
CONSTANTS
  g1 = g1
  g2 = g2
  p = p
  m1 = m1
  m2 = m2
  Chats <- MCChats
  Groups <- MCGroups
  MessageIds <- MCMessageIds
  Updates <- MCTwoUpdates
  MaxUpdates = 3
  Limit = 3
  Retries = 3
PROPERTIES EditsNeverUndone
