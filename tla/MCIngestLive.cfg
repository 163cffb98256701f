SPECIFICATION FairSpec
CONSTANTS
  g1 = g1
  g2 = g2
  p = p
  m1 = m1
  m2 = m2
  Chats <- MCChats
  Groups <- MCGroups
  MessageIds <- MCMessageIds
  Updates <- MCFewUpdates
  MaxUpdates = 2
  Limit = 2
  Retries = 2
PROPERTIES Drains
