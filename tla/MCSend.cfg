SPECIFICATION MCSpec
CONSTANTS
  c1 = c1
  c2 = c2
  c3 = c3
  s1 = s1
  s2 = s2
  l1 = l1
  l2 = l2
  p1 = p1
  Tokens <- MCTokens
  MaxTokens = 7
  ChatIds <- MCChatIds
  Slugs <- MCSlugs
  Labels <- MCLabels
  Aliases <- MCAliases
  MessageIds = {1, 2}
SYMMETRY MCSymmetry
CHECK_DEADLOCK FALSE
INVARIANTS Balanced NothingRewritten NeverInsideItself NamesLeadBack LandsWhereSeen HistoryKeepsCustomer
