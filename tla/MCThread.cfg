SPECIFICATION MCSpec
CONSTANTS
  c1 = c1
  Chats <- MCChats
  Messages <- MCMessages
  MaxMessages = 5
  PlainMessages = 4
  TopicMessages = 3
  MaxTime = 3
  Cap = 3
  Pad = 1
CHECK_DEADLOCK FALSE
INVARIANTS WholeConversation CutAroundAnchor
