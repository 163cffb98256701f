SPECIFICATION MCSpec
CONSTANTS
  c1 = c1
  Chats <- MCChats
  Messages <- MCMessages
  MaxMessages = 3
  PlainMessages = 3
  TopicMessages = 0
  MaxTime = 3
  Cap = 2
  Pad = 1
CHECK_DEADLOCK FALSE
INVARIANTS CutIsFlagged
