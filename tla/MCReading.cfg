SPECIFICATION MCSpec
CONSTANTS
  c1 = c1
  c2 = c2
  a1 = a1
  a2 = a2
  Chats <- MCChats
  Agents <- MCAgents
  Messages <- MCMessages
  MaxMessages = 3
  MaxTime = 2
  MaxLimit = 2
  MaxPage = 2
  Window = 0
  Letters <- MCLetters
  Texts <- MCTexts
  Queries <- MCQueries
  MaxHits = 1
  Searched = 2
SYMMETRY MCSymmetry
CHECK_DEADLOCK FALSE
INVARIANTS NothingHidden HandledStays NothingSkipped PagesGoBack SpelledFound LooseLast
