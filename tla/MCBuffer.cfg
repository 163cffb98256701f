SPECIFICATION FairSpec
CONSTANTS
  m1 = m1
  m2 = m2
  NoMessage = NoMessage
  Messages <- MCMessages
  Versions <- MCVersions
INVARIANTS TypeOK IndexInStep
PROPERTIES ImplementsAtomicStore Boots
