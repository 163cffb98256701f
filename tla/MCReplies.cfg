SPECIFICATION Spec
CONSTANTS
  c1 = c1
  c2 = c2
  Calls <- MCCalls
  MaxMessages = 3
  MaxVersions = 2
SYMMETRY MCSymmetry
INVARIANTS TypeOK AtMostOnce ReportHonest ShownIsStored NewestShown
PROPERTIES LatestNeverBack
