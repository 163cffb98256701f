SPECIFICATION Spec
CONSTANTS
  c1 = c1
  c2 = c2
  Calls <- MCOneCall
  MaxMessages = 2
  MaxVersions = 2
INVARIANTS NewestAlways
