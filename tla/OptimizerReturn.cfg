\* Two writes of esp around one access.
CONSTANTS
  ByteBits = 2
  WordBits = 4
  DwordBits = 5
  RegOrder <- MCRegOrder
  Profiles <- MCEpilogues
  Starts <- MCStarts
SPECIFICATION Spec
CHECK_DEADLOCK FALSE
INVARIANT PublishedStatePreserved
