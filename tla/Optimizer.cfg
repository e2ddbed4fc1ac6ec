\* Every block of the five profiles, through the whole pipeline.
CONSTANTS
  ByteBits = 2
  WordBits = 4
  DwordBits = 5
  RegOrder <- MCRegOrder
  Profiles <- MCProfiles
  Starts <- MCStarts
SPECIFICATION Spec
CHECK_DEADLOCK FALSE
INVARIANT ValidAfterEveryPass
INVARIANT PublishedStatePreserved
PROPERTY CleanupPreservesMeaning
