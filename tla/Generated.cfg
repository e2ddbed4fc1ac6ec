\* Short blocks and every form, through the optimizer and both code generators.
CONSTANTS
  ByteBits = 2
  WordBits = 4
  DwordBits = 5
  RegOrder <- MCRegOrder
  Profiles <- MCGenerated
  Starts <- MCStarts
SPECIFICATION Spec
CHECK_DEADLOCK FALSE
INVARIANT InPlaceCodeExact
INVARIANT InterpreterExact
INVARIANT FaultsArePrecise
