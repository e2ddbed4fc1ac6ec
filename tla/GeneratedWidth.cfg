\* inc eax; movzx ecx, al; inc ecx.
CONSTANTS
  ByteBits = 2
  WordBits = 4
  DwordBits = 5
  RegOrder <- MCRegOrder
  Profiles <- MCExtended
  Starts <- MCStarts
SPECIFICATION Spec
CHECK_DEADLOCK FALSE
INVARIANT GeneratedCodeExact
