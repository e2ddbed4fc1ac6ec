\* lea ecx, [eax+1]; mov eax, 5; nop.
CONSTANTS
  ByteBits = 2
  WordBits = 4
  DwordBits = 5
  RegOrder <- MCRegOrder
  Profiles <- MCOvertaken
  Starts <- MCStarts
SPECIFICATION Spec
CHECK_DEADLOCK FALSE
INVARIANT GeneratedCodeExact
