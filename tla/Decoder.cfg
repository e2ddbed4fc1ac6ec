\* A decoding ends: the last state has no successor.
CHECK_DEADLOCK FALSE
SPECIFICATION Spec
CONSTANTS
    Instructions <- X86_32_CORE
    Images <- AllImages
INVARIANT
    DecodersAgree
    RefusalsAgree
    ReadsStayInside
    FormsDispatchable
