SPECIFICATION HashSpec
CONSTANTS
    Byte = 2
    BitsPerByte = 1
    windowSize = 2
    nWindowsPerSegment = 3
    subOrder = 521
    BalanceBits = 1
    FieldBits = 4
INVARIANTS
    ScalarsTellApart
    BitsAreDigits
CHECK_DEADLOCK FALSE
