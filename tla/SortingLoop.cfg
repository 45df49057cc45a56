\* Four-bit addresses of two bytes: prefixes that end inside a byte, at its
\* border and past it all occur.
CONSTANTS
    Width = 4
    MaxLength = 6
    ByteBits = 2
    MaxEntries = 2
    Lengths = {0, 1, 2, 3, 4}
SPECIFICATION Spec
INVARIANT LoopIsLongestPrefixMatch
CHECK_DEADLOCK FALSE
