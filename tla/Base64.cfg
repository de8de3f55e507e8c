SPECIFICATION Spec
CONSTANTS
    Bytes <- MCBytes
    Letters <- MCLetters
    MaxLength = 5
INVARIANTS
    EncodesRFC
    DecodesLetters
    RoundTrip
CHECK_DEADLOCK FALSE
