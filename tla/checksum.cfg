\* Bytes of two bits, words of four, an accumulator of eight.
SPECIFICATION Spec
CONSTANTS
    Byte = 4
    FieldAt = 2
    Messages <- MCMessages
    Addresses <- MCAddresses
    Protocol = 6
INVARIANTS
    AccumExact
    VerdictIsOnesComplement
    OneByteDetected
PROPERTY
    Returns
