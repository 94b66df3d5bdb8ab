CONSTANTS
    Byte <- MCByte
    Cap = 4
    Modulus = 8
    MaxReq = 5
SPECIFICATION Spec
INVARIANTS
    NoTornByte
PROPERTIES
    FifoSpec
