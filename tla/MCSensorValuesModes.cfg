CONSTANTS
    ByteValues = 4
    LengthValues = 16
    TextClip = 4
    FloatBits = 6
    Objects <- Counters
SPECIFICATION Spec
INVARIANT
    ModesAgree
