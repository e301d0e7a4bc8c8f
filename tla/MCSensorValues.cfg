CONSTANTS
    ByteValues = 4
    LengthValues = 16
    TextClip = 4
    FloatBits = 6
    Objects <- MCObjects
SPECIFICATION Spec
INVARIANTS
    PushedAsSent
    PolledText
