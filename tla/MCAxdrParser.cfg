SPECIFICATION Spec
CONSTANTS
    Patterns <- MCPatterns
    CustomPatterns <- MCCustomPatterns
    Telegrams <- MCTelegrams
INVARIANTS
    TypeOK
    InsideBuffer
    ObjectsDisjoint
    ObjectsFound
    CutIsPrefix
PROPERTIES
    ParseTerminates
    ParseProgress
