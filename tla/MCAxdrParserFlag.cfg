SPECIFICATION SafeSpec
CONSTANTS
    Patterns <- MCPatterns
    CustomPatterns <- MCCustomPatterns
    Telegrams <- MCFlagTelegrams
INVARIANTS
    ObjectsFound
