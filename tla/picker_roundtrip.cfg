CONSTANTS
    Match <- MCMatch
    Words <- MCWords
    Commands <- MCCommands
    Names <- MCNames
    Patterns <- MCPatterns
    MaxHeight = 4
    MaxCustom = 2
SPECIFICATION Spec
INVARIANT MoveRoundTrip
