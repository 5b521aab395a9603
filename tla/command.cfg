CONSTANTS
    Builtins <- MCBuiltins
    Alphabet <- MCAlphabet
    MaxInput = 6
    Lines <- MCLines
    VecCapacity <- MCCapacityCurrent
    MaxCalls = 12
    Match <- MCMatch
    Words <- MCWords
    Commands <- MCCommands
    Names <- MCNames
    Patterns <- MCPatterns
    MaxHeight = 2
    MaxCustom = 2
    EntryLists <- MCEntryLists
    Shapes <- MCLineShapes
    MaxLines = 3
    MaxSections = 2
    MaxProperties = 2
SPECIFICATION Spec
INVARIANT TypeOK
INVARIANT IterMatchesReference
INVARIANT ParseRoundTrip
INVARIANT HistoryKeepsLatest
INVARIANT CursorInRange
INVARIANT FilteredEntriesLive
INVARIANT ScrollShowsCursor
INVARIANT ContinuationPresent
INVARIANT SectionsTileProperties
INVARIANT IniMatchesReference
