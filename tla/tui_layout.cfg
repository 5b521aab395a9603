CONSTANTS
    Docs <- MCDocs
    Sizes <- MCSizes
    TabSizes = {2}
    MaxSelect = 2
SPECIFICATION Spec
INVARIANT FrameLaidOut
