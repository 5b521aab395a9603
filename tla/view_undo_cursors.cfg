CONSTANTS
    c1 = c1
    c2 = c2
    Clients <- MCClients
    Texts <- MCTexts
    InitLine <- MCInitLine
    MaxCursors = 2
    MaxLen = 3
SYMMETRY MCSymmetry
SPECIFICATION Spec
INVARIANT UndoKeepsCursors
