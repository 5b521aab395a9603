CONSTANTS
    c1 = c1
    c2 = c2
    Clients <- MCClients
    Texts <- MCTexts
    InitLine <- MCInitLine
    MaxLen = 3
    Contents <- MCContents
    MaxCount = 3
    MaxCursors = 2
SYMMETRY MCSymmetry
SPECIFICATION Spec
CONSTRAINT MCQuietInLine
INVARIANT TypeOK
INVARIANT ViewsConverge
INVARIANT RedoRestoresCursors
 
