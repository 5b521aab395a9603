CONSTANTS
    InsertOp <- ContentInsertText
    DeleteOp <- ContentDeleteRange
    Texts <- MCLineTexts
    InitTexts <- MCLineInit
    Cursors <- MCCursors
    MaxLen = 3
    MaxTexts = 4
    MaxEdits = 2
SPECIFICATION Spec
PROPERTY LeftSupersetDeleteMerges
