CONSTANTS
    InsertOp <- RefInsertText
    DeleteOp <- RefDeleteRange
    Texts <- MCTypedTexts
    InitTexts <- MCMultiInit
    Cursors <- MCCursors
    MaxLen = 4
    MaxTexts = 3
    MaxEdits = 2
SPECIFICATION Spec
INVARIANT RecordedRangesMatchTexts
