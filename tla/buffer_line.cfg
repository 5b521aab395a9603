CONSTANTS
    InsertOp <- ContentInsertText
    DeleteOp <- ContentDeleteRange
    Texts <- MCLineTexts
    InitTexts <- MCLineInit
    Cursors <- MCCursors
    MaxLen = 3
    MaxTexts = 4
    MaxEdits = 2
SPECIFICATION RefinementSpec
INVARIANT TypeOK
INVARIANT UndoRestoresContent
INVARIANT RecordedRangesMatchTexts
INVARIANT GroupsPartitionEdits
PROPERTY UndoStackRefined
