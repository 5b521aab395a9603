CONSTANTS
    Chars <- MCChars
    Texts <- MCTexts
    InitTexts <- MCInitTexts
    MaxLen = 5
SPECIFICATION Spec
PROPERTY ContentEditsSplice
CHECK_DEADLOCK FALSE
