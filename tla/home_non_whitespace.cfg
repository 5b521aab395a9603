CONSTANTS
    Contents <- MCContents
    MaxCount = 3
    MaxCursors = 2
SPECIFICATION Spec
INVARIANT HomeNonWhitespaceMatchesSpec
