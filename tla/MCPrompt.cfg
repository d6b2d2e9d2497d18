CONSTANTS
    Runes <- MCRunes
    Word <- MCWord
    Space <- MCSpace
    Tab = "tab"
    Bindings <- MCBindings
    OnChange <- MCOnChange
    OnEOF <- MCNoActions
    Texts <- MCTexts
    MaxQuery = 3
    Spare = 1
    History <- MCHistory
    MaxHistory = 2
    MaxKeys = 3
    MaxSessions = 2
SPECIFICATION Spec
INVARIANTS TypeOK SizePosted
PROPERTIES LineSpec FileExact EditsStay
CHECK_DEADLOCK FALSE
