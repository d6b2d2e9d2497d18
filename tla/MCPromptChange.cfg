CONSTANTS
    Runes <- MCRunes
    Word <- MCWord
    Space <- MCSpace
    Tab = "tab"
    Bindings <- MCReplace
    OnChange <- MCOnChange
    OnEOF <- MCNoActions
    Texts <- MCText
    MaxQuery = 3
    Spare = 1
    History <- MCHistory
    MaxHistory = 2
    MaxKeys = 3
    MaxSessions = 2
SPECIFICATION Spec
INVARIANT QueryPosted
CHECK_DEADLOCK FALSE
