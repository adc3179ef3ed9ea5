SPECIFICATION Spec
CONSTANTS
    Words = {"word", "://", "Title:"}
    Spaces = {"SP", "TAB"}
    Controls = {"^A"}
    Texts <- MCTexts
    Pages <- MCPages
    Limit = 6
    MaxMessages = 2
INVARIANT TypeOK
INVARIANT DownloadIsCut
INVARIANT URLIsAWord
INVARIANT TitleWasReceived
CHECK_DEADLOCK FALSE
