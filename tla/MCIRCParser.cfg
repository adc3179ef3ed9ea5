SPECIFICATION Spec
CONSTANTS
    Letters = {"x"}
    Digits = {"1", "376"}
    ThreeDigits = {"376"}
    Replies = {"376"}
    Specials = {}
    Others = {"#"}
    Beginnings <- MCBeginnings
    MaxLength = 5
INVARIANT ParametersAreMiddles
INVARIANT RFCLinesWithoutTabsParse
INVARIANT WrittenParses
INVARIANT SaidIsRead
CHECK_DEADLOCK FALSE
