SPECIFICATION Spec
CONSTANTS
    Letters = {"x"}
    Digits = {"376"}
    ThreeDigits = {"376"}
    Replies = {"376"}
    Specials = {}
    Others = {}
    Beginnings <- MCBeginnings
    MaxLength = 4
INVARIANT OnlyRuntimeErrors
CHECK_DEADLOCK FALSE
