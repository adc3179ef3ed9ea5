SPECIFICATION Spec
CONSTANTS
    alice = alice
    bob = bob
    Bot = Bot
    Symbols = {"SP", ":", "!", "#", "quit", "join", "leave", "version", "zero", "alice", "x"}
    Nicknames <- MCNicknames
    OwnNickname <- MCOwn
    AdminNickname <- MCAdmin
    Users <- MCUsers
    Channel <- MCChannel
    Texts <- MCTexts
    MaxSaid = 1
    MaxChanges = 2
    MaxArguments = 2
INVARIANT TypeOK
INVARIANT NickIsTracked
INVARIANT ObeyedIsMeant
INVARIANT NamedIsDone
CHECK_DEADLOCK FALSE
