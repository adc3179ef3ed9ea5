SPECIFICATION Spec
CONSTANTS
    zero = zero
    alice = alice
    bob = bob
    Nicks <- MCNicks
    BotNick = zero
    Channel = here
    Other = elsewhere
    MaxInbox = 3
    MaxEvents = 4
SYMMETRY MCSymmetry
INVARIANT TypeOK
INVARIANT ListedAreHere
INVARIANT MembersAreListed
INVARIANT RowsTellUsers
CHECK_DEADLOCK FALSE
