SPECIFICATION Spec
CONSTANTS
    zero = zero
    alice = alice
    bob = bob
    c1 = c1
    c2 = c2
    NoNick = NoNick
    NoChannel = NoChannel
    BotNick = zero
    AdminNick = alice
    Nicks <- MCNicks
    Channels <- MCChannels
    Messages <- SessionMessages
    JoinArgs <- OneChannel
    LogArgs <- NoChannels
    Title = FALSE
    Identify = TRUE
    Reconnect = TRUE
    DisconnectPriorities <- LowPriority
    MaxLines = 3
    MaxConnections = 2
INVARIANT HandshakeFirst
INVARIANT QuitIsLast
INVARIANT ConnectedIsWelcomed
INVARIANT PlugInsAreReset
INVARIANT ReconnectGoesOn
