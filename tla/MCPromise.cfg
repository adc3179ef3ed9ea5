SPECIFICATION FairSpec
CONSTANTS
    zero = zero
    alice = alice
    bob = bob
    c1 = c1
    c2 = c2
    NoNick = NoNick
    NoChannel = NoChannel
    BotNick = zero
    AdminNick = alice
    Nicks <- MCNicks
    Channels <- MCChannels
    Messages <- JoinMessages
    JoinArgs <- OneChannel
    LogArgs <- NoChannels
    Title = FALSE
    Identify = FALSE
    Reconnect = TRUE
    DisconnectPriorities <- LowPriority
    MaxLines = 2
    MaxConnections = 2
PROPERTY SessionIsKept
PROPERTY QuitCompletes
PROPERTY ChannelsAreJoined
