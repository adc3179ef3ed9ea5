SPECIFICATION Spec
CONSTANTS
    zero = zero
    alice = alice
    bob = bob
    c1 = c1
    c2 = c2
    NoNick = NoNick
    NoChannel = NoChannel
    BotNick = zero
    AdminNick = alice
    Nicks <- MCNicks
    Channels <- MCChannels
    Messages <- AllMessages
    JoinArgs <- OneChannel
    LogArgs <- OneChannel
    Title = TRUE
    Identify = TRUE
    Reconnect = FALSE
    DisconnectPriorities <- AnyPriority
    MaxLines = 2
    MaxConnections = 1
INVARIANT TypeOK
INVARIANT IteratorStaysValid
INVARIANT NoLineStranded
INVARIANT LossIsNoticedAtOnce
INVARIANT NoSocketAbandoned
