SPECIFICATION FairSpec
CONSTANTS
    alice = alice
    bob = bob
    carol = carol
    Peers <- MCPeers
    NoPeer = NoPeer
    Console = Console
    Descriptor <- MCDescriptor
    MaxAddresses = 3
    Descriptors <- MCDescriptors
    End <- MCEnd
    MaxWrites <- MCWrites
    MaxErrors = 1
INVARIANT TypeOK
INVARIANT ClientsAreOpen
INVARIANT NothingLeaks
INVARIANT ReadIsHeard
INVARIANT ClosedIsReported
INVARIANT ClosedIsLast
PROPERTY FailedCloseIsFinal
PROPERTY EveryoneIsHeard
CHECK_DEADLOCK FALSE
