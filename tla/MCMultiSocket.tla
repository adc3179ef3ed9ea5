--------------------------- MODULE MCMultiSocket ---------------------------
(***************************************************************************)
(* MultiSocket for TLC: one peer more than there are descriptors above the *)
(* listening socket.                                                       *)
(***************************************************************************)
EXTENDS MultiSocket

CONSTANTS alice, bob, carol

MCPeers == {alice, bob, carol}
MCWrites == [p \in Peers |-> IF p = alice THEN 2 ELSE 0]
MCDescriptor == 3
MCDescriptors == {0, 4, 5}
MCEnd == 9
=============================================================================
