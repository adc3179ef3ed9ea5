---------------------------- MODULE SocketSetup ----------------------------
(***************************************************************************)
(* The constructors of ClientSocket and ServerSocket, which walk along the *)
(* addresses getaddrinfo() has found until one of them will do, and the    *)
(* destructor of Socket.                                                   *)
(*                                                                         *)
(* A definition named ...Mutant is the one after it with a plausible bug;  *)
(* nothing else uses it.                                                   *)
(***************************************************************************)
EXTENDS Integers, Sequences

CONSTANTS
    Descriptor,    \* what ::socket() returns, the lowest descriptor free
    MaxAddresses   \* bound: addresses found

ASSUME SocketSetupAssumption ==
    /\ Descriptor \in Int /\ Descriptor > 0
    /\ MaxAddresses \in Nat

\* What happens to an address: ::socket() fails, as for a family the host has not
\* got; setsockopt() fails; connect() or bind() fails; it will do.
Outcomes == {"no_socket", "no_option", "refused", "good"}

VARIABLES
    kind,        \* the class constructed
    step,        \* how far the constructor is
    addresses,   \* what getaddrinfo() has found, as it will turn out
    at,          \* the iterator over them
    socket,      \* Socket::socket
    open         \* the descriptors of it that the kernel holds open

setup == <<kind, step, addresses, at, socket, open>>

SetupType ==
    /\ kind \in {"client", "server"}
    /\ step \in {"socket", "option", "address", "break", "constructed", "throw", "destroyed"}
    /\ addresses \in Seq(Outcomes)
    /\ at \in Nat
    /\ socket \in {-1, 0, Descriptor}
    /\ open \subseteq {Descriptor}

\* No address at all is a failure of getaddrinfo().
SetupInit ==
    /\ kind \in {"client", "server"}
    /\ \E n \in 0..MaxAddresses :
         addresses \in [1..n -> IF kind = "server" THEN Outcomes ELSE Outcomes \ {"no_option"}]
    /\ step = IF addresses = <<>> THEN "throw" ELSE "socket"
    /\ at = 1 /\ socket = 0 /\ open = {}

\* A socket that is not there is to be closed, which fails, and that is thrown.
OpenSocket ==
    /\ step = "socket" /\ at <= Len(addresses)
    /\ IF addresses[at] = "no_socket"
       THEN socket' = -1 /\ step' = "throw" /\ UNCHANGED open
       ELSE /\ socket' = Descriptor /\ open' = open \cup {Descriptor}
            /\ step' = IF kind = "server" THEN "option" ELSE "address"
    /\ UNCHANGED <<kind, addresses, at>>

\* SO_REUSEADDR, for a server only.
SetOption ==
    /\ step = "option"
    /\ IF addresses[at] = "no_option"
       THEN open' = open \ {socket} /\ step' = "throw"
       ELSE step' = "address" /\ UNCHANGED open
    /\ UNCHANGED <<kind, addresses, at, socket>>

\* Goes on to the next address without closing this one's socket.
TryAddressMutant ==
    /\ step = "address"
    /\ IF addresses[at] = "refused"
       THEN socket' = 0 /\ at' = at + 1 /\ step' = "socket"
       ELSE step' = "break" /\ UNCHANGED <<at, socket>>
    /\ UNCHANGED <<kind, addresses, open>>

\* connect() or bind().
TryAddress ==
    /\ step = "address"
    /\ IF addresses[at] = "refused"
       THEN /\ open' = open \ {socket} /\ socket' = 0
            /\ at' = at + 1 /\ step' = "socket"
       ELSE step' = "break" /\ UNCHANGED <<at, socket, open>>
    /\ UNCHANGED <<kind, addresses>>

NoAddressLeft ==
    /\ step = "socket" /\ at > Len(addresses)
    /\ step' = "throw"
    /\ UNCHANGED <<kind, addresses, at, socket, open>>

\* freeaddrinfo(), and the constructor is done.
Constructed ==
    /\ step = "break"
    /\ step' = "constructed" /\ addresses' = <<>> /\ at' = 0
    /\ UNCHANGED <<kind, socket, open>>

\* ~Socket(), run for the base class when the constructor throws, and at the end.
DestroySocket ==
    /\ open' = IF socket > 0 THEN open \ {socket} ELSE open
    /\ socket' = IF socket > 0 THEN 0 ELSE socket
    /\ step' = "destroyed"
    /\ UNCHANGED <<kind, addresses, at>>

Unwind == step = "throw" /\ DestroySocket

Construct ==
    OpenSocket \/ SetOption \/ TryAddress \/ NoAddressLeft \/ Constructed \/ Unwind

-----------------------------------------------------------------------------
(* Properties.                                                             *)

\* However many addresses fail, and however: a constructor that throws leaves no
\* descriptor behind, and one that succeeds has a single one, on the first
\* address that would do.
NoSocketLeaks ==
    /\ step = "destroyed" => open = {}
    /\ step = "break" => /\ open = {socket}
                         /\ \A i \in 1..(at - 1) : addresses[i] = "refused"
    /\ step = "constructed" => open = {socket}
=============================================================================
