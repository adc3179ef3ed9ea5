---------------------------- MODULE MultiSocket ----------------------------
(***************************************************************************)
(* ServerMultiSocket: a listening socket and its clients, read by          *)
(* process(), which asks select() once who is ready and then works through *)
(* the answer while clients go on writing and leaving; from the            *)
(* constructor (SocketSetup) to the destructor.                            *)
(*                                                                         *)
(* A step of process() is what it does between two system calls that       *)
(* depend on the clients.  Whether the sockets block is chosen once.       *)
(*                                                                         *)
(* A definition named ...Mutant is the one after it with a plausible bug;  *)
(* nothing else uses it.                                                   *)
(***************************************************************************)
EXTENDS SocketSetup, FiniteSets

CONSTANTS
    Peers,        \* who may connect, each of them once
    NoPeer,       \* what a descriptor is connected to that is not open
    Console,      \* what descriptor 0 is connected to at first, no socket
    Descriptors,  \* descriptor 0, and what ::accept() has left to return
    End,          \* clientSockets.end()
    MaxWrites,    \* bound: pieces of data each peer writes
    MaxErrors     \* bound: system calls that fail for reasons of their own, as EINTR

ASSUME MultiSocketAssumption ==
    /\ NoPeer \notin Peers \cup {Console} /\ Console \notin Peers
    /\ Descriptors \subseteq Nat \ {Descriptor} /\ 0 \in Descriptors /\ End \notin Descriptors
    /\ MaxWrites \in [Peers -> Nat] /\ MaxErrors \in Nat

VARIABLES
    blocking,       \* Socket::blocking
    status,         \* of each peer: not there yet, connected, gone
    backlog,        \* peers that ::accept() has not returned
    wrote, read,    \* pieces of data a peer has written, and recv() has returned
    owner,          \* the peer at the other end of each descriptor
    clientSockets,  \* ServerMultiSocket::clientSockets
    pc,             \* how far process() is
    ready,          \* the fd_set of select(), but for the listening socket
    it,             \* the iterator over clientSockets
    results,        \* what process() will return
    heard, told,    \* how much of each peer's data, and which ends, it has returned so far
    errors,         \* how many calls have failed for reasons of their own
    dropped,        \* the peers process() has closed the connection of
    unclosed        \* the clients whose close() has failed

network == <<status, backlog, wrote>>
kernel == <<network, read, owner>>
caller == <<blocking, heard, told>>
ends == <<dropped, unclosed>>
multi == <<kernel, caller, clientSockets, pc, ready, it, results, errors, ends>>
vars == <<setup, multi>>

\* SocketByteString: the data of a peer up to some piece; SocketClosed.
Data(d, p, upTo) == [is |-> "data", socket |-> d, from |-> p, upTo |-> upTo]
Closed(d, p)     == [is |-> "closed", socket |-> d, from |-> p, upTo |-> 0]

SocketResult == [is : {"data", "closed"}, socket : Descriptors,
                 from : Peers \cup {NoPeer, Console}, upTo : Nat]

TypeOK ==
    /\ SetupType
    /\ blocking \in BOOLEAN
    /\ status \in [Peers -> {"away", "open", "closed", "reset", "dismissed"}]
    /\ backlog \subseteq Peers
    /\ wrote \in [Peers -> Nat] /\ read \in [Peers -> Nat] /\ heard \in [Peers -> Nat]
    /\ owner \in [Descriptors -> Peers \cup {NoPeer, Console}]
    /\ clientSockets \subseteq Descriptors /\ ready \subseteq Descriptors
    /\ pc \in {"idle", "accept", "loop", "terminated", "killed"}
    /\ it \in clientSockets \cup {End}
    /\ results \in Seq(SocketResult)
    /\ errors \in 0..MaxErrors
    /\ told \subseteq Peers /\ dropped \subseteq Peers /\ unclosed \subseteq Descriptors

Init ==
    /\ SetupInit
    /\ blocking \in BOOLEAN
    /\ status = [p \in Peers |-> "away"] /\ backlog = {}
    /\ wrote = [p \in Peers |-> 0] /\ read = wrote /\ heard = wrote
    /\ owner = [d \in Descriptors |-> IF d = 0 THEN Console ELSE NoPeer]
    /\ clientSockets = {} /\ ready = {}
    /\ pc = "idle" /\ it = End /\ results = <<>>
    /\ errors = 0 /\ told = {} /\ dropped = {} /\ unclosed = {}

-----------------------------------------------------------------------------
(* The peers.                                                              *)

Connect(p) ==
    /\ status[p] = "away"
    /\ status' = [status EXCEPT ![p] = "open"]
    /\ backlog' = backlog \cup {p}
    /\ UNCHANGED wrote

Write(p) ==
    /\ status[p] = "open" /\ wrote[p] < MaxWrites[p]
    /\ wrote' = [wrote EXCEPT ![p] = @ + 1]
    /\ UNCHANGED <<status, backlog>>

\* An orderly close, or a reset, which may take the connection out of the backlog.
Leave(p) ==
    /\ status[p] = "open"
    /\ \/ status' = [status EXCEPT ![p] = "closed"] /\ UNCHANGED backlog
       \/ status' = [status EXCEPT ![p] = "reset"] /\ backlog' \in {backlog, backlog \ {p}}
    /\ UNCHANGED wrote

Peer ==
    /\ \E p \in Peers : Connect(p) \/ Write(p) \/ Leave(p)
    /\ UNCHANGED <<read, owner, caller, clientSockets, pc, ready, it, results, errors, ends>>

-----------------------------------------------------------------------------
(* process().                                                              *)

Gone(p) == status[p] \in {"closed", "reset"}

Unread(p) == read[p] < wrote[p]

Readable(d) == owner[d] \in Peers /\ (Unread(owner[d]) \/ Gone(owner[d]))

\* So many calls fail for reasons of their own.
Failing(n) == errors + n <= MaxErrors /\ errors' = errors + n

Least(S) == IF S = {} THEN {End} ELSE {d \in S : \A e \in S : d <= e}

\* it++
Following == Least({d \in clientSockets : d > it})

Stale == {d \in clientSockets : owner[d] = NoPeer}

\* select( maxSocket, ... ) does not look at the last descriptor.
SelectMutant ==
    /\ pc = "idle" /\ Stale = {}
    /\ \E typed \in SUBSET {d \in clientSockets : owner[d] = Console} :
         ready' = typed \cup {d \in clientSockets : Readable(d) /\ \E e \in clientSockets : e > d}
    /\ blocking => backlog # {} \/ ready' # {}
    /\ IF backlog # {} THEN pc' = "accept" /\ UNCHANGED it
                       ELSE pc' = "loop" /\ it' \in Least(clientSockets)
    /\ UNCHANGED <<kernel, caller, clientSockets, results, errors, ends>>

\* Somebody may be typing at the console.
Select ==
    /\ pc = "idle" /\ Stale = {}
    /\ \E typed \in SUBSET {d \in clientSockets : owner[d] = Console} :
         ready' = typed \cup {d \in clientSockets : Readable(d)}
    /\ blocking => backlog # {} \/ ready' # {}
    /\ IF backlog # {} THEN pc' = "accept" /\ UNCHANGED it
                       ELSE pc' = "loop" /\ it' \in Least(clientSockets)
    /\ UNCHANGED <<kernel, caller, clientSockets, results, errors, ends>>

\* A client that is not open makes every select() fail (EBADF): std::runtime_error.
SelectFails ==
    /\ pc = "idle"
    /\ (Stale # {} /\ Failing(0)) \/ Failing(1)
    /\ UNCHANGED <<kernel, caller, clientSockets, pc, ready, it, results, ends>>

Free == {d \in Descriptors : owner[d] = NoPeer}

\* Forgets the client.
AcceptMutant ==
    /\ pc = "accept"
    /\ \E d \in Least(Free) \ {End}, p \in backlog :
         /\ owner' = [owner EXCEPT ![d] = p]
         /\ backlog' = backlog \ {p}
    /\ pc' = "loop" /\ it' \in Least(clientSockets)
    /\ UNCHANGED <<status, wrote, read, caller, clientSockets, ready, results, errors, ends>>

\* The kernel gives out the lowest descriptor that is free.
Accept ==
    /\ pc = "accept"
    /\ \E d \in Least(Free) \ {End}, p \in backlog :
         /\ owner' = [owner EXCEPT ![d] = p]
         /\ backlog' = backlog \ {p}
         /\ clientSockets' = clientSockets \cup {d}
         /\ it' \in Least(clientSockets')
    /\ pc' = "loop"
    /\ UNCHANGED <<status, wrote, read, caller, ready, results, errors, ends>>

\* Whoever was in the backlog has gone.  A second select() waits for somebody else when
\* blocking; when not, it finds nobody, and the 0 that says so is taken for a client.
AcceptNobody ==
    /\ pc = "accept" /\ backlog = {} /\ ~blocking
    /\ clientSockets' = clientSockets \cup {0}
    /\ pc' = "loop" /\ it' \in Least(clientSockets')
    /\ UNCHANGED <<kernel, caller, ready, results, errors, ends>>

\* Takes the failure for a client.
AcceptFailsMutant ==
    /\ pc = "accept" /\ Free = {}
    /\ clientSockets' = clientSockets \cup {End}
    /\ pc' = "loop" /\ it' \in Least(clientSockets')
    /\ UNCHANGED <<kernel, caller, ready, results, errors, ends>>

\* No descriptor is left, or select() or ::accept() fails: std::runtime_error leaves
\* process() before anyone is read.
AcceptFails ==
    /\ pc = "accept"
    /\ (Free = {} /\ backlog # {} /\ Failing(0)) \/ Failing(1)
    /\ pc' = "idle" /\ ready' = {}
    /\ UNCHANGED <<kernel, caller, clientSockets, it, results, ends>>

InLoop == pc = "loop" /\ it # End

NotReady ==
    /\ InLoop /\ it \notin ready
    /\ it' \in Following
    /\ UNCHANGED <<kernel, caller, clientSockets, pc, ready, results, errors, ends>>

\* recv() returns part of what is there or all of it.
ReceiveData ==
    /\ InLoop /\ it \in ready
    /\ \E p \in {owner[it]} \cap Peers :
         /\ Unread(p)
         /\ \E upTo \in (read[p] + 1)..wrote[p] :
              /\ read' = [read EXCEPT ![p] = upTo]
              /\ results' = Append(results, Data(it, p, upTo))
    /\ it' \in Following
    /\ UNCHANGED <<network, owner, caller, clientSockets, pc, ready, errors, ends>>

\* close() of a client's descriptor, which is released even if close() fails.
Close(d) ==
    /\ owner' = [owner EXCEPT ![d] = NoPeer]
    /\ status' = [p \in Peers |-> IF p = owner[d] /\ status[p] = "open"
                                  THEN "dismissed" ELSE status[p]]
    /\ UNCHANGED <<backlog, wrote, read, caller>>

\* Starts the results anew.
ShutDownForgetsMutant ==
    /\ Close(it)
    /\ results' = <<Closed(it, owner[it])>>
    /\ clientSockets' = clientSockets \ {it}
    /\ it' \in Least(clientSockets')
    /\ dropped' = dropped \cup ({owner[it]} \cap Peers)
    /\ UNCHANGED <<pc, ready, unclosed>>

\* Leaves the client in the set.
ShutDownMutant ==
    /\ Close(it)
    /\ results' = Append(results, Closed(it, owner[it]))
    /\ it' \in Least(clientSockets)
    /\ dropped' = dropped \cup ({owner[it]} \cap Peers)
    /\ UNCHANGED <<clientSockets, pc, ready, unclosed>>

\* The client is reported closed and shut down, and the loop starts over.
ShutDown ==
    /\ Close(it)
    /\ results' = Append(results, Closed(it, owner[it]))
    /\ clientSockets' = clientSockets \ {it}
    /\ it' \in Least(clientSockets')
    /\ dropped' = dropped \cup ({owner[it]} \cap Peers)
    /\ UNCHANGED <<pc, ready, unclosed>>

\* Erases the client before it closes the socket.
ShutDownFailsMutant ==
    /\ Close(it)
    /\ clientSockets' = clientSockets \ {it}
    /\ pc' = "idle" /\ ready' = {} /\ it' = End /\ results' = <<>>
    /\ dropped' = dropped \cup ({owner[it]} \cap Peers) /\ unclosed' = unclosed \cup {it}

\* close() fails: std::runtime_error, before the client is erased.  Inside the try block
\* it is caught and the same close() fails once more; it leaves process(), with the
\* results lost.
ShutDownFails ==
    /\ Close(it)
    /\ pc' = "idle" /\ ready' = {} /\ it' = End /\ results' = <<>>
    /\ dropped' = dropped \cup ({owner[it]} \cap Peers) /\ unclosed' = unclosed \cup {it}
    /\ UNCHANGED clientSockets

\* ... after so many calls for the same client have failed for reasons of their own.
Drop(n) == (ShutDown /\ Failing(n)) \/ (ShutDownFails /\ Failing(n + 1))

\* A select() or recv() that fails, and in blocking mode a recv() of nothing, throw
\* std::runtime_error, whether or not the peer is there; what was written before a reset
\* may or may not be read; and recv() fails on what is no socket.
ReceiveFails ==
    /\ InLoop /\ it \in ready
    /\ \/ Drop(1)
       \/ /\ \/ owner[it] = Console
             \/ /\ owner[it] \in Peers
                /\ \/ status[owner[it]] = "reset"
                   \/ status[owner[it]] = "closed" /\ ~Unread(owner[it]) /\ blocking
          /\ Drop(0)

\* In non-blocking mode a recv() of nothing throws std::invalid_argument through
\* receive()'s throw( std::runtime_error ).
ReceiveTerminates ==
    /\ InLoop /\ it \in ready
    /\ owner[it] \in Peers /\ status[owner[it]] = "closed" /\ ~Unread(owner[it]) /\ ~blocking
    /\ pc' = "terminated"
    /\ UNCHANGED <<kernel, caller, clientSockets, ready, it, results, errors, ends>>

\* Shuts the client down without a word of it to the caller.
ReceiveNothingMutant ==
    /\ InLoop /\ it \in ready
    /\ ~Readable(it) /\ ~blocking
    /\ Close(it) /\ Failing(0)
    /\ clientSockets' = clientSockets \ {it} /\ it' \in Least(clientSockets')
    /\ dropped' = dropped \cup ({owner[it]} \cap Peers)
    /\ UNCHANGED <<pc, ready, unclosed, results>>

\* A client read before: its second select() waits when blocking, and finds nothing
\* when not, which counts as closed.
ReceiveNothing ==
    /\ InLoop /\ it \in ready
    /\ ~Readable(it) /\ ~blocking
    /\ Drop(0)

\* process() returns, and its caller works through the results.
Return ==
    LET upTo(p) == {heard[p]} \cup {results[i].upTo : i \in {j \in DOMAIN results :
                                        results[j].is = "data" /\ results[j].from = p}}
    IN  /\ pc = "loop" /\ it = End
        /\ heard' = [p \in Peers |-> CHOOSE n \in upTo(p) : \A k \in upTo(p) : n >= k]
        /\ told' = told \cup {p \in Peers : \E i \in DOMAIN results :
                                 results[i].is = "closed" /\ results[i].from = p}
        /\ pc' = "idle" /\ ready' = {} /\ results' = <<>>
        /\ UNCHANGED <<kernel, blocking, clientSockets, it, errors, ends>>

Process ==
    \/ Select \/ SelectFails \/ Accept \/ AcceptNobody \/ AcceptFails \/ NotReady
    \/ ReceiveData \/ ReceiveFails \/ ReceiveTerminates \/ ReceiveNothing \/ Return

-----------------------------------------------------------------------------
(* What else a caller may do between two calls of process().               *)

\* shutdownClient() of a client found by find(): std::runtime_error for a descriptor
\* that is not open, too.
Dismiss ==
    /\ pc = "idle"
    /\ \E d \in clientSockets :
         /\ Close(d)
         /\ \/ /\ owner[d] # NoPeer /\ Failing(0)
               /\ clientSockets' = clientSockets \ {d}
               /\ UNCHANGED unclosed
            \/ /\ IF owner[d] = NoPeer THEN Failing(0) ELSE Failing(1)
               /\ unclosed' = unclosed \cup {d}
               /\ UNCHANGED clientSockets
    /\ UNCHANGED <<pc, ready, it, results, dropped>>

\* sendAll() to a client that has reset its connection: SIGPIPE.
SendAllKills ==
    /\ pc = "idle"
    /\ \E d \in clientSockets : owner[d] \in Peers /\ Gone(owner[d])
    /\ pc' = "killed"
    /\ UNCHANGED <<kernel, caller, clientSockets, ready, it, results, errors, ends>>

\* ~ServerMultiSocket(), and the destructors of its base classes.
Destroy ==
    /\ step = "constructed" /\ pc = "idle"
    /\ owner' = [d \in Descriptors |-> IF d \in clientSockets THEN NoPeer ELSE owner[d]]
    /\ clientSockets' = {}
    /\ DestroySocket
    /\ UNCHANGED <<network, read, caller, pc, ready, it, results, errors, ends>>

Serving == step = "constructed" /\ kind = "server"

Next ==
    \/ Construct /\ UNCHANGED multi
    \/ Serving /\ (Peer \/ Process \/ Dismiss \/ SendAllKills) /\ UNCHANGED setup
    \/ Destroy

Spec == Init /\ [][Next]_vars

\* The caller calls process() again and again.
FairSpec == Spec /\ WF_vars(Serving /\ Process /\ UNCHANGED setup)

-----------------------------------------------------------------------------
(* Properties.                                                             *)

\* The clients are the connections: none that ::accept() has returned is lost, and
\* none stays whose descriptor is closed and may soon be somebody else's, but for one
\* whose close() has failed, and for descriptor 0, which accept() may make a client of.
ClientsAreOpen ==
    /\ {d \in Descriptors : owner[d] \in Peers} \subseteq clientSockets
    /\ \A d \in clientSockets : owner[d] \in Peers \/ d \in unclosed \/ d = 0

\* Nothing is open any more when the object is gone, or has never come to be.
NothingLeaks ==
    NoSocketLeaks /\ (step = "destroyed" => \A d \in Descriptors : owner[d] \notin Peers)

\* Data that was taken from a socket reaches the caller, whatever happens to other
\* clients in the same call, as long as no close() fails.
ReadIsHeard == pc = "idle" /\ unclosed = {} => heard = read

\* Nor is a client shut down behind the caller's back, whatever else fails.
ClosedIsReported == pc = "idle" /\ unclosed = {} => told = dropped

\* Once a close() has failed, the client it has left in the set makes every select()
\* fail: nobody is heard or accepted any more.
FailedCloseIsFinal ==
    [][unclosed # {} => UNCHANGED <<heard, told>> /\ clientSockets' \subseteq clientSockets]_vars

\* A socket that is reported closed is not heard of again in the same list of
\* results, which names clients by their descriptors only.
ClosedIsLast ==
    \A i, j \in DOMAIN results :
        i < j /\ results[i].socket = results[j].socket => results[i].is = "data"

\* As long as nobody leaves or is sent away, be it by a recv() that fails, and there are
\* descriptors enough, all that is written is heard.
EveryoneIsHeard ==
    [](/\ step # "destroyed" /\ \A p \in Peers : status[p] \in {"away", "open"}
       /\ backlog # {} => Free # {})
      => \A p \in Peers : \A n \in 1..MaxWrites[p] : wrote[p] >= n ~> heard[p] >= n
=============================================================================
