-------------------------- MODULE MultiSocketProofs --------------------------
(***************************************************************************)
(* What TLAPS proves about MultiSocket, for any peers, descriptors and     *)
(* addresses: its types, that nothing leaks, which clients are connections *)
(* that are open, that what is read is heard and who is shut down reported *)
(* until a close() fails, and nothing afterwards, and what a list of       *)
(* results may say of a client.                                            *)
(***************************************************************************)
EXTENDS MultiSocket, SequenceTheorems, TLAPS

\* What the assumptions on the constants mean for the numbers of sockets.
LEMMA Numbers ==
    ASSUME SocketSetupAssumption, MultiSocketAssumption
    PROVE  /\ Descriptor \in Int /\ Descriptor > 0 /\ Descriptor # -1 /\ Descriptor # 0
           /\ Descriptors \subseteq Nat /\ End \notin Descriptors /\ 0 \in Descriptors
           /\ NoPeer \notin Peers /\ Console \notin Peers /\ NoPeer # Console /\ MaxErrors \in Nat
BY DEF SocketSetupAssumption, MultiSocketAssumption

LEMMA LeastOfSet ==
    ASSUME NEW S, NEW d \in Least(S)
    PROVE  d \in S \cup {End} /\ (d = End => S = {} \/ End \in S)
BY DEF Least

-----------------------------------------------------------------------------
(* Types.                                                                  *)

\* Between two calls of process() the iterator is nowhere and there are no results.
IteratorInv == pc \in {"idle", "accept"} => it = End /\ results = <<>>

\* The results that tell of the data of p, and whose end they tell of.
Told(p) == {i \in DOMAIN results : results[i].is = "data" /\ results[i].from = p}

ToldClosed == {p \in Peers : \E i \in DOMAIN results :
                                 results[i].is = "closed" /\ results[i].from = p}

\* What is read of a peer has been heard, or the results say so.
HeardInv ==
    unclosed = {} => \A p \in Peers :
        /\ heard[p] <= read[p] /\ \A i \in Told(p) : results[i].upTo <= read[p]
        /\ read[p] = heard[p] \/ \E i \in Told(p) : results[i].upTo = read[p]

\* Who is shut down has been reported, or the results say so.
DroppedInv == unclosed = {} => dropped = told \cup ToldClosed

\* After a close() has failed, process() gets no further than its select().
DeafInv ==
    /\ unclosed # {} => pc \notin {"accept", "loop"}
    /\ unclosed # {} /\ step = "constructed" => Stale # {}
    /\ step \notin {"constructed", "destroyed"} => unclosed = {}

TypeInv == TypeOK /\ IteratorInv /\ DeafInv /\ HeardInv /\ DroppedInv

LEMMA InitType ==
    ASSUME SocketSetupAssumption, MultiSocketAssumption, Init
    PROVE  TypeInv
<1>1. SetupType
    <2>1. addresses \in Seq(Outcomes)
        <3>1. PICK n \in 0..MaxAddresses :
                 addresses \in [1..n -> IF kind = "server" THEN Outcomes ELSE Outcomes \ {"no_option"}]
            BY DEF Init, SetupInit
        <3>2. n \in Nat /\ addresses \in [1..n -> Outcomes]
            BY <3>1 DEF SocketSetupAssumption
        <3>. QED BY <3>2
    <2>2. /\ kind \in {"client", "server"} /\ step \in {"throw", "socket"}
          /\ at = 1 /\ socket = 0 /\ open = {}
        BY DEF Init, SetupInit
    <2>. QED BY <2>1, <2>2 DEF SetupType
<1>2. results \in Seq(SocketResult)
    BY EmptySeq DEF Init
<1>3. /\ wrote \in [Peers -> Nat] /\ read \in [Peers -> Nat] /\ heard \in [Peers -> Nat]
      /\ owner \in [Descriptors -> Peers \cup {NoPeer, Console}]
      /\ status \in [Peers -> {"away", "open", "closed", "reset", "dismissed"}]
    BY DEF Init
<1>4. /\ blocking \in BOOLEAN /\ backlog = {} /\ clientSockets = {} /\ ready = {}
      /\ pc = "idle" /\ it = End
      /\ errors = 0 /\ told = {} /\ dropped = {} /\ unclosed = {}
    BY DEF Init
<1>5. TypeOK
    BY <1>1, <1>2, <1>3, <1>4, Numbers DEF TypeOK
<1>6. IteratorInv
    BY DEF Init, IteratorInv
<1>7. HeardInv
    <2>1. \A p \in Peers : read[p] = 0 /\ heard[p] = 0 /\ Told(p) = {}
        BY DEF Init, Told
    <2>. QED BY <2>1 DEF HeardInv
<1>8. DroppedInv
    <2>1. results = <<>>
        BY DEF Init
    <2>. QED BY <1>4, <2>1 DEF DroppedInv, ToldClosed
<1>9. DeafInv
    BY <1>4 DEF DeafInv
<1>. QED BY <1>5, <1>6, <1>7, <1>8, <1>9 DEF TypeInv

LEMMA ConstructType ==
    ASSUME SocketSetupAssumption, MultiSocketAssumption, SetupType, Construct
    PROVE  SetupType'
<1>. USE DEF SetupType
<1>1. CASE OpenSocket
    BY <1>1 DEF OpenSocket
<1>2. CASE SetOption
    BY <1>2 DEF SetOption
<1>3. CASE TryAddress
    <2>1. UNCHANGED <<kind, addresses>>
        BY <1>3 DEF TryAddress
    <2>2. at' = at + 1 \/ at' = at
        BY <1>3 DEF TryAddress
    <2>3. step' \in {"socket", "break"} /\ (socket' = 0 \/ socket' = socket) /\ open' \subseteq open
        BY <1>3 DEF TryAddress
    <2>. QED BY <2>1, <2>2, <2>3
<1>4. CASE NoAddressLeft
    BY <1>4 DEF NoAddressLeft
<1>5. CASE Constructed
    BY <1>5, EmptySeq DEF Constructed
<1>6. CASE Unwind
    BY <1>6 DEF Unwind, DestroySocket
<1>. QED BY <1>1, <1>2, <1>3, <1>4, <1>5, <1>6 DEF Construct

LEMMA PeerType ==
    ASSUME TypeOK, Peer
    PROVE  /\ status' \in [Peers -> {"away", "open", "closed", "reset", "dismissed"}]
           /\ backlog' \subseteq Peers /\ wrote' \in [Peers -> Nat]
<1>1. PICK p \in Peers : Connect(p) \/ Write(p) \/ Leave(p)
    BY DEF Peer
<1>2. CASE Connect(p)
    BY <1>2 DEF Connect, TypeOK
<1>3. CASE Write(p)
    BY <1>3 DEF Write, TypeOK
<1>4. CASE Leave(p)
    BY <1>4 DEF Leave, TypeOK
<1>. QED BY <1>1, <1>2, <1>3, <1>4

LEMMA CloseType ==
    ASSUME SocketSetupAssumption, MultiSocketAssumption, TypeOK, NEW d \in Descriptors, Close(d)
    PROVE  /\ status' \in [Peers -> {"away", "open", "closed", "reset", "dismissed"}]
           /\ owner' \in [Descriptors -> Peers \cup {NoPeer, Console}]
           /\ owner'[d] = NoPeer /\ \A e \in Descriptors : e # d => owner'[e] = owner[e]
           /\ UNCHANGED <<backlog, wrote, read, blocking, heard, told>>
<1>1. status \in [Peers -> {"away", "open", "closed", "reset", "dismissed"}]
      /\ owner \in [Descriptors -> Peers \cup {NoPeer, Console}]
    BY DEF TypeOK
<1>2. status' = [p \in Peers |-> IF p = owner[d] /\ status[p] = "open"
                                 THEN "dismissed" ELSE status[p]]
      /\ owner' = [owner EXCEPT ![d] = NoPeer]
    BY DEF Close
<1>. QED BY <1>1, <1>2 DEF Close, caller

LEMMA ErrorsType ==
    ASSUME SocketSetupAssumption, MultiSocketAssumption, TypeOK, NEW n \in Nat, Failing(n)
    PROVE  errors' \in 0..MaxErrors
BY Numbers DEF TypeOK, Failing

LEMMA DropCases ==
    ASSUME ReceiveFails \/ ReceiveNothing
    PROVE  /\ InLoop
           /\ ShutDown \/ ShutDownFails
           /\ \E n \in Nat : Failing(n)
<1>1. InLoop /\ (Drop(0) \/ Drop(1))
    BY DEF ReceiveFails, ReceiveNothing
<1>. QED BY <1>1 DEF Drop

LEMMA ShutDownType ==
    ASSUME SocketSetupAssumption, MultiSocketAssumption, TypeOK, InLoop, ShutDown
    PROVE  /\ results' \in Seq(SocketResult)
           /\ results' = Append(results, Closed(it, owner[it])) /\ Closed(it, owner[it]) \in SocketResult
           /\ it \in clientSockets /\ it \in Descriptors
           /\ clientSockets' \subseteq Descriptors /\ it' \in clientSockets' \cup {End}
<1>1. it \in clientSockets /\ it \in Descriptors /\ results \in Seq(SocketResult)
    BY DEF InLoop, TypeOK
<1>2. owner[it] \in Peers \cup {NoPeer, Console}
    BY <1>1 DEF TypeOK
<1>3. Closed(it, owner[it]) \in SocketResult
    BY <1>1, <1>2 DEF Closed, SocketResult
<1>4. results' = Append(results, Closed(it, owner[it])) /\ results' \in Seq(SocketResult)
    BY <1>1, <1>3, AppendProperties DEF ShutDown
<1>5. clientSockets' \subseteq Descriptors /\ it' \in clientSockets' \cup {End}
    BY LeastOfSet DEF ShutDown, TypeOK
<1>. QED BY <1>1, <1>3, <1>4, <1>5

LEMMA ReceiveDataType ==
    ASSUME MultiSocketAssumption, TypeOK, ReceiveData
    PROVE  \E p \in Peers, upTo \in Nat :
             /\ it \in clientSockets /\ it \in Descriptors /\ owner[it] = p /\ Unread(p)
             /\ read[p] < upTo /\ upTo <= wrote[p]
             /\ read' = [read EXCEPT ![p] = upTo]
             /\ results' = Append(results, Data(it, p, upTo)) /\ Data(it, p, upTo) \in SocketResult
             /\ results' \in Seq(SocketResult) /\ read' \in [Peers -> Nat]
<1>1. it \in clientSockets /\ it \in Descriptors /\ results \in Seq(SocketResult)
    BY DEF ReceiveData, InLoop, TypeOK
<1>2. PICK p \in {owner[it]} \cap Peers :
         /\ Unread(p)
         /\ \E upTo \in (read[p] + 1)..wrote[p] :
              /\ read' = [read EXCEPT ![p] = upTo]
              /\ results' = Append(results, Data(it, p, upTo))
    BY DEF ReceiveData
<1>3. PICK upTo \in (read[p] + 1)..wrote[p] :
         /\ read' = [read EXCEPT ![p] = upTo]
         /\ results' = Append(results, Data(it, p, upTo))
    BY <1>2
<1>4. read[p] \in Nat /\ wrote[p] \in Nat /\ read \in [Peers -> Nat]
    BY <1>2 DEF TypeOK
<1>5. upTo \in Nat /\ read[p] < upTo /\ upTo <= wrote[p]
    BY <1>4
<1>6. Data(it, p, upTo) \in SocketResult
    BY <1>1, <1>2, <1>5 DEF Data, SocketResult
<1>7. results' \in Seq(SocketResult)
    BY <1>1, <1>3, <1>6, AppendProperties
<1>8. read' \in [Peers -> Nat]
    BY <1>3, <1>4, <1>5
<1>. QED BY <1>1, <1>2, <1>3, <1>5, <1>6, <1>7, <1>8

\* When process() returns, its caller has heard everything that was read.
LEMMA ReturnHears ==
    ASSUME TypeInv, Return
    PROVE  heard' = read
<1>1. /\ \A p \in Peers : read[p] \in Nat /\ heard[p] \in Nat
      /\ unclosed = {}
    BY DEF TypeInv, TypeOK, DeafInv, Return
<1>2. read \in [Peers -> Nat]
    BY DEF TypeInv, TypeOK
<1>. DEFINE upTo(p) == {heard[p]} \cup {results[i].upTo : i \in Told(p)}
<1>3. heard' = [p \in Peers |-> CHOOSE n \in upTo(p) : \A k \in upTo(p) : n >= k]
    BY DEF Return, Told
<1>4. \A i \in DOMAIN results : results[i].upTo \in Nat
    <2>1. \A i \in DOMAIN results : results[i] \in SocketResult
        BY DEF TypeInv, TypeOK
    <2>. QED BY <2>1 DEF SocketResult
<1>5. ASSUME NEW p \in Peers
      PROVE  (CHOOSE n \in upTo(p) : \A k \in upTo(p) : n >= k) = read[p]
    <2>1. upTo(p) \subseteq Nat
        BY <1>1, <1>4 DEF Told
    <2>2. read[p] \in upTo(p) /\ \A k \in upTo(p) : read[p] >= k
        BY <1>1, <1>4 DEF TypeInv, HeardInv, Told
    <2>3. \A n \in upTo(p) : (\A k \in upTo(p) : n >= k) => n = read[p]
        <3>. HIDE DEF upTo
        <3>1. \A n \in upTo(p) : n >= read[p] => n = read[p]
            BY <1>1, <2>1, <2>2
        <3>. QED BY <2>2, <3>1
    <2>. HIDE DEF upTo
    <2>. QED BY <2>2, <2>3
<1>. QED BY <1>2, <1>3, <1>5

LEMMA NextType ==
    ASSUME SocketSetupAssumption, MultiSocketAssumption, TypeInv, [Next]_vars
    PROVE  TypeOK'
<1>. USE DEF TypeInv
<1>1. CASE Construct /\ UNCHANGED multi
    <2>1. SetupType'
        BY <1>1, ConstructType DEF TypeOK
    <2>. QED BY <1>1, <2>1 DEF TypeOK, multi, kernel, network, caller, ends
<1>2. CASE Peer /\ UNCHANGED setup
    <2>1. SetupType'
        BY <1>2 DEF TypeOK, SetupType, setup
    <2>2. UNCHANGED <<read, owner, blocking, heard, told, clientSockets, pc, ready, it, results,
                      errors, dropped, unclosed>>
        BY <1>2 DEF Peer, caller, ends
    <2>. QED BY <1>2, <2>1, <2>2, PeerType DEF TypeOK
<1>3. CASE Process /\ UNCHANGED setup
    <2>1. SetupType'
        BY <1>3 DEF TypeOK, SetupType, setup
    <2>2. CASE Select
        <3>1. UNCHANGED <<status, backlog, wrote, read, owner, blocking, heard, told, clientSockets,
                          results, errors, dropped, unclosed>>
            BY <2>2 DEF Select, kernel, network, caller, ends
        <3>2. ready' \subseteq clientSockets /\ pc' \in {"accept", "loop"}
              /\ (it' = it \/ it' \in clientSockets \cup {End})
            BY <2>2, LeastOfSet DEF Select
        <3>. QED BY <2>1, <3>1, <3>2 DEF TypeOK
    <2>3. CASE SelectFails \/ AcceptFails
        <3>1. UNCHANGED <<status, backlog, wrote, read, owner, blocking, heard, told, clientSockets,
                          it, results, dropped, unclosed>>
            BY <2>3 DEF SelectFails, AcceptFails, kernel, network, caller, ends
        <3>2. (Failing(0) \/ Failing(1)) /\ pc' = "idle" /\ (ready' = ready \/ ready' = {})
            BY <2>3 DEF SelectFails, AcceptFails
        <3>3. errors' \in 0..MaxErrors
            BY <3>2, ErrorsType
        <3>. QED BY <2>1, <3>1, <3>2, <3>3 DEF TypeOK
    <2>4. CASE Accept
        <3>1. UNCHANGED <<status, wrote, read, blocking, heard, told, ready, results, errors, dropped,
                          unclosed>> /\ pc' = "loop"
            BY <2>4 DEF Accept, caller, ends
        <3>2. PICK d \in Least(Free) \ {End}, p \in backlog :
                 /\ owner' = [owner EXCEPT ![d] = p]
                 /\ backlog' = backlog \ {p}
                 /\ clientSockets' = clientSockets \cup {d}
                 /\ it' \in Least(clientSockets')
            BY <2>4 DEF Accept
        <3>3. d \in Descriptors /\ p \in Peers
            BY <3>2, LeastOfSet DEF Free, TypeOK
        <3>4. it' \in clientSockets' \cup {End}
            BY <3>2, LeastOfSet
        <3>5. owner' \in [Descriptors -> Peers \cup {NoPeer, Console}]
            BY <3>2, <3>3 DEF TypeOK
        <3>. QED BY <2>1, <3>1, <3>2, <3>3, <3>4, <3>5 DEF TypeOK
    <2>5. CASE AcceptNobody
        <3>1. it' \in clientSockets' \cup {End} /\ clientSockets' = clientSockets \cup {0}
            BY <2>5, LeastOfSet DEF AcceptNobody
        <3>. QED BY <2>1, <2>5, <3>1, Numbers DEF AcceptNobody, TypeOK, kernel, network, caller, ends
    <2>6. CASE NotReady
        <3>1. it' \in clientSockets \cup {End}
            BY <2>6, LeastOfSet DEF NotReady, Following
        <3>. QED BY <2>1, <2>6, <3>1 DEF NotReady, TypeOK, kernel, network, caller, ends
    <2>7. CASE ReceiveData
        <3>1. it' \in clientSockets \cup {End}
            BY <2>7, LeastOfSet DEF ReceiveData, Following
        <3>2. results' \in Seq(SocketResult) /\ read' \in [Peers -> Nat]
            BY <2>7, ReceiveDataType
        <3>. QED BY <2>1, <2>7, <3>1, <3>2 DEF ReceiveData, TypeOK, network, caller, ends
    <2>8. CASE ReceiveFails \/ ReceiveNothing
        <3>1. InLoop /\ (ShutDown \/ ShutDownFails) /\ errors' \in 0..MaxErrors
            BY <2>8, DropCases, ErrorsType
        <3>2. it \in clientSockets /\ it \in Descriptors /\ Close(it)
            BY <3>1 DEF InLoop, TypeOK, ShutDown, ShutDownFails
        <3>3. /\ status' \in [Peers -> {"away", "open", "closed", "reset", "dismissed"}]
              /\ owner' \in [Descriptors -> Peers \cup {NoPeer, Console}]
              /\ UNCHANGED <<backlog, wrote, read, blocking, heard, told>>
            BY <3>2, CloseType
        <3>4. dropped' = dropped \cup ({owner[it]} \cap Peers)
            BY <3>1 DEF ShutDown, ShutDownFails
        <3>5. CASE ShutDown
            <4>1. UNCHANGED <<pc, ready, unclosed>>
                BY <3>5 DEF ShutDown
            <4>2. /\ results' \in Seq(SocketResult)
                  /\ clientSockets' \subseteq Descriptors /\ it' \in clientSockets' \cup {End}
                BY <3>1, <3>5, ShutDownType
            <4>. QED BY <2>1, <3>1, <3>3, <3>4, <4>1, <4>2 DEF TypeOK
        <3>6. CASE ShutDownFails
            <4>1. /\ pc' = "idle" /\ ready' = {} /\ it' = End /\ results' = <<>>
                  /\ unclosed' = unclosed \cup {it} /\ clientSockets' = clientSockets
                BY <3>6 DEF ShutDownFails
            <4>. QED BY <2>1, <3>1, <3>2, <3>3, <3>4, <4>1, EmptySeq DEF TypeOK
        <3>. QED BY <3>1, <3>5, <3>6
    <2>9. CASE ReceiveTerminates
        BY <2>1, <2>9 DEF ReceiveTerminates, TypeOK, kernel, network, caller, ends
    <2>10. CASE Return
        <3>1. heard' \in [Peers -> Nat]
            BY <2>10, ReturnHears DEF TypeOK
        <3>2. told' \subseteq Peers
            BY <2>10 DEF Return, TypeOK
        <3>. QED BY <2>1, <2>10, <3>1, <3>2, EmptySeq DEF Return, TypeOK, kernel, network, ends
    <2>. QED BY <1>3, <2>2, <2>3, <2>4, <2>5, <2>6, <2>7, <2>8, <2>9, <2>10 DEF Process
<1>4. CASE Dismiss /\ UNCHANGED setup
    <2>1. SetupType'
        BY <1>4 DEF TypeOK, SetupType, setup
    <2>2. PICK d \in clientSockets :
             /\ Close(d)
             /\ clientSockets' \in {clientSockets, clientSockets \ {d}}
             /\ unclosed' \in {unclosed, unclosed \cup {d}}
             /\ Failing(0) \/ Failing(1)
        BY <1>4 DEF Dismiss
    <2>3. it' = it /\ it = End
        BY <1>4 DEF Dismiss, IteratorInv
    <2>4. d \in Descriptors /\ errors' \in 0..MaxErrors
        BY <2>2, ErrorsType DEF TypeOK
    <2>5. /\ status' \in [Peers -> {"away", "open", "closed", "reset", "dismissed"}]
          /\ owner' \in [Descriptors -> Peers \cup {NoPeer, Console}]
          /\ UNCHANGED <<backlog, wrote, read, blocking, heard, told>>
        BY <2>2, <2>4, CloseType
    <2>6. /\ clientSockets' \subseteq Descriptors /\ unclosed' \subseteq Descriptors
          /\ UNCHANGED <<pc, ready, results, dropped>>
        BY <1>4, <2>2, <2>4 DEF Dismiss, TypeOK
    <2>. QED BY <2>1, <2>3, <2>4, <2>5, <2>6 DEF TypeOK
<1>5. CASE SendAllKills /\ UNCHANGED setup
    BY <1>5 DEF SendAllKills, TypeOK, SetupType, setup, kernel, network, caller, ends
<1>6. CASE Destroy
    <2>1. SetupType'
        BY <1>6 DEF Destroy, DestroySocket, TypeOK, SetupType
    <2>2. it' = it /\ it = End
        BY <1>6 DEF Destroy, IteratorInv
    <2>3. owner' \in [Descriptors -> Peers \cup {NoPeer, Console}]
        <3>1. owner' = [d \in Descriptors |-> IF d \in clientSockets THEN NoPeer ELSE owner[d]]
            BY <1>6 DEF Destroy
        <3>. QED BY <3>1 DEF TypeOK
    <2>. QED BY <1>6, <2>1, <2>2, <2>3 DEF Destroy, TypeOK, network, caller, ends
<1>7. CASE UNCHANGED vars
    BY <1>7 DEF vars, setup, multi, kernel, network, caller, ends, TypeOK, SetupType
<1>. QED BY <1>1, <1>2, <1>3, <1>4, <1>5, <1>6, <1>7 DEF Next

LEMMA NextIterator ==
    ASSUME TypeInv, [Next]_vars
    PROVE  IteratorInv'
<1>. USE DEF TypeInv, IteratorInv
<1>1. CASE Select
    BY <1>1 DEF Select
<1>2. CASE SelectFails \/ AcceptFails
    BY <1>2 DEF SelectFails, AcceptFails
<1>3. CASE Return
    BY <1>3 DEF Return
<1>4. CASE Accept \/ AcceptNobody \/ ReceiveTerminates \/ NotReady \/ ReceiveData
    <2>1. pc' \in {"loop", "terminated"}
        BY <1>4 DEF Accept, AcceptNobody, ReceiveTerminates, NotReady, ReceiveData, InLoop
    <2>. QED BY <2>1
<1>5. CASE ReceiveFails \/ ReceiveNothing
    BY <1>5, DropCases DEF ShutDown, ShutDownFails, InLoop
<1>6. CASE Peer \/ Dismiss \/ Destroy \/ SendAllKills
    BY <1>6 DEF Peer, Dismiss, Destroy, SendAllKills
<1>7. CASE UNCHANGED multi
    BY <1>7 DEF multi
<1>. QED BY <1>1, <1>2, <1>3, <1>4, <1>5, <1>6, <1>7 DEF Next, Process, vars

\* As soon as a close() has failed, a client that is not open is in the set, and as it
\* makes select() fail, process() never gets far enough to shut it down.
LEMMA NextDeaf ==
    ASSUME SocketSetupAssumption, MultiSocketAssumption, TypeInv, [Next]_vars
    PROVE  DeafInv'
<1>. USE DEF TypeInv
<1>1. owner \in [Descriptors -> Peers \cup {NoPeer, Console}] /\ clientSockets \subseteq Descriptors
    BY DEF TypeOK
<1>2. CASE Construct /\ UNCHANGED multi
    <2>1. step \notin {"constructed", "destroyed"}
        BY <1>2 DEF Construct, OpenSocket, SetOption, TryAddress, NoAddressLeft, Constructed, Unwind
    <2>. QED BY <1>2, <2>1 DEF DeafInv, multi, ends
<1>3. CASE Serving /\ UNCHANGED setup /\ Dismiss
    <2>1. PICK d \in clientSockets :
             /\ Close(d)
             /\ \/ owner[d] # NoPeer /\ clientSockets' = clientSockets \ {d} /\ unclosed' = unclosed
                \/ clientSockets' = clientSockets
        BY <1>3 DEF Dismiss
    <2>2. d \in Descriptors /\ owner'[d] = NoPeer
          /\ \A e \in Descriptors : e # d => owner'[e] = owner[e]
        BY <1>1, <2>1, CloseType
    <2>3. pc' = "idle" /\ step' = "constructed"
        BY <1>3 DEF Dismiss, Serving, setup
    <2>4. CASE clientSockets' = clientSockets
        BY <2>1, <2>2, <2>3, <2>4 DEF DeafInv, Stale
    <2>5. CASE owner[d] # NoPeer /\ clientSockets' = clientSockets \ {d} /\ unclosed' = unclosed
        <3>1. Stale \subseteq Stale'
            BY <1>1, <2>2, <2>5 DEF Stale
        <3>. QED BY <1>3, <2>3, <2>5, <3>1 DEF DeafInv, Serving
    <2>. QED BY <2>1, <2>4, <2>5
<1>4. CASE Serving /\ UNCHANGED setup /\ (ReceiveFails \/ ReceiveNothing)
    <2>1. it \in clientSockets /\ it \in Descriptors /\ pc = "loop" /\ step' = "constructed"
        BY <1>1, <1>4, DropCases DEF InLoop, TypeOK, Serving, setup
    <2>2. CASE ShutDown
        <3>1. pc' = "loop" /\ unclosed' = unclosed
            BY <2>1, <2>2 DEF ShutDown
        <3>. QED BY <2>1, <3>1 DEF DeafInv
    <2>3. CASE ShutDownFails
        <3>1. pc' = "idle" /\ clientSockets' = clientSockets /\ Close(it)
            BY <2>3 DEF ShutDownFails
        <3>2. owner'[it] = NoPeer
            BY <2>1, <3>1, CloseType
        <3>. QED BY <2>1, <3>1, <3>2 DEF DeafInv, Stale
    <2>. QED BY <1>4, <2>2, <2>3, DropCases
<1>5. CASE Serving /\ UNCHANGED setup /\ (Select \/ Accept \/ AcceptNobody \/ AcceptFails)
    <2>1. unclosed = {} /\ unclosed' = unclosed
        BY <1>5 DEF Select, Accept, AcceptNobody, AcceptFails, ends, Serving, DeafInv
    <2>. QED BY <2>1 DEF DeafInv
<1>6. CASE /\ Serving /\ UNCHANGED setup
           /\ SelectFails \/ NotReady \/ ReceiveData \/ ReceiveTerminates \/ Return \/ Peer \/ SendAllKills
    <2>1. UNCHANGED <<owner, clientSockets, unclosed, step>>
        BY <1>6 DEF SelectFails, NotReady, ReceiveData, ReceiveTerminates, Return, Peer, SendAllKills,
                    kernel, ends, setup
    <2>2. Stale' = Stale
        BY <2>1 DEF Stale
    <2>3. pc' \in {"accept", "loop"} => pc \in {"accept", "loop"}
        BY <1>6 DEF SelectFails, NotReady, ReceiveData, ReceiveTerminates, Return, Peer, SendAllKills,
                    InLoop
    <2>. QED BY <2>1, <2>2, <2>3 DEF DeafInv
<1>7. CASE Destroy
    BY <1>7 DEF Destroy, DestroySocket, ends, DeafInv
<1>8. CASE UNCHANGED vars
    BY <1>8 DEF vars, multi, setup, kernel, ends, DeafInv, Stale
<1>. QED BY <1>2, <1>3, <1>4, <1>5, <1>6, <1>7, <1>8 DEF Next, Process

LEMMA NextHeard ==
    ASSUME SocketSetupAssumption, MultiSocketAssumption, TypeInv, [Next]_vars
    PROVE  HeardInv'
<1>. USE DEF TypeInv
<1>. DEFINE n == Len(results) + 1
<1>1. results \in Seq(SocketResult) /\ n \in Nat /\ DOMAIN results = 1..(n - 1)
    BY DEF TypeOK
<1>2. CASE ReceiveData
    <2>0. SUFFICES ASSUME unclosed = {}
                   PROVE  HeardInv'
        BY <1>2 DEF ReceiveData, ends, HeardInv
    <2>1. PICK p \in Peers, upTo \in Nat :
             /\ read[p] < upTo
             /\ read' = [read EXCEPT ![p] = upTo]
             /\ results' = Append(results, Data(it, p, upTo))
        BY <1>2, ReceiveDataType
    <2>2. heard' = heard /\ read \in [Peers -> Nat] /\ heard \in [Peers -> Nat]
        BY <1>2 DEF ReceiveData, caller, TypeOK
    <2>3. DOMAIN results' = 1..n /\ results'[n] = Data(it, p, upTo)
          /\ \A i \in DOMAIN results : results'[i] = results[i]
        BY <1>1, <2>1
    <2>4. \A q \in Peers : q # p => Told(q)' = Told(q)
        BY <1>1, <2>3 DEF Told, Data
    <2>5. Told(p)' = Told(p) \cup {n}
        BY <1>1, <2>3 DEF Told, Data
    <2>6. \A q \in Peers : Told(q) \subseteq DOMAIN results
        BY DEF Told
    <2>7. results'[n].upTo = upTo
        BY <2>3 DEF Data
    <2>8. ASSUME NEW i \in DOMAIN results
          PROVE  results[i].upTo \in Nat
        <3>1. results[i] \in SocketResult
            BY <1>1
        <3>. QED BY <3>1 DEF SocketResult
    <2>9. ASSUME NEW q \in Peers, q # p
          PROVE  /\ heard'[q] <= read'[q] /\ \A i \in Told(q)' : results'[i].upTo <= read'[q]
                 /\ read'[q] = heard'[q] \/ \E i \in Told(q)' : results'[i].upTo = read'[q]
        <3>1. read'[q] = read[q] /\ heard'[q] = heard[q]
            BY <2>1, <2>2, <2>9
        <3>. QED BY <2>0, <2>3, <2>4, <2>6, <2>9, <3>1 DEF HeardInv
    <2>10. read'[p] = upTo /\ heard'[p] = heard[p] /\ heard[p] <= read[p]
           /\ read[p] \in Nat /\ heard[p] \in Nat
        BY <2>0, <2>1, <2>2 DEF HeardInv
    <2>11. ASSUME NEW i \in Told(p)'
           PROVE  results'[i].upTo <= read'[p]
        <3>1. CASE i = n
            BY <2>7, <2>10, <3>1
        <3>2. CASE i \in Told(p)
            <4>1. results[i].upTo <= read[p] /\ results[i].upTo \in Nat /\ results'[i] = results[i]
                BY <2>0, <2>3, <2>6, <2>8, <3>2 DEF HeardInv
            <4>. QED BY <2>1, <2>10, <4>1
        <3>. QED BY <2>5, <3>1, <3>2
    <2>12. \E i \in Told(p)' : results'[i].upTo = read'[p]
        BY <2>5, <2>7, <2>10
    <2>13. heard'[p] <= read'[p]
        BY <2>1, <2>10
    <2>. QED BY <2>9, <2>11, <2>12, <2>13 DEF HeardInv
<1>3. CASE ShutDown
    <2>2. read' = read /\ heard' = heard /\ results' = Append(results, Closed(it, owner[it]))
          /\ unclosed' = unclosed
        BY <1>3 DEF ShutDown, Close, caller
    <2>3. DOMAIN results' = 1..n /\ results'[n] = Closed(it, owner[it])
          /\ \A i \in DOMAIN results : results'[i] = results[i]
        BY <1>1, <2>2
    <2>4. \A q \in Peers : Told(q)' = Told(q)
        BY <1>1, <2>3 DEF Told, Closed
    <2>5. \A q \in Peers : Told(q) \subseteq DOMAIN results
        BY DEF Told
    <2>. QED BY <2>2, <2>3, <2>4, <2>5 DEF HeardInv
<1>4. CASE Return
    <2>1. heard' = read /\ read' = read /\ results' = <<>>
        BY <1>4, ReturnHears DEF Return, kernel
    <2>2. \A q \in Peers : Told(q)' = {}
        BY <2>1 DEF Told
    <2>3. \A q \in Peers : read[q] \in Nat
        BY DEF TypeOK
    <2>. QED BY <2>1, <2>2, <2>3 DEF HeardInv
<1>5. CASE UNCHANGED <<read, heard, results>> /\ (unclosed' = {} => unclosed = {})
    BY <1>5 DEF HeardInv, Told
<1>6. CASE unclosed' # {}
    BY <1>6 DEF HeardInv
<1>7. \/ ReceiveData \/ ShutDown \/ Return \/ unclosed' # {}
      \/ UNCHANGED <<read, heard, results>> /\ (unclosed' = {} => unclosed = {})
    <2>1. CASE Select \/ SelectFails \/ Accept \/ AcceptNobody \/ AcceptFails \/ NotReady \/ ReceiveTerminates
        BY <2>1 DEF Select, SelectFails, Accept, AcceptNobody, AcceptFails, NotReady, ReceiveTerminates,
                    kernel, caller, ends
    <2>2. CASE ReceiveFails \/ ReceiveNothing
        BY <2>2, DropCases DEF ShutDownFails
    <2>3. CASE Dismiss
        BY <2>3 DEF Dismiss, Close, caller
    <2>4. CASE Peer \/ SendAllKills \/ Destroy
        BY <2>4 DEF Peer, SendAllKills, Destroy, kernel, caller, ends
    <2>5. CASE UNCHANGED multi
        BY <2>5 DEF multi, kernel, caller, ends
    <2>. QED BY <2>1, <2>2, <2>3, <2>4, <2>5 DEF Next, Process, vars
<1>. QED BY <1>2, <1>3, <1>4, <1>5, <1>6, <1>7

LEMMA NextDropped ==
    ASSUME SocketSetupAssumption, MultiSocketAssumption, TypeInv, [Next]_vars
    PROVE  DroppedInv'
<1>. USE DEF TypeInv
<1>. DEFINE n == Len(results) + 1
<1>1. results \in Seq(SocketResult) /\ n \in Nat /\ DOMAIN results = 1..(n - 1)
    BY DEF TypeOK
<1>2. CASE ReceiveData
    <2>1. PICK p \in Peers, upTo \in Nat : results' = Append(results, Data(it, p, upTo))
        BY <1>2, ReceiveDataType
    <2>2. DOMAIN results' = 1..n /\ results'[n] = Data(it, p, upTo)
          /\ \A i \in DOMAIN results : results'[i] = results[i]
        BY <1>1, <2>1
    <2>3. ToldClosed' = ToldClosed
        BY <1>1, <2>2 DEF ToldClosed, Data
    <2>4. UNCHANGED <<dropped, told, unclosed>>
        BY <1>2 DEF ReceiveData, caller, ends
    <2>. QED BY <2>3, <2>4 DEF DroppedInv
<1>3. CASE ShutDown
    <2>1. /\ results' = Append(results, Closed(it, owner[it])) /\ told' = told /\ unclosed' = unclosed
          /\ dropped' = dropped \cup ({owner[it]} \cap Peers)
        BY <1>3 DEF ShutDown, Close, caller
    <2>2. DOMAIN results' = 1..n /\ results'[n] = Closed(it, owner[it])
          /\ \A i \in DOMAIN results : results'[i] = results[i]
        BY <1>1, <2>1
    <2>3. results'[n].is = "closed" /\ results'[n].from = owner[it]
        BY <2>2 DEF Closed
    <2>4. ToldClosed' = ToldClosed \cup ({owner[it]} \cap Peers)
        BY <1>1, <2>2, <2>3 DEF ToldClosed
    <2>. QED BY <2>1, <2>4 DEF DroppedInv
<1>4. CASE Return
    <2>1. told' = told \cup ToldClosed /\ results' = <<>> /\ UNCHANGED <<dropped, unclosed>>
        BY <1>4 DEF Return, ToldClosed, ends
    <2>2. ToldClosed' = {}
        BY <2>1 DEF ToldClosed
    <2>. QED BY <2>1, <2>2 DEF DroppedInv
<1>5. CASE UNCHANGED <<dropped, told, results>> /\ (unclosed' = {} => unclosed = {})
    BY <1>5 DEF DroppedInv, ToldClosed
<1>6. CASE unclosed' # {}
    BY <1>6 DEF DroppedInv
<1>7. \/ ReceiveData \/ ShutDown \/ Return \/ unclosed' # {}
      \/ UNCHANGED <<dropped, told, results>> /\ (unclosed' = {} => unclosed = {})
    <2>1. CASE Select \/ SelectFails \/ Accept \/ AcceptNobody \/ AcceptFails \/ NotReady \/ ReceiveTerminates
        BY <2>1 DEF Select, SelectFails, Accept, AcceptNobody, AcceptFails, NotReady, ReceiveTerminates,
                    caller, ends
    <2>2. CASE ReceiveFails \/ ReceiveNothing
        BY <2>2, DropCases DEF ShutDownFails
    <2>3. CASE Dismiss
        BY <2>3 DEF Dismiss, Close, caller
    <2>4. CASE Peer \/ SendAllKills \/ Destroy
        BY <2>4 DEF Peer, SendAllKills, Destroy, caller, ends
    <2>5. CASE UNCHANGED multi
        BY <2>5 DEF multi, caller, ends
    <2>. QED BY <2>1, <2>2, <2>3, <2>4, <2>5 DEF Next, Process, vars
<1>. QED BY <1>2, <1>3, <1>4, <1>5, <1>6, <1>7

\* The types hold, and with them what the iterator and the results are for.
LEMMA TypeInvariant ==
    ASSUME SocketSetupAssumption, MultiSocketAssumption
    PROVE  Spec => []TypeInv
<1>1. Init => TypeInv
    BY InitType
<1>2. TypeInv /\ [Next]_vars => TypeInv'
    BY NextType, NextIterator, NextDeaf, NextHeard, NextDropped DEF TypeInv
<1>. QED BY <1>1, <1>2, PTL DEF Spec

\* What process() has read from a client its caller hears, whichever other clients
\* it shuts down in the same call, and however often that makes it start over, as long
\* as no close() fails: then what was read in the same call is lost.
THEOREM ReadReachesTheCaller == Spec => []ReadIsHeard
<1>1. TypeInv => ReadIsHeard
    <2>1. SUFFICES ASSUME TypeInv, pc = "idle", unclosed = {}
                   PROVE  heard = read
        BY DEF ReadIsHeard
    <2>2. \A p \in Peers : Told(p) = {}
        BY <2>1 DEF TypeInv, IteratorInv, Told
    <2>3. \A p \in Peers : read[p] = heard[p]
        BY <2>1, <2>2 DEF TypeInv, HeardInv
    <2>. QED BY <2>1, <2>3 DEF TypeInv, TypeOK
<1>. QED BY <1>1, TypeInvariant, SocketSetupAssumption, MultiSocketAssumption, PTL

\* Whoever process() shuts down its caller is told of, whichever other calls fail, as
\* long as no close() does.
THEOREM ShutDownReachesTheCaller == Spec => []ClosedIsReported
<1>1. TypeInv => ClosedIsReported
    <2>1. SUFFICES ASSUME TypeInv, pc = "idle", unclosed = {}
                   PROVE  told = dropped
        BY DEF ClosedIsReported
    <2>2. results = <<>>
        BY <2>1 DEF TypeInv, IteratorInv
    <2>3. ToldClosed = {}
        BY <2>2 DEF ToldClosed
    <2>. QED BY <2>1, <2>3 DEF TypeInv, DroppedInv
<1>. QED BY <1>1, TypeInvariant, SocketSetupAssumption, MultiSocketAssumption, PTL

\* One close() that fails is the end: whoever connects and writes afterwards, process()
\* throws each time, and neither accepts nor reads nor reports.
THEOREM OneFailedCloseIsTheEnd == Spec => FailedCloseIsFinal
<1>1. ASSUME TypeInv, [Next]_vars
      PROVE  [unclosed # {} => /\ UNCHANGED <<heard, told>>
                               /\ clientSockets' \subseteq clientSockets]_vars
    <2>1. SUFFICES ASSUME Next, unclosed # {}
                   PROVE  UNCHANGED <<heard, told>> /\ clientSockets' \subseteq clientSockets
        BY <1>1
    <2>2. pc \notin {"accept", "loop"} /\ (Serving => Stale # {})
        BY <1>1, <2>1 DEF TypeInv, DeafInv, Serving
    <2>3. CASE Serving /\ Process
        <3>1. SelectFails
            BY <2>2, <2>3, DropCases
               DEF Process, Select, Accept, AcceptNobody, AcceptFails, NotReady, ReceiveData,
                   ReceiveTerminates, Return, InLoop
        <3>. QED BY <3>1 DEF SelectFails, caller
    <2>4. CASE Dismiss
        BY <2>4 DEF Dismiss, Close, caller
    <2>5. CASE Peer \/ SendAllKills \/ Destroy \/ UNCHANGED multi
        BY <2>5 DEF Peer, SendAllKills, Destroy, multi, caller
    <2>. QED BY <2>1, <2>3, <2>4, <2>5 DEF Next
<1>. QED BY <1>1, TypeInvariant, SocketSetupAssumption, MultiSocketAssumption, PTL
         DEF Spec, FailedCloseIsFinal

\* Whatever the clients and the addresses do, every variable keeps its type.
THEOREM TypeCorrect == Spec => []TypeOK
<1>1. TypeInv => TypeOK
    BY DEF TypeInv
<1>. QED BY <1>1, TypeInvariant, SocketSetupAssumption, MultiSocketAssumption, PTL

-----------------------------------------------------------------------------
(* The clients and the descriptors.                                        *)

LEMMA NextClients ==
    ASSUME SocketSetupAssumption, MultiSocketAssumption, TypeInv, ClientsAreOpen, [Next]_vars
    PROVE  ClientsAreOpen'
<1>. USE DEF TypeInv
<1>1. owner \in [Descriptors -> Peers \cup {NoPeer, Console}] /\ clientSockets \subseteq Descriptors
    BY DEF TypeOK
<1>2. CASE Accept
    <2>1. PICK d \in Least(Free) \ {End}, p \in backlog :
             /\ owner' = [owner EXCEPT ![d] = p]
             /\ clientSockets' = clientSockets \cup {d}
        BY <1>2 DEF Accept
    <2>2. d \in Descriptors /\ p \in Peers /\ owner[d] = NoPeer /\ unclosed' = unclosed
        BY <1>2, <2>1, LeastOfSet DEF Accept, Free, TypeOK, ends
    <2>. QED BY <1>1, <2>1, <2>2 DEF ClientsAreOpen
<1>3. CASE AcceptNobody
    BY <1>3 DEF AcceptNobody, kernel, ends, ClientsAreOpen
<1>4. ASSUME NEW d \in clientSockets, Close(d),
             \/ clientSockets' = clientSockets \ {d} /\ unclosed' = unclosed
             \/ clientSockets' = clientSockets /\ unclosed' = unclosed \cup {d}
      PROVE  ClientsAreOpen'
    <2>1. owner'[d] = NoPeer /\ \A e \in Descriptors : e # d => owner'[e] = owner[e]
        BY <1>1, <1>4, CloseType
    <2>2. NoPeer \notin Peers
        BY Numbers
    <2>. QED BY <1>1, <1>4, <2>1, <2>2 DEF ClientsAreOpen
<1>5. CASE ReceiveFails \/ ReceiveNothing
    <2>1. it \in clientSockets
        BY <1>5, DropCases DEF InLoop, TypeOK
    <2>. QED BY <1>4, <1>5, <2>1, DropCases DEF ShutDown, ShutDownFails
<1>6. CASE Dismiss
    BY <1>4, <1>6 DEF Dismiss
<1>7. CASE Destroy
    <2>1. /\ owner' = [d \in Descriptors |-> IF d \in clientSockets THEN NoPeer ELSE owner[d]]
          /\ clientSockets' = {}
        BY <1>7 DEF Destroy
    <2>. QED BY <1>1, <2>1, Numbers DEF ClientsAreOpen
<1>8. CASE UNCHANGED <<owner, clientSockets, unclosed>>
    BY <1>8 DEF ClientsAreOpen
<1>9. \/ Accept \/ AcceptNobody \/ ReceiveFails \/ ReceiveNothing \/ Dismiss \/ Destroy
      \/ UNCHANGED <<owner, clientSockets, unclosed>>
    <2>1. CASE Select \/ SelectFails \/ AcceptFails \/ NotReady \/ ReceiveTerminates \/ Return
        BY <2>1 DEF Select, SelectFails, AcceptFails, NotReady, ReceiveTerminates, Return, kernel, ends
    <2>2. CASE Peer \/ ReceiveData \/ SendAllKills
        BY <2>2 DEF Peer, ReceiveData, SendAllKills, kernel, ends
    <2>3. CASE UNCHANGED multi
        BY <2>3 DEF multi, kernel, ends
    <2>. QED BY <2>1, <2>2, <2>3 DEF Next, Process, vars
<1>. QED BY <1>2, <1>3, <1>5, <1>6, <1>7, <1>8, <1>9

\* What is open at each step of a constructor, which addresses it has tried, and
\* that there are clients only while there is a server.
SetupInv ==
    /\ step = "socket" => open = {} /\ socket = 0
    /\ step \in {"option", "address", "break", "constructed"} => open = {Descriptor} /\ socket = Descriptor
    /\ step \in {"throw", "destroyed"} => open = {}
    /\ step \in {"socket", "option", "address", "break"} =>
         \A i \in 1..(at - 1) : addresses[i] = "refused"

NoClients == step # "constructed" => clientSockets = {}

LEMMA ConstructSetup ==
    ASSUME SocketSetupAssumption, MultiSocketAssumption, SetupType, SetupInv, Construct
    PROVE  SetupInv'
<1>. USE DEF SetupInv
<1>1. Descriptor > 0 /\ Descriptor \in Int
    BY Numbers
<1>2. at \in Nat /\ addresses \in Seq(Outcomes)
    BY DEF SetupType
<1>3. CASE OpenSocket
    <2>1. step = "socket" /\ at <= Len(addresses) /\ UNCHANGED <<addresses, at>>
        BY <1>3 DEF OpenSocket
    <2>2. CASE addresses[at] = "no_socket"
        BY <1>3, <2>1, <2>2 DEF OpenSocket
    <2>3. CASE addresses[at] # "no_socket"
        BY <1>3, <2>1, <2>3 DEF OpenSocket
    <2>. QED BY <2>2, <2>3
<1>4. CASE SetOption
    BY <1>4 DEF SetOption
<1>5. CASE TryAddress
    <2>1. CASE addresses[at] = "refused"
        <3>1. /\ open' = open \ {socket} /\ socket' = 0 /\ at' = at + 1 /\ step' = "socket"
              /\ addresses' = addresses /\ step = "address"
            BY <1>5, <2>1 DEF TryAddress
        <3>2. \A i \in 1..(at' - 1) : i \in 1..(at - 1) \/ i = at
            BY <1>2, <3>1
        <3>. QED BY <2>1, <3>1, <3>2
    <2>2. CASE addresses[at] # "refused"
        BY <1>5, <2>2 DEF TryAddress
    <2>. QED BY <2>1, <2>2
<1>6. CASE NoAddressLeft
    BY <1>6 DEF NoAddressLeft
<1>7. CASE Constructed
    BY <1>7 DEF Constructed
<1>8. CASE Unwind
    BY <1>8 DEF Unwind, DestroySocket
<1>. QED BY <1>3, <1>4, <1>5, <1>6, <1>7, <1>8 DEF Construct

OpenInv == TypeInv /\ ClientsAreOpen /\ SetupInv /\ NoClients

LEMMA InitOpen ==
    ASSUME SocketSetupAssumption, MultiSocketAssumption, Init
    PROVE  OpenInv
<1>1. TypeInv
    BY InitType
<1>2. ClientsAreOpen
    BY Numbers DEF Init, ClientsAreOpen
<1>3. SetupInv
    <2>1. step \in {"throw", "socket"} /\ at = 1 /\ socket = 0 /\ open = {}
        BY DEF Init, SetupInit
    <2>. QED BY <2>1 DEF SetupInv
<1>4. NoClients
    BY DEF Init, NoClients
<1>. QED BY <1>1, <1>2, <1>3, <1>4 DEF OpenInv

LEMMA NextOpen ==
    ASSUME SocketSetupAssumption, MultiSocketAssumption, OpenInv, [Next]_vars
    PROVE  OpenInv'
<1>. USE DEF OpenInv
<1>1. TypeInv'
    BY NextType, NextIterator, NextDeaf, NextHeard, NextDropped DEF TypeInv
<1>2. ClientsAreOpen'
    BY NextClients
<1>3. SetupInv' /\ NoClients'
    <2>1. CASE Construct /\ UNCHANGED multi
        <3>1. SetupInv'
            BY <2>1, ConstructSetup DEF TypeInv, TypeOK
        <3>2. step # "constructed" /\ clientSockets' = clientSockets
            BY <2>1 DEF Construct, OpenSocket, SetOption, TryAddress, NoAddressLeft, Constructed, Unwind,
                        multi
        <3>. QED BY <3>1, <3>2 DEF NoClients
    <2>2. CASE Serving /\ UNCHANGED setup
        BY <2>2 DEF Serving, setup, SetupInv, NoClients
    <2>3. CASE Destroy
        <3>1. /\ step = "constructed" /\ step' = "destroyed" /\ clientSockets' = {}
              /\ open' = IF socket > 0 THEN open \ {socket} ELSE open
            BY <2>3 DEF Destroy, DestroySocket
        <3>. QED BY <3>1, Numbers DEF SetupInv, NoClients
    <2>4. CASE UNCHANGED vars
        BY <2>4 DEF vars, setup, multi, SetupInv, NoClients
    <2>. QED BY <2>1, <2>2, <2>3, <2>4 DEF Next
<1>. QED BY <1>1, <1>2, <1>3

LEMMA OpenInvariant ==
    ASSUME SocketSetupAssumption, MultiSocketAssumption
    PROVE  Spec => []OpenInv
<1>. QED BY InitOpen, NextOpen, PTL DEF Spec

\* The clients are always the connections that are open: none is forgotten, and none
\* is kept whose descriptor has been closed, but for one whose close() has failed and
\* for descriptor 0, which is no connection when accept() has found nobody.
THEOREM ClientsAreConnections == Spec => []ClientsAreOpen
<1>1. OpenInv => ClientsAreOpen
    BY DEF OpenInv
<1>. QED BY <1>1, OpenInvariant, SocketSetupAssumption, MultiSocketAssumption, PTL

\* However many addresses fail, at whichever of their steps, and whoever is connected
\* at the end: no descriptor outlives the object.
THEOREM NoDescriptorLeaks == Spec => []NothingLeaks
<1>1. OpenInv => NothingLeaks
    <2>1. SUFFICES ASSUME OpenInv
                   PROVE  NothingLeaks
        OBVIOUS
    <2>2. NoSocketLeaks
        BY <2>1 DEF OpenInv, SetupInv, NoSocketLeaks
    <2>3. step = "destroyed" => \A d \in Descriptors : owner[d] \notin Peers
        BY <2>1 DEF OpenInv, NoClients, ClientsAreOpen
    <2>. QED BY <2>2, <2>3 DEF NothingLeaks
<1>. QED BY <1>1, OpenInvariant, SocketSetupAssumption, MultiSocketAssumption, PTL

-----------------------------------------------------------------------------
(* Who is reported closed.                                                 *)

\* A socket that is reported closed is not a client's while the results are made.
ClosedAreNoClients ==
    \A i \in DOMAIN results : results[i].is = "closed" => results[i].socket \notin clientSockets

ReportInv == OpenInv /\ ClosedIsLast /\ ClosedAreNoClients

\* What a step may append to the results.
LEMMA Reports ==
    ASSUME SocketSetupAssumption, MultiSocketAssumption, OpenInv, [Next]_vars
    PROVE  \/ results' = results
           \/ results' = <<>>
           \/ /\ ReceiveData
              /\ \E p \in Peers, upTo \in Nat : results' = Append(results, Data(it, p, upTo))
           \/ ShutDown /\ InLoop
<1>1. CASE ReceiveData
    BY <1>1, ReceiveDataType DEF OpenInv, TypeInv
<1>2. CASE ReceiveFails \/ ReceiveNothing
    BY <1>2, DropCases DEF ShutDownFails
<1>3. CASE \/ Select \/ SelectFails \/ Accept \/ AcceptNobody \/ AcceptFails \/ NotReady
           \/ ReceiveTerminates \/ Return
    BY <1>3 DEF Select, SelectFails, Accept, AcceptNobody, AcceptFails, NotReady, ReceiveTerminates, Return
<1>4. CASE Peer \/ Dismiss \/ SendAllKills \/ Destroy
    BY <1>4 DEF Peer, Dismiss, SendAllKills, Destroy
<1>5. CASE UNCHANGED multi
    BY <1>5 DEF multi
<1>. QED BY <1>1, <1>2, <1>3, <1>4, <1>5 DEF Next, Process, vars

LEMMA NextClosedIsLast ==
    ASSUME SocketSetupAssumption, MultiSocketAssumption, ReportInv, [Next]_vars
    PROVE  ClosedIsLast' /\ ClosedAreNoClients'
<1>. USE DEF ReportInv
<1>. DEFINE n == Len(results) + 1
<1>1. results \in Seq(SocketResult) /\ DOMAIN results = 1..(n - 1) /\ n \in Nat
    BY DEF OpenInv, TypeInv, TypeOK
<1>2. CASE ReceiveData
    <2>1. PICK p \in Peers, upTo \in Nat : results' = Append(results, Data(it, p, upTo))
                                          /\ it \in clientSockets
        BY <1>2, ReceiveDataType DEF OpenInv, TypeInv
    <2>2. DOMAIN results' = 1..n /\ results'[n] = Data(it, p, upTo)
          /\ \A i \in DOMAIN results : results'[i] = results[i]
        BY <1>1, <2>1
    <2>3. clientSockets' = clientSockets
        BY <1>2 DEF ReceiveData
    <2>4. results'[n].is = "data" /\ results'[n].socket = it
        BY <2>2 DEF Data
    <2>5. ClosedAreNoClients'
        BY <1>1, <2>2, <2>3, <2>4 DEF ClosedAreNoClients
    <2>6. ClosedIsLast'
        <3>1. SUFFICES ASSUME NEW i \in DOMAIN results', NEW j \in DOMAIN results', i < j,
                              results'[i].socket = results'[j].socket
                       PROVE  results'[i].is = "data"
            BY DEF ClosedIsLast
        <3>2. i \in DOMAIN results /\ results'[i] = results[i]
            BY <1>1, <2>2, <3>1
        <3>3. results[i].is = "closed" \/ results[i].is = "data"
            <4>1. results[i] \in SocketResult
                BY <1>1, <3>2
            <4>. QED BY <4>1 DEF SocketResult
        <3>4. CASE j = n
            BY <2>1, <2>4, <3>1, <3>2, <3>3, <3>4 DEF ClosedAreNoClients
        <3>5. CASE j # n
            BY <1>1, <2>2, <3>1, <3>2, <3>5 DEF ClosedIsLast
        <3>. QED BY <3>4, <3>5
    <2>. QED BY <2>5, <2>6
<1>3. CASE ShutDown /\ InLoop
    <2>1. results' = Append(results, Closed(it, owner[it])) /\ clientSockets' = clientSockets \ {it}
          /\ it \in clientSockets
        BY <1>3 DEF ShutDown, InLoop, OpenInv, TypeInv, TypeOK
    <2>2. DOMAIN results' = 1..n /\ results'[n] = Closed(it, owner[it])
          /\ \A i \in DOMAIN results : results'[i] = results[i]
        BY <1>1, <2>1
    <2>3. results'[n].socket = it
        BY <2>2 DEF Closed
    <2>4. ClosedAreNoClients'
        BY <1>1, <2>1, <2>2, <2>3 DEF ClosedAreNoClients
    <2>5. ClosedIsLast'
        <3>1. SUFFICES ASSUME NEW i \in DOMAIN results', NEW j \in DOMAIN results', i < j,
                              results'[i].socket = results'[j].socket
                       PROVE  results'[i].is = "data"
            BY DEF ClosedIsLast
        <3>2. i \in DOMAIN results /\ results'[i] = results[i]
            BY <1>1, <2>2, <3>1
        <3>3. results[i].is = "closed" \/ results[i].is = "data"
            <4>1. results[i] \in SocketResult
                BY <1>1, <3>2
            <4>. QED BY <4>1 DEF SocketResult
        <3>4. CASE j = n
            BY <2>1, <2>3, <3>1, <3>2, <3>3, <3>4 DEF ClosedAreNoClients
        <3>5. CASE j # n
            BY <1>1, <2>2, <3>1, <3>2, <3>5 DEF ClosedIsLast
        <3>. QED BY <3>4, <3>5
    <2>. QED BY <2>4, <2>5
<1>4. CASE results' = <<>>
    BY <1>4 DEF ClosedIsLast, ClosedAreNoClients
<1>5. CASE results' = results
    <2>1. ClosedIsLast'
        BY <1>5 DEF ClosedIsLast
    <2>2. CASE Accept \/ AcceptNobody
        <3>1. results = <<>>
            BY <2>2 DEF Accept, AcceptNobody, OpenInv, TypeInv, IteratorInv
        <3>. QED BY <1>5, <2>1, <3>1 DEF ClosedAreNoClients
    <2>3. CASE clientSockets' \subseteq clientSockets
        BY <1>5, <2>1, <2>3 DEF ClosedAreNoClients
    <2>4. Accept \/ AcceptNobody \/ clientSockets' \subseteq clientSockets
        <3>1. CASE Select \/ SelectFails \/ AcceptFails \/ NotReady \/ ReceiveData \/ ReceiveTerminates \/ Return
            BY <3>1 DEF Select, SelectFails, AcceptFails, NotReady, ReceiveData, ReceiveTerminates, Return
        <3>2. CASE ReceiveFails \/ ReceiveNothing
            BY <3>2, DropCases DEF ShutDown, ShutDownFails
        <3>3. CASE Peer \/ Dismiss \/ SendAllKills \/ Destroy
            BY <3>3 DEF Peer, Dismiss, SendAllKills, Destroy
        <3>4. CASE UNCHANGED multi
            BY <3>4 DEF multi
        <3>. QED BY <3>1, <3>2, <3>3, <3>4 DEF Next, Process, vars
    <2>. QED BY <2>2, <2>3, <2>4
<1>. QED BY <1>2, <1>3, <1>4, <1>5, Reports

LEMMA ReportInvariant ==
    ASSUME SocketSetupAssumption, MultiSocketAssumption
    PROVE  Spec => []ReportInv
<1>1. Init => ReportInv
    <2>1. Init => results = <<>>
        BY DEF Init
    <2>. QED BY <2>1, InitOpen DEF ReportInv, ClosedIsLast, ClosedAreNoClients
<1>2. ReportInv /\ [Next]_vars => ReportInv'
    BY NextOpen, NextClosedIsLast DEF ReportInv
<1>. QED BY <1>1, <1>2, PTL DEF Spec

\* In one list of results nothing comes from a socket after it was reported closed,
\* although the loop starts over with the fd_set of before.
THEOREM ClosedComesLast == Spec => []ClosedIsLast
<1>1. ReportInv => ClosedIsLast
    BY DEF ReportInv
<1>. QED BY <1>1, ReportInvariant, SocketSetupAssumption, MultiSocketAssumption, PTL
=============================================================================
