-------------------------- MODULE ChannelLogProofs --------------------------
(***************************************************************************)
(* What TLAPS proves about ChannelLog: its types; that the rows of a       *)
(* connection tell of the users the plug-in lists, whatever the server     *)
(* sends and in whatever order, as long as no row fails; and that the list *)
(* is of those who are in the channel, with the exceptions the properties  *)
(* name.                                                                   *)
(***************************************************************************)
EXTENDS ChannelLog, SequenceTheorems, TLAPS

\* What onPacket() makes of any message.
Handle(m) == LogNames(m) \/ LogNick(m) \/ LogQuit(m) \/ LogJoin(m) \/ LogPrivMsg(m) \/ LogPart(m)

\* A message's parts are what its type says.
LEMMA MessageParts ==
    ASSUME NEW m \in Message
    PROVE  /\ m.type = "NAMES" => m.users \in SUBSET Users
           /\ m.type \in {"JOIN", "PART", "PRIVMSG", "QUIT", "NICK"} => m.nick \in Nicks
           /\ m.type = "NICK" => m.new \in Nicks
BY DEF Message

\* A handler keeps the types of the plug-in's variables.
LEMMA HandleTypes ==
    ASSUME TypeOK, NEW m \in Message, Handle(m)
    PROVE  /\ channelUsers' \in SUBSET Users /\ told' \in SUBSET Users
           /\ failed' \in SUBSET {"NAMES", "NICK", "QUIT", "JOIN", "PRIVMSG", "PART"}
<1>1. \A n \in Nicks : Bare(n) \in Users
    BY DEF Bare, Users
<1>2. CASE LogNames(m)
    BY <1>2, MessageParts DEF LogNames, TypeOK
<1>3. CASE LogNick(m)
    <2>1. m.type = "NICK" /\ Bare(m.new) \in Users
        BY <1>1, <1>3, MessageParts DEF LogNick
    <2>2. CASE Bare(m.nick) \in channelUsers
        <3>1. /\ channelUsers' = (channelUsers \ {Bare(m.nick)}) \cup {Bare(m.new)}
              /\ Write("NICK", (told \ {Bare(m.nick)}) \cup {Bare(m.new)})
            BY <1>3, <2>2 DEF LogNick
        <3>2. QED
            BY <2>1, <3>1 DEF Write, TypeOK
    <2>3. CASE Bare(m.nick) \notin channelUsers
        BY <1>3, <2>3 DEF LogNick, TypeOK, plugIn
    <2>4. QED
        BY <2>2, <2>3
<1>4. CASE LogQuit(m)
    BY <1>4 DEF LogQuit, Write, TypeOK, plugIn
<1>5. CASE LogJoin(m)
    <2>1. m.nick \in Nicks
        BY <1>5, MessageParts DEF LogJoin
    <2>. QED BY <1>1, <1>5, <2>1 DEF LogJoin, Write, TypeOK, plugIn
<1>6. CASE LogPrivMsg(m)
    BY <1>6 DEF LogPrivMsg, Write, TypeOK
<1>7. CASE LogPart(m)
    BY <1>7 DEF LogPart, Write, TypeOK, plugIn
<1>8. QED
    BY <1>2, <1>3, <1>4, <1>5, <1>6, <1>7 DEF Handle

\* A handler either writes a row that tells what it does to the list, or records the
\* failure.
LEMMA HandleTells ==
    ASSUME RowsTellUsers, NEW m \in Message, Handle(m)
    PROVE  RowsTellUsers'
<1>1. CASE LogNames(m)
    BY <1>1 DEF LogNames, RowsTellUsers
<1>2. CASE LogNick(m)
    BY <1>2 DEF LogNick, Write, RowsTellUsers, plugIn
<1>3. CASE LogQuit(m)
    BY <1>3 DEF LogQuit, Write, RowsTellUsers, plugIn
<1>4. CASE LogJoin(m)
    BY <1>4 DEF LogJoin, Write, RowsTellUsers, plugIn
<1>5. CASE LogPrivMsg(m)
    BY <1>5 DEF LogPrivMsg, Write, RowsTellUsers
<1>6. CASE LogPart(m)
    BY <1>6 DEF LogPart, Write, RowsTellUsers, plugIn
<1>7. QED
    BY <1>1, <1>2, <1>3, <1>4, <1>5, <1>6 DEF Handle

\* What the server sends are messages.
LEMMA AboutIsMessage ==
    ASSUME NEW type \in {"JOIN", "PART", "PRIVMSG"}, NEW n \in Nicks, NEW place \in Places
    PROVE  About(type, n, place) \in Message
BY DEF About, Message

\* The queue stays one of messages.
LEMMA SendsOne ==
    ASSUME inbox \in Seq(Message), NEW m \in Message, Sends(<<m>>)
    PROVE  inbox' \in Seq(Message)
<1>1. <<m>> \in Seq(Message)
    OBVIOUS
<1>2. inbox \o <<m>> \in Seq(Message)
    BY <1>1
<1>3. QED
    BY <1>2 DEF Sends

\* What happens on the server leaves the types of everything as they are.
LEMMA EventTypes ==
    ASSUME TypeOK, Event
    PROVE  /\ events' \in Nat
           /\ channelUsers' \in SUBSET Users /\ told' \in SUBSET Users
           /\ failed' \in SUBSET {"NAMES", "NICK", "QUIT", "JOIN", "PRIVMSG", "PART"}
BY DEF Event, TypeOK, plugIn

LEMMA TypeCorrectInit == Init => TypeOK
BY DEF Init, TypeOK, Memberships, Users

LEMMA TypeCorrectStep == TypeOK /\ [Next]_vars => TypeOK'
<1> SUFFICES ASSUME TypeOK, [Next]_vars PROVE TypeOK'
    OBVIOUS
<1> USE ChannelLogAssumption
<1>1. ASSUME OnPacket PROVE TypeOK'
    <2>1. Head(inbox) \in Message /\ Tail(inbox) \in Seq(Message)
        BY <1>1 DEF OnPacket, TypeOK
    <2>2. Handle(Head(inbox))
        BY <1>1 DEF OnPacket, Handle
    <2>3. QED
        BY <1>1, <2>1, <2>2, HandleTypes DEF OnPacket, TypeOK, server
<1>2. ASSUME OnDisconnect PROVE TypeOK'
    BY <1>2 DEF OnDisconnect, Reset, TypeOK, Memberships
<1>3. ASSUME BotJoins PROVE TypeOK'
    <2>1. in' \in [Places -> SUBSET Nicks]
        BY <1>3 DEF BotJoins, TypeOK, Places
    <2>2. inbox' \in Seq(Message) /\ masked' \in SUBSET Nicks
        <3>1. PICK marked \in SUBSET in'[Channel], split \in BOOLEAN :
                LET Words(s) == {Bare(n) : n \in s \ marked} \cup {Marked(n) : n \in s \cap marked}
                    Names(s) == [type |-> "NAMES", users |-> Words(s)]
                IN /\ Sends(<<About("JOIN", BotNick, Channel)>> \o
                            IF split THEN <<Names({BotNick}), Names(in[Channel])>>
                                     ELSE <<Names(in'[Channel])>>)
                   /\ masked' = marked \ {BotNick}
            BY <1>3 DEF BotJoins
        <3> DEFINE Words(s) == {Bare(n) : n \in s \ marked} \cup {Marked(n) : n \in s \cap marked}
                   Names(s) == [type |-> "NAMES", users |-> Words(s)]
        <3>2. \A s \in SUBSET Nicks : Names(s) \in Message
            <4> TAKE s \in SUBSET Nicks
            <4>1. \A n \in s : Bare(n) \in Users /\ Marked(n) \in Users
                BY DEF Bare, Marked, Users
            <4>2. Words(s) \in SUBSET Users
                BY <4>1
            <4> HIDE DEF Words
            <4>3. QED
                BY <4>2 DEF Message
        <3>3. in[Channel] \in SUBSET Nicks /\ in'[Channel] \in SUBSET Nicks
            BY <2>1 DEF TypeOK, Places
        <3>4. About("JOIN", BotNick, Channel) \in Message
            BY AboutIsMessage DEF Places
        <3>5. Names({BotNick}) \in Message /\ Names(in[Channel]) \in Message
              /\ Names(in'[Channel]) \in Message
            BY <3>2, <3>3
        <3>6. Sends(<<About("JOIN", BotNick, Channel)>> \o
                    IF split THEN <<Names({BotNick}), Names(in[Channel])>>
                             ELSE <<Names(in'[Channel])>>)
            BY <3>1
        <3> DEFINE a == About("JOIN", BotNick, Channel)
                   b == Names({BotNick})
                   c == Names(in[Channel])
                   d == Names(in'[Channel])
        <3> HIDE DEF Names, a, b, c, d
        <3>7. <<a>> \o <<b, c>> \in Seq(Message) /\ <<a>> \o <<d>> \in Seq(Message)
            BY <3>4, <3>5 DEF a, b, c, d
        <3>8. inbox' = inbox \o (<<a>> \o <<b, c>>) \/ inbox' = inbox \o (<<a>> \o <<d>>)
            BY <3>6 DEF Sends, a, b, c, d
        <3>9. inbox' \in Seq(Message)
            <4>1. inbox \in Seq(Message)
                BY DEF TypeOK
            <4>2. inbox \o (<<a>> \o <<b, c>>) \in Seq(Message)
                BY <3>7, <4>1
            <4>3. inbox \o (<<a>> \o <<d>>) \in Seq(Message)
                BY <3>7, <4>1
            <4>4. QED
                BY <3>8, <4>2, <4>3
        <3>10. QED
            BY <3>1, <3>3, <3>9
    <2>3. unseen' \in SUBSET Nicks /\ strayed' \in SUBSET Nicks
        BY <1>3 DEF BotJoins, Left, TypeOK
    <2>4. QED
        BY <1>3, <2>1, <2>2, <2>3, EventTypes DEF BotJoins, TypeOK
<1>4. ASSUME NEW n \in Nicks, NEW place \in Places, Joins(n, place) PROVE TypeOK'
    <2>1. inbox' \in Seq(Message)
        BY <1>4, SendsOne, AboutIsMessage DEF Joins, TypeOK
    <2>2. in' \in [Places -> SUBSET Nicks]
        BY <1>4 DEF Joins, TypeOK
    <2>3. QED
        BY <1>4, <2>1, <2>2, EventTypes DEF Joins, Left, TypeOK
<1>5. ASSUME NEW n \in Nicks, NEW place \in Places, Parts(n, place) PROVE TypeOK'
    <2>1. inbox' \in Seq(Message)
        BY <1>5, SendsOne, AboutIsMessage DEF Parts, TypeOK
    <2>2. in' \in [Places -> SUBSET Nicks]
        BY <1>5 DEF Parts, TypeOK
    <2>3. unseen' \in SUBSET Nicks
        BY <1>5 DEF Parts, Left, TypeOK
    <2>4. QED
        BY <1>5, <2>1, <2>2, <2>3, EventTypes DEF Parts, TypeOK
<1>6. ASSUME NEW n \in Nicks, NEW place \in Places, Says(n, place) PROVE TypeOK'
    <2>1. inbox' \in Seq(Message)
        BY <1>6, SendsOne, AboutIsMessage DEF Says, TypeOK
    <2>2. QED
        BY <1>6, <2>1, EventTypes DEF Says, TypeOK
<1>7. ASSUME NEW n \in Nicks, IsKicked(n) PROVE TypeOK'
    <2>1. in' \in [Places -> SUBSET Nicks]
        BY <1>7 DEF IsKicked, TypeOK
    <2>2. QED
        BY <1>7, <2>1, EventTypes DEF IsKicked, Left, TypeOK
<1>8. ASSUME NEW n \in Nicks, Quits(n) PROVE TypeOK'
    <2>1. [type |-> "QUIT", nick |-> n] \in Message
        BY DEF Message
    <2>2. inbox' \in Seq(Message)
        BY <1>8, <2>1, SendsOne DEF Quits, TypeOK
    <2>3. in' \in [Places -> SUBSET Nicks]
        BY <1>8 DEF Quits, TypeOK
    <2>4. unseen' \in SUBSET Nicks
        BY <1>8 DEF Quits, Left, TypeOK
    <2>5. QED
        BY <1>8, <2>2, <2>3, <2>4, EventTypes DEF Quits, TypeOK
<1>9. ASSUME NEW n \in Nicks, NEW new \in Nicks, Renames(n, new) PROVE TypeOK'
    <2>1. [type |-> "NICK", nick |-> n, new |-> new] \in Message
        BY DEF Message
    <2>2. inbox' \in Seq(Message)
        BY <1>9, <2>1, SendsOne DEF Renames, TypeOK
    <2>3. \A s \in SUBSET Nicks : Renamed(s, n, new) \in SUBSET Nicks
        BY DEF Renamed
    <2>4. in' \in [Places -> SUBSET Nicks]
        BY <1>9, <2>3 DEF Renames, TypeOK
    <2>5. unseen' \in SUBSET Nicks
        BY <1>9, <2>3 DEF Renames, Left, TypeOK
    <2>6. masked' \in SUBSET Nicks /\ strayed' \in SUBSET Nicks
        BY <1>9, <2>3 DEF Renames, TypeOK
    <2>7. QED
        BY <1>9, <2>2, <2>4, <2>5, <2>6, EventTypes DEF Renames, TypeOK
<1>10. ASSUME UNCHANGED vars PROVE TypeOK'
    BY <1>10 DEF vars, server, plugIn, TypeOK
<1>11. QED
    BY <1>1, <1>2, <1>3, <1>4, <1>5, <1>6, <1>7, <1>8, <1>9, <1>10 DEF Next

\* The types of ChannelLog: what is listed and told are words of lists of users.
THEOREM TypeCorrect == Spec => []TypeOK
<1>1. QED
    BY TypeCorrectInit, TypeCorrectStep, PTL DEF Spec

\* Replaying the rows of a connection gives the list the plug-in has, for any number of
\* users and any sequence of messages, as long as none of the rows failed.
THEOREM RowsAreTrue == Spec => []RowsTellUsers
<1>1. Init => RowsTellUsers
    BY DEF Init, RowsTellUsers
<1>2. TypeOK /\ RowsTellUsers /\ [Next]_vars => RowsTellUsers'
    <2> SUFFICES ASSUME TypeOK, RowsTellUsers, [Next]_vars PROVE RowsTellUsers'
        OBVIOUS
    <2>1. CASE OnPacket
        <3>1. Head(inbox) \in Message /\ Handle(Head(inbox))
            BY <2>1 DEF OnPacket, Handle, TypeOK
        <3>2. QED
            BY <3>1, HandleTells
    <2>2. CASE OnDisconnect
        BY <2>2 DEF OnDisconnect, Reset, RowsTellUsers
    <2>3. CASE UNCHANGED plugIn
        BY <2>3 DEF plugIn, RowsTellUsers
    <2>4. OnPacket \/ OnDisconnect \/ UNCHANGED plugIn
        BY DEF Next, Event, BotJoins, Joins, Parts, Says, IsKicked, Quits, Renames, vars
    <2>5. QED
        BY <2>1, <2>2, <2>3, <2>4
<1>3. QED
    BY <1>1, <1>2, TypeCorrect, PTL DEF Spec

-----------------------------------------------------------------------------
(* The list follows the channel.  What the plug-in will list when it has   *)
(* processed the messages on their way is compared with who is in the      *)
(* channel now.                                                            *)

\* Who a message leaves on a list of bare names that had those of L.
Effect(m, L) ==
    CASE m.type = "NAMES"                     -> L \cup {n \in Nicks : Bare(n) \in m.users}
      [] m.type = "JOIN" /\ m.place = Channel -> L \cup {m.nick}
      [] m.type = "NICK"                      -> Renamed(L, m.nick, m.new)
      [] m.type \in {"QUIT", "PART"}          -> L \ {m.nick}
      [] OTHER                                -> L

\* The messages q lead from the list A to the list B.
Flow(q, A, B) ==
    \E L \in [1..(Len(q) + 1) -> SUBSET Nicks] :
        /\ L[1] = A /\ L[Len(q) + 1] = B
        /\ \A k \in 1..Len(q) : L[k + 1] = Effect(q[k], L[k])

Listed == {n \in Nicks : Bare(n) \in channelUsers}

\* B lists who is in the channel, as far as the plug-in is told of it.
Fits(B) ==
    /\ B \subseteq in[Channel] \cup unseen
    /\ Hears(Channel) => in[Channel] \ (masked \cup strayed) \subseteq B

\* The messages on their way lead from the list, or from a longer one when a list of
\* names has been skipped, to one that fits.
Agrees(A, B) ==
    /\ Flow(inbox, A, B)
    /\ Listed \subseteq A
    /\ "NAMES" \notin failed => A = Listed
    /\ Fits(B)

ListInv ==
    /\ Hears(Other)
    /\ \E A, B \in SUBSET Nicks : Agrees(A, B)

LEMMA EffectType ==
    ASSUME NEW m \in Message, NEW L \in SUBSET Nicks
    PROVE  Effect(m, L) \in SUBSET Nicks
BY MessageParts DEF Effect, Renamed

LEMMA FlowNil ==
    ASSUME NEW A \in SUBSET Nicks, NEW B \in SUBSET Nicks
    PROVE  Flow(<<>>, A, B) <=> A = B
<1>a. Len(<<>>) = 0
    OBVIOUS
<1>1. ASSUME A = B PROVE Flow(<<>>, A, B)
    <2>. DEFINE L == [k \in 1..1 |-> A]
    <2>1. L \in [1..1 -> SUBSET Nicks] /\ L[1] = A /\ L[1] = B
        BY <1>1
    <2>. HIDE DEF L
    <2>2. L \in [1..(Len(<<>>) + 1) -> SUBSET Nicks] /\ L[Len(<<>>) + 1] = B
        BY <1>a, <2>1
    <2>3. \A k \in 1..Len(<<>>) : L[k + 1] = Effect(<<>>[k], L[k])
        BY <1>a
    <2>. QED BY <2>1, <2>2, <2>3 DEF Flow
<1>2. ASSUME Flow(<<>>, A, B) PROVE A = B
    BY <1>2, <1>a DEF Flow
<1>. QED BY <1>1, <1>2

\* The plug-in takes the first message.
LEMMA FlowHead ==
    ASSUME NEW q \in Seq(Message), q # <<>>,
           NEW A \in SUBSET Nicks, NEW B \in SUBSET Nicks, Flow(q, A, B)
    PROVE  Flow(Tail(q), Effect(Head(q), A), B)
<1>1. PICK L \in [1..(Len(q) + 1) -> SUBSET Nicks] :
        /\ L[1] = A /\ L[Len(q) + 1] = B
        /\ \A k \in 1..Len(q) : L[k + 1] = Effect(q[k], L[k])
    BY DEF Flow
<1>. DEFINE M == [k \in 1..Len(q) |-> L[k + 1]]
<1>2. /\ Len(q) \in Nat \ {0} /\ Len(Tail(q)) = Len(q) - 1 /\ Head(q) = q[1]
      /\ \A k \in 1..Len(Tail(q)) : Tail(q)[k] = q[k + 1]
    OBVIOUS
<1>3. M \in [1..(Len(Tail(q)) + 1) -> SUBSET Nicks]
    BY <1>1, <1>2
<1>4. M[1] = Effect(Head(q), A) /\ M[Len(Tail(q)) + 1] = B
    BY <1>1, <1>2
<1>5. ASSUME NEW k \in 1..Len(Tail(q))
      PROVE  M[k + 1] = Effect(Tail(q)[k], M[k])
    BY <1>1, <1>2
<1>. HIDE DEF M
<1>. QED BY <1>3, <1>4, <1>5 DEF Flow

\* The server sends one more.
LEMMA FlowAppend ==
    ASSUME NEW q \in Seq(Message), NEW m \in Message,
           NEW A \in SUBSET Nicks, NEW B \in SUBSET Nicks, Flow(q, A, B)
    PROVE  Flow(q \o <<m>>, A, Effect(m, B))
<1>1. PICK L \in [1..(Len(q) + 1) -> SUBSET Nicks] :
        /\ L[1] = A /\ L[Len(q) + 1] = B
        /\ \A k \in 1..Len(q) : L[k + 1] = Effect(q[k], L[k])
    BY DEF Flow
<1>. DEFINE r == q \o <<m>>
            M == [k \in 1..(Len(q) + 2) |-> IF k = Len(q) + 2 THEN Effect(m, B) ELSE L[k]]
<1>2. /\ Len(q) \in Nat /\ Len(r) = Len(q) + 1 /\ r[Len(q) + 1] = m
      /\ \A k \in 1..Len(q) : r[k] = q[k]
    OBVIOUS
<1>. HIDE DEF r
<1>3. Effect(m, B) \in SUBSET Nicks
    BY EffectType
<1>4. M \in [1..(Len(r) + 1) -> SUBSET Nicks]
    BY <1>1, <1>2, <1>3
<1>5. M[1] = A /\ M[Len(r) + 1] = Effect(m, B)
    BY <1>1, <1>2
<1>6. ASSUME NEW k \in 1..Len(r)
      PROVE  M[k + 1] = Effect(r[k], M[k])
    <2>1. CASE k = Len(q) + 1
        BY <1>1, <1>2, <2>1
    <2>2. CASE k \in 1..Len(q)
        BY <1>1, <1>2, <2>2
    <2>. QED BY <1>2, <2>1, <2>2
<1>. HIDE DEF M
<1>7. Flow(r, A, Effect(m, B))
    BY <1>4, <1>5, <1>6 DEF Flow
<1>. QED BY <1>7 DEF r

\* When nothing is heard of what happened, the old list still has to fit.
LEMMA HeardNothing ==
    ASSUME NEW A \in SUBSET Nicks, NEW B \in SUBSET Nicks, Agrees(A, B),
           Hears(Other)', UNCHANGED <<inbox, plugIn>>, Fits(B)'
    PROVE  ListInv'
BY DEF ListInv, Agrees, Listed, plugIn

\* When a message is, the list it leads to.
LEMMA HeardOne ==
    ASSUME TypeOK, NEW A \in SUBSET Nicks, NEW B \in SUBSET Nicks, Agrees(A, B),
           Hears(Other)', UNCHANGED plugIn, NEW m \in Message, inbox' = inbox \o <<m>>,
           Fits(Effect(m, B))'
    PROVE  ListInv'
<1>2. Flow(inbox', A, Effect(m, B)) /\ Effect(m, B) \in SUBSET Nicks
    BY FlowAppend, EffectType DEF Agrees, TypeOK
<1>3. Agrees(A, Effect(m, B))'
    BY <1>2 DEF Agrees, Listed, plugIn
<1>. QED BY <1>2, <1>3 DEF ListInv

\* What a message of each kind does to a list.
LEMMA Effects ==
    ASSUME NEW n \in Nicks, NEW B
    PROVE  /\ Effect(About("JOIN", n, Channel), B) = B \cup {n}
           /\ Effect(About("JOIN", n, Other), B) = B
           /\ \A place : Effect(About("PART", n, place), B) = B \ {n}
           /\ \A place : Effect(About("PRIVMSG", n, place), B) = B
           /\ Effect([type |-> "QUIT", nick |-> n], B) = B \ {n}
           /\ \A new : Effect([type |-> "NICK", nick |-> n, new |-> new], B) = Renamed(B, n, new)
BY ChannelLogAssumption DEF Effect, About

LEMMA JoinsKeeps ==
    ASSUME TypeOK, ListInv, NEW n \in Nicks, NEW place \in Places, Joins(n, place)
    PROVE  ListInv'
<1>1. PICK A \in SUBSET Nicks, B \in SUBSET Nicks : Agrees(A, B)
    BY DEF ListInv
<1>2. UNCHANGED <<plugIn, masked, strayed>> /\ n # BotNick
    BY DEF Joins, Event
<1>3. in' = [in EXCEPT ![place] = in[place] \cup {n}] /\ unseen' = unseen \ in'[Channel]
    BY DEF Joins, Left
<1>4. /\ Hears(Other)' /\ (Hears(Channel)' <=> Hears(Channel))
      /\ in'[Channel] = IF place = Channel THEN in[Channel] \cup {n} ELSE in[Channel]
    BY <1>2, <1>3, ChannelLogAssumption DEF ListInv, Hears, TypeOK, Places
<1>5. CASE Hears(place)
    <2>. DEFINE m == About("JOIN", n, place)
    <2>1. inbox' = inbox \o <<m>> /\ m \in Message
        BY <1>5, AboutIsMessage DEF Joins, Sends
    <2>2. Effect(m, B) = IF place = Channel THEN B \cup {n} ELSE B
        <3>1. CASE place = Channel
            BY <3>1, Effects
        <3>2. CASE place = Other
            BY <3>2, Effects, ChannelLogAssumption
        <3>. QED BY <3>1, <3>2 DEF Places
    <2>3. Fits(Effect(m, B))'
        BY <1>1, <1>2, <1>3, <1>4, <2>2 DEF Fits, Agrees
    <2>. HIDE DEF m
    <2>. QED BY <1>1, <1>2, <1>4, <2>1, <2>3, HeardOne
<1>6. CASE ~Hears(place)
    <2>1. inbox' = inbox /\ place = Channel
        BY <1>6 DEF Joins, ListInv, Places
    <2>2. Fits(B)'
        BY <1>1, <1>2, <1>3, <1>4, <1>6, <2>1 DEF Fits, Agrees
    <2>. QED BY <1>1, <1>2, <1>4, <2>1, <2>2, HeardNothing
<1>. QED BY <1>5, <1>6

LEMMA PartsKeeps ==
    ASSUME TypeOK, ListInv, NEW n \in Nicks, NEW place \in Places, Parts(n, place)
    PROVE  ListInv'
<1>1. PICK A \in SUBSET Nicks, B \in SUBSET Nicks : Agrees(A, B)
    BY DEF ListInv
<1>2. UNCHANGED plugIn /\ n \in in[place] /\ ~(n = BotNick /\ place = Other)
    BY DEF Parts, Event
<1>3. /\ in' = [in EXCEPT ![place] = in[place] \ {n}]
      /\ unseen' = (IF Hears(place) THEN unseen \ {n} ELSE unseen \cup {n}) \ in'[Channel]
      /\ masked' = masked \cap in'[Channel]
      /\ strayed' = (strayed \cup {n}) \cap in'[Channel]
    BY DEF Parts, Left
<1>4. /\ Hears(Other)' /\ (Hears(Channel)' => Hears(Channel))
      /\ in'[Channel] = IF place = Channel THEN in[Channel] \ {n} ELSE in[Channel]
    BY <1>2, <1>3, ChannelLogAssumption DEF ListInv, Hears, TypeOK, Places
<1>5. CASE Hears(place)
    <2>. DEFINE m == About("PART", n, place)
    <2>1. inbox' = inbox \o <<m>> /\ m \in Message
        BY <1>5, AboutIsMessage DEF Parts, Sends
    <2>2. Effect(m, B) = B \ {n}
        BY Effects
    <2>3. Fits(Effect(m, B))'
        BY <1>1, <1>3, <1>4, <1>5, <2>2 DEF Fits, Agrees
    <2>. HIDE DEF m
    <2>. QED BY <1>1, <1>2, <1>4, <2>1, <2>3, HeardOne
<1>6. CASE ~Hears(place)
    <2>1. inbox' = inbox /\ place = Channel
        BY <1>6 DEF Parts, ListInv, Places
    <2>2. Fits(B)'
        BY <1>1, <1>3, <1>4, <1>6, <2>1 DEF Fits, Agrees
    <2>. QED BY <1>1, <1>2, <1>4, <2>1, <2>2, HeardNothing
<1>. QED BY <1>5, <1>6

LEMMA IsKickedKeeps ==
    ASSUME TypeOK, ListInv, NEW n \in Nicks, IsKicked(n)
    PROVE  ListInv'
<1>1. PICK A \in SUBSET Nicks, B \in SUBSET Nicks : Agrees(A, B)
    BY DEF ListInv
<1>2. /\ UNCHANGED <<plugIn, inbox>>
      /\ in' = [in EXCEPT ![Channel] = in[Channel] \ {n}]
      /\ unseen' = (unseen \cup {n}) \ in'[Channel]
      /\ masked' = masked \ {n} /\ strayed' = strayed \ {n}
    BY DEF IsKicked, Event, Left
<1>3. in'[Channel] = in[Channel] \ {n} /\ in'[Other] = in[Other]
    BY <1>2, ChannelLogAssumption DEF TypeOK, Places
<1>4. Hears(Other)' /\ (Hears(Channel)' => Hears(Channel))
    BY <1>3 DEF ListInv, Hears
<1>5. Fits(B)'
    BY <1>1, <1>2, <1>3, <1>4 DEF Fits, Agrees
<1>. QED BY <1>1, <1>2, <1>4, <1>5, HeardNothing

LEMMA QuitsKeeps ==
    ASSUME TypeOK, ListInv, NEW n \in Nicks, Quits(n)
    PROVE  ListInv'
<1>1. PICK A \in SUBSET Nicks, B \in SUBSET Nicks : Agrees(A, B)
    BY DEF ListInv
<1>2. /\ UNCHANGED plugIn /\ n # BotNick
      /\ in' = [place \in Places |-> in[place] \ {n}]
      /\ unseen' = (IF Sees(n) THEN unseen \ {n} ELSE unseen \cup {n}) \ in'[Channel]
      /\ masked' = masked \ {n} /\ strayed' = strayed \ {n}
    BY DEF Quits, Event, Left
<1>3. in'[Channel] = in[Channel] \ {n} /\ in'[Other] = in[Other] \ {n}
    BY <1>2 DEF Places
<1>4. Hears(Other)' /\ (Hears(Channel)' <=> Hears(Channel))
    BY <1>2, <1>3 DEF ListInv, Hears
<1>5. CASE Sees(n)
    <2>. DEFINE m == [type |-> "QUIT", nick |-> n]
    <2>1. inbox' = inbox \o <<m>> /\ m \in Message
        BY <1>5 DEF Quits, Sends, Message
    <2>2. Effect(m, B) = B \ {n}
        BY Effects
    <2>3. Fits(Effect(m, B))'
        BY <1>1, <1>2, <1>3, <1>4, <1>5, <2>2 DEF Fits, Agrees
    <2>. HIDE DEF m
    <2>. QED BY <1>1, <1>2, <1>4, <2>1, <2>3, HeardOne
<1>6. CASE ~Sees(n)
    <2>1. inbox' = inbox
        BY <1>6 DEF Quits
    <2>2. Fits(B)'
        BY <1>1, <1>2, <1>3, <1>4, <1>6 DEF Fits, Agrees
    <2>. QED BY <1>1, <1>2, <1>4, <2>1, <2>2, HeardNothing
<1>. QED BY <1>5, <1>6

LEMMA RenamesKeeps ==
    ASSUME TypeOK, ListInv, NEW n \in Nicks, NEW new \in Nicks, Renames(n, new)
    PROVE  ListInv'
<1>1. PICK A \in SUBSET Nicks, B \in SUBSET Nicks : Agrees(A, B)
    BY DEF ListInv
<1>2. /\ UNCHANGED plugIn /\ n # BotNick
      /\ new \notin in[Channel] /\ new \notin in[Other]
      /\ in' = [place \in Places |-> Renamed(in[place], n, new)]
      /\ unseen' = (IF Sees(n) THEN Renamed(unseen, n, new) ELSE unseen \cup {n}) \ in'[Channel]
      /\ masked' = Renamed(masked, n, new) /\ strayed' = Renamed(strayed, n, new)
    BY DEF Renames, Event, Left, Places
<1>3. /\ in'[Channel] = Renamed(in[Channel], n, new) /\ in'[Other] = Renamed(in[Other], n, new)
      /\ n # new
    BY <1>2 DEF Places, Renames
<1>4. new # BotNick
    BY <1>2 DEF ListInv, Hears
<1>5. Hears(Other)' /\ (Hears(Channel)' <=> Hears(Channel))
    BY <1>2, <1>3, <1>4 DEF ListInv, Hears, Renamed
<1>6. CASE Sees(n)
    <2>. DEFINE m == [type |-> "NICK", nick |-> n, new |-> new]
    <2>1. inbox' = inbox \o <<m>> /\ m \in Message
        BY <1>6 DEF Renames, Sends, Message
    <2>2. Effect(m, B) = Renamed(B, n, new)
        BY DEF Effect
    <2>3. Renamed(B, n, new) \subseteq in'[Channel] \cup unseen'
        BY <1>1, <1>2, <1>3, <1>6 DEF Fits, Agrees, Renamed
    <2>4. Hears(Channel)' => in'[Channel] \ (masked' \cup strayed') \subseteq Renamed(B, n, new)
        <3>. SUFFICES ASSUME Hears(Channel)', NEW x \in in'[Channel],
                             x \notin masked', x \notin strayed'
                      PROVE  x \in Renamed(B, n, new)
            OBVIOUS
        <3>1. in[Channel] \ (masked \cup strayed) \subseteq B
            BY <1>1, <1>5 DEF Fits, Agrees
        <3>2. CASE x = new
            <4>1. n \in in[Channel]
                BY <1>2, <1>3, <3>2 DEF Renamed
            <4>2. n \notin masked /\ n \notin strayed
                BY <1>2, <3>2 DEF Renamed
            <4>. QED BY <3>1, <3>2, <4>1, <4>2 DEF Renamed
        <3>3. CASE x # new
            <4>1. x \in in[Channel] /\ x # n
                BY <1>2, <1>3, <3>3 DEF Renamed
            <4>2. x \notin masked /\ x \notin strayed
                BY <1>2, <4>1 DEF Renamed
            <4>. QED BY <3>1, <4>1, <4>2 DEF Renamed
        <3>. QED BY <3>2, <3>3
    <2>5. Fits(Effect(m, B))'
        BY <2>2, <2>3, <2>4 DEF Fits
    <2>. HIDE DEF m
    <2>. QED BY <1>1, <1>2, <1>5, <2>1, <2>5, HeardOne
<1>7. CASE ~Sees(n)
    <2>1. inbox' = inbox
        BY <1>7 DEF Renames
    <2>2. Hears(Channel) => n \notin in[Channel]
        BY <1>7 DEF Sees, Places
    <2>3. B \subseteq in'[Channel] \cup unseen'
        <3>1. in[Channel] \ {n} \subseteq in'[Channel]
            BY <1>3 DEF Renamed
        <3>2. unseen' = (unseen \cup {n}) \ in'[Channel]
            BY <1>2, <1>7
        <3>3. B \subseteq in[Channel] \cup unseen
            BY <1>1 DEF Fits, Agrees
        <3>. QED BY <3>1, <3>2, <3>3
    <2>4. Hears(Channel)' => in'[Channel] \ (masked' \cup strayed') \subseteq B
        <3>1. Hears(Channel)' => in'[Channel] = in[Channel]
            BY <1>3, <1>5, <2>2 DEF Renamed
        <3>2. in[Channel] \ {n} \subseteq in[Channel] /\ masked \ {n} \subseteq masked' /\ strayed \ {n} \subseteq strayed'
            BY <1>2 DEF Renamed
        <3>. QED BY <1>1, <1>5, <2>2, <3>1, <3>2 DEF Fits, Agrees
    <2>5. Fits(B)'
        BY <2>3, <2>4 DEF Fits
    <2>. QED BY <1>1, <1>2, <1>5, <2>1, <2>5, HeardNothing
<1>. QED BY <1>6, <1>7

LEMMA SaysKeeps ==
    ASSUME TypeOK, ListInv, NEW n \in Nicks, NEW place \in Places, Says(n, place)
    PROVE  ListInv'
<1>1. PICK A \in SUBSET Nicks, B \in SUBSET Nicks : Agrees(A, B)
    BY DEF ListInv
<1>. DEFINE m == About("PRIVMSG", n, place)
<1>2. UNCHANGED <<plugIn, in, unseen, masked, strayed>> /\ inbox' = inbox \o <<m>> /\ m \in Message
    BY AboutIsMessage DEF Says, Event, Sends
<1>3. Effect(m, B) = B
    BY Effects
<1>. HIDE DEF m
<1>4. Fits(Effect(m, B))' /\ Hears(Other)'
    BY <1>1, <1>2, <1>3 DEF Fits, Agrees, Hears, ListInv
<1>. QED BY <1>1, <1>2, <1>4, HeardOne

\* A list of names gives the bare ones to the list.
LEMMA NamesEffect ==
    ASSUME NEW S \in SUBSET Nicks, NEW marked, NEW B \in SUBSET Nicks, NEW users,
           users = {Bare(n) : n \in S \ marked} \cup {Marked(n) : n \in S \cap marked}
    PROVE  /\ [type |-> "NAMES", users |-> users] \in Message
           /\ Effect([type |-> "NAMES", users |-> users], B) = B \cup (S \ marked)
<1>1. \A n \in Nicks : Bare(n) \in Users /\ Marked(n) \in Users
    BY DEF Bare, Marked, Users
<1>2. \A n, k : Bare(n) = Bare(k) => n = k
    BY DEF Bare
<1>3. \A n, k : Bare(n) # Marked(k)
    BY DEF Bare, Marked
<1>4. users \in SUBSET Users
    BY <1>1
<1>5. {n \in Nicks : Bare(n) \in users} = S \ marked
    BY <1>2, <1>3
<1>6. [type |-> "NAMES", users |-> users] \in Message
    BY <1>4 DEF Message
<1>7. Effect([type |-> "NAMES", users |-> users], B) = B \cup {n \in Nicks : Bare(n) \in users}
    BY DEF Effect
<1>. QED BY <1>5, <1>6, <1>7

LEMMA BotJoinsKeeps ==
    ASSUME TypeOK, ListInv, BotJoins
    PROVE  ListInv'
<1>1. PICK A \in SUBSET Nicks, B \in SUBSET Nicks : Agrees(A, B)
    BY DEF ListInv
<1>2. PICK marked \in SUBSET in'[Channel], split \in BOOLEAN :
        LET Words(s) == {Bare(n) : n \in s \ marked} \cup {Marked(n) : n \in s \cap marked}
            Names(s) == [type |-> "NAMES", users |-> Words(s)]
        IN /\ Sends(<<About("JOIN", BotNick, Channel)>> \o
                    IF split THEN <<Names({BotNick}), Names(in[Channel])>>
                             ELSE <<Names(in'[Channel])>>)
           /\ masked' = marked \ {BotNick}
    BY DEF BotJoins
<1>3. /\ UNCHANGED plugIn /\ strayed' = {} /\ unseen' = unseen \ in'[Channel]
      /\ in'[Channel] = in[Channel] \cup {BotNick} /\ in'[Other] = in[Other]
    BY ChannelLogAssumption DEF BotJoins, Event, Left, TypeOK, Places
<1>4. in[Channel] \in SUBSET Nicks /\ in'[Channel] \in SUBSET Nicks /\ {BotNick} \in SUBSET Nicks
    BY <1>3, ChannelLogAssumption DEF TypeOK, Places
<1>. DEFINE Words(s) == {Bare(n) : n \in s \ marked} \cup {Marked(n) : n \in s \cap marked}
            Names(s) == [type |-> "NAMES", users |-> Words(s)]
            a == About("JOIN", BotNick, Channel)
            b == Names({BotNick})
            c == Names(in[Channel])
            d == Names(in'[Channel])
<1>5. /\ masked' = marked \ {BotNick}
      /\ inbox' = inbox \o (<<a>> \o <<b, c>>) \/ inbox' = inbox \o (<<a>> \o <<d>>)
    BY <1>2 DEF Sends
<1>6. a \in Message /\ \A L : Effect(a, L) = L \cup {BotNick}
    BY AboutIsMessage, Effects, ChannelLogAssumption DEF Places
<1>7. \A S \in SUBSET Nicks, L \in SUBSET Nicks :
        Names(S) \in Message /\ Effect(Names(S), L) = L \cup (S \ marked)
    BY NamesEffect
<1>8. /\ b \in Message /\ \A L \in SUBSET Nicks : Effect(b, L) = L \cup ({BotNick} \ marked)
      /\ c \in Message /\ \A L \in SUBSET Nicks : Effect(c, L) = L \cup (in[Channel] \ marked)
      /\ d \in Message /\ \A L \in SUBSET Nicks : Effect(d, L) = L \cup (in'[Channel] \ marked)
    BY <1>4, <1>7
<1>. HIDE DEF a, b, c, d
<1>9. inbox \in Seq(Message) /\ inbox \o <<a>> \in Seq(Message)
    BY <1>6 DEF TypeOK
<1>10. B \cup {BotNick} \in SUBSET Nicks /\ Flow(inbox \o <<a>>, A, B \cup {BotNick})
    <2>1. Flow(inbox \o <<a>>, A, Effect(a, B))
        BY <1>1, <1>6, <1>9, FlowAppend DEF Agrees
    <2>. QED BY <1>4, <1>6, <2>1
<1>11. PICK C \in SUBSET Nicks : C = B \cup {BotNick} \cup (in'[Channel] \ marked)
    BY <1>4
<1>12. Flow(inbox', A, C)
    <2>1. CASE inbox' = inbox \o (<<a>> \o <<d>>)
        <3>1. inbox' = (inbox \o <<a>>) \o <<d>>
            BY <1>6, <1>8, <1>9, <2>1
        <3>2. Effect(d, B \cup {BotNick}) = C
            BY <1>8, <1>10, <1>11
        <3>. QED BY <1>8, <1>9, <1>10, <3>1, <3>2, FlowAppend
    <2>2. CASE inbox' = inbox \o (<<a>> \o <<b, c>>)
        <3>. DEFINE r == inbox \o <<a>>
        <3>1. inbox' = (r \o <<b>>) \o <<c>> /\ r \o <<b>> \in Seq(Message)
            <4>1. /\ <<a>> \in Seq(Message) /\ <<b>> \in Seq(Message) /\ <<c>> \in Seq(Message)
                  /\ <<b, c>> \in Seq(Message)
                BY <1>6, <1>8
            <4>b. <<b, c>> = <<b>> \o <<c>>
                <5>1. Len(<<b, c>>) = 2 /\ <<b, c>>[1] = b /\ <<b, c>>[2] = c
                    OBVIOUS
                <5>2. /\ <<b>> \o <<c>> \in Seq(Message) /\ Len(<<b>> \o <<c>>) = 2
                      /\ (<<b>> \o <<c>>)[1] = b /\ (<<b>> \o <<c>>)[2] = c
                    BY <4>1, ConcatProperties
                <5>3. PICK s \in Seq(Message), t \in Seq(Message) :
                        s = <<b, c>> /\ t = <<b>> \o <<c>>
                    BY <4>1, <5>2
                <5>4. Len(s) = 2 /\ Len(t) = 2 /\ s[1] = t[1] /\ s[2] = t[2]
                    BY <5>1, <5>2, <5>3
                <5>5. s = t
                    BY <5>4, SeqEqual
                <5>. QED BY <5>3, <5>5
            <4>2. inbox' = r \o <<b, c>>
                BY <1>9, <2>2, <4>1, <4>b, ConcatAssociative
            <4>. HIDE DEF r
            <4>3. r \in Seq(Message)
                BY <1>9 DEF r
            <4>. QED BY <4>1, <4>b, <4>2, <4>3, ConcatAssociative
        <3>2. PICK D \in SUBSET Nicks : D = B \cup {BotNick} \cup ({BotNick} \ marked)
            BY <1>10
        <3>3. Effect(b, B \cup {BotNick}) = D /\ Effect(c, D) = C
            BY <1>3, <1>8, <1>10, <1>11, <3>2
        <3>4. Flow(r \o <<b>>, A, D)
            BY <1>8, <1>9, <1>10, <3>3, FlowAppend
        <3>. HIDE DEF r
        <3>. QED BY <1>8, <3>1, <3>2, <3>3, <3>4, FlowAppend
    <2>. QED BY <1>5, <2>1, <2>2
<1>13. Hears(Other)'
    BY <1>3 DEF ListInv, Hears
<1>14. Fits(C)'
    <2>1. B \subseteq in[Channel] \cup unseen
        BY <1>1 DEF Fits, Agrees
    <2>2. C \subseteq in'[Channel] \cup unseen'
        BY <1>3, <1>11, <2>1
    <2>3. in'[Channel] \ (masked' \cup strayed') \subseteq C
        BY <1>3, <1>5, <1>11
    <2>. QED BY <2>2, <2>3 DEF Fits
<1>15. Agrees(A, C)'
    BY <1>1, <1>3, <1>12, <1>14 DEF Agrees, Listed, plugIn
<1>. QED BY <1>13, <1>15 DEF ListInv

\* A handler does to the list what its message does, or less when it is a list of names
\* whose row failed.
LEMMA HandleLists ==
    ASSUME TypeOK, NEW m \in Message, Handle(m), NEW A \in SUBSET Nicks, Listed \subseteq A,
           "NAMES" \notin failed => A = Listed
    PROVE  /\ Listed' \subseteq Effect(m, A)
           /\ "NAMES" \notin failed' => Effect(m, A) = Listed'
<1>1. \A n, k : Bare(n) = Bare(k) => n = k
    BY DEF Bare
<1>2. CASE LogNames(m)
    <2>1. Effect(m, A) = A \cup {n \in Nicks : Bare(n) \in m.users}
        BY <1>2 DEF LogNames, Effect
    <2>2. \/ channelUsers' = channelUsers \cup m.users /\ failed' = failed
          \/ channelUsers' = channelUsers /\ "NAMES" \in failed'
        BY <1>2 DEF LogNames
    <2>. QED BY <2>1, <2>2 DEF Listed
<1>3. CASE LogNick(m)
    <2>1. Effect(m, A) = Renamed(A, m.nick, m.new) /\ m.nick \in Nicks /\ m.new \in Nicks
        BY <1>3, MessageParts DEF LogNick, Effect
    <2>2. /\ Listed' = Renamed(Listed, m.nick, m.new)
          /\ "NAMES" \notin failed' => "NAMES" \notin failed
        <3>1. CASE Bare(m.nick) \in channelUsers
            <4>1. channelUsers' = (channelUsers \ {Bare(m.nick)}) \cup {Bare(m.new)}
                BY <1>3, <3>1 DEF LogNick
            <4>2. "NAMES" \notin failed' => "NAMES" \notin failed
                BY <1>3, <3>1 DEF LogNick, Write
            <4>. QED BY <1>1, <2>1, <3>1, <4>1, <4>2 DEF Listed, Renamed
        <3>2. CASE Bare(m.nick) \notin channelUsers
            BY <1>3, <2>1, <3>2 DEF LogNick, plugIn, Listed, Renamed
        <3>. QED BY <3>1, <3>2
    <2>. QED BY <2>1, <2>2 DEF Renamed
<1>4. CASE LogQuit(m) \/ LogPart(m)
    <2>1. Effect(m, A) = A \ {m.nick} /\ m.nick \in Nicks
        BY <1>4, MessageParts DEF LogQuit, LogPart, Effect
    <2>2. channelUsers' = channelUsers \ {Bare(m.nick)}
        BY <1>4 DEF LogQuit, LogPart, plugIn
    <2>3. "NAMES" \notin failed' => "NAMES" \notin failed
        BY <1>4 DEF LogQuit, LogPart, Write, plugIn
    <2>. QED BY <1>1, <2>1, <2>2, <2>3 DEF Listed
<1>5. CASE LogJoin(m)
    <2>1. m.nick \in Nicks
        BY <1>5, MessageParts DEF LogJoin
    <2>2. CASE m.place = Channel
        <3>1. Effect(m, A) = A \cup {m.nick} /\ channelUsers' = channelUsers \cup {Bare(m.nick)}
            BY <1>5, <2>2 DEF LogJoin, Effect
        <3>2. "NAMES" \notin failed' => "NAMES" \notin failed
            BY <1>5, <2>2 DEF LogJoin, Write
        <3>. QED BY <1>1, <2>1, <3>1, <3>2 DEF Listed
    <2>3. CASE m.place # Channel
        BY <1>5, <2>3 DEF LogJoin, Effect, plugIn, Listed
    <2>. QED BY <2>2, <2>3
<1>6. CASE LogPrivMsg(m)
    <2>1. Effect(m, A) = A /\ channelUsers' = channelUsers
        BY <1>6 DEF LogPrivMsg, Effect
    <2>2. "NAMES" \notin failed' => "NAMES" \notin failed
        BY <1>6 DEF LogPrivMsg, Write
    <2>. QED BY <2>1, <2>2 DEF Listed
<1>. QED BY <1>2, <1>3, <1>4, <1>5, <1>6 DEF Handle

LEMMA OnPacketKeeps ==
    ASSUME TypeOK, ListInv, OnPacket
    PROVE  ListInv'
<1>1. PICK A \in SUBSET Nicks, B \in SUBSET Nicks : Agrees(A, B)
    BY DEF ListInv
<1>2. /\ inbox # <<>> /\ inbox \in Seq(Message) /\ inbox' = Tail(inbox) /\ UNCHANGED server
      /\ Head(inbox) \in Message /\ Handle(Head(inbox))
    BY DEF OnPacket, TypeOK, Handle
<1>3. Flow(inbox', Effect(Head(inbox), A), B) /\ Effect(Head(inbox), A) \in SUBSET Nicks
    BY <1>1, <1>2, FlowHead, EffectType DEF Agrees
<1>4. /\ Listed' \subseteq Effect(Head(inbox), A)
      /\ "NAMES" \notin failed' => Effect(Head(inbox), A) = Listed'
    BY <1>1, <1>2, HandleLists DEF Agrees
<1>5. Fits(B)' /\ Hears(Other)'
    BY <1>1, <1>2 DEF server, Fits, Agrees, Hears, ListInv
<1>. DEFINE E == Effect(Head(inbox), A)
<1>6. \E X \in SUBSET Nicks : X = E
    BY <1>3
<1>7. PICK X \in SUBSET Nicks : X = E
    BY <1>6
<1>8. Agrees(X, B)'
    BY <1>3, <1>4, <1>5, <1>7 DEF Agrees
<1>. QED BY <1>5, <1>8 DEF ListInv

LEMMA ListInvariance == Spec => []ListInv
<1>1. TypeOK /\ Init => ListInv
    <2>. SUFFICES ASSUME TypeOK, Init PROVE ListInv
        OBVIOUS
    <2>1. Flow(inbox, {}, {}) /\ Listed = {} /\ Fits({}) /\ Hears(Other)
        BY FlowNil DEF Init, Listed, Fits, Hears, Memberships
    <2>. QED BY <2>1 DEF ListInv, Agrees
<1>2. TypeOK /\ ListInv /\ [Next]_vars => ListInv'
    <2>. SUFFICES ASSUME TypeOK, ListInv, [Next]_vars PROVE ListInv'
        OBVIOUS
    <2>1. CASE OnDisconnect
        <3>1. /\ inbox' = <<>> /\ channelUsers' = {} /\ unseen' = {} /\ failed' = {}
              /\ BotNick \notin in'[Channel] /\ BotNick \in in'[Other]
            BY <2>1 DEF OnDisconnect, Reset, Memberships
        <3>2. Flow(inbox', {}, {}) /\ Listed' = {} /\ Fits({})' /\ Hears(Other)'
            BY <3>1, FlowNil DEF Listed, Fits, Hears
        <3>3. Agrees({}, {})'
            BY <3>1, <3>2 DEF Agrees
        <3>. QED BY <3>2, <3>3 DEF ListInv
    <2>2. CASE UNCHANGED vars
        BY <2>2 DEF vars, server, plugIn, ListInv, Agrees, Fits, Listed, Hears
    <2>. QED
        BY <2>1, <2>2, OnPacketKeeps, BotJoinsKeeps, JoinsKeeps, PartsKeeps, SaysKeeps,
           IsKickedKeeps, QuitsKeeps, RenamesKeeps DEF Next
<1>. QED BY <1>1, <1>2, TypeCorrect, PTL DEF Spec

\* Whoever is listed by the bare name is in the channel when nothing is on its way, for
\* any number of users and events and whichever rows fail, but for the departures the
\* plug-in is not told of.
THEOREM ListIsOfThoseHere == Spec => []ListedAreHere
<1>1. ListInv => ListedAreHere
    BY FlowNil DEF ListInv, Agrees, Fits, Listed, ListedAreHere
<1>. QED BY <1>1, ListInvariance, PTL

\* Whoever is in the channel with the bot is listed, but for the names that had a mark,
\* those who have left another channel, and the names of a list that was skipped.
THEOREM ThoseHereAreListed == Spec => []MembersAreListed
<1>1. TypeOK /\ ListInv => MembersAreListed
    BY FlowNil DEF TypeOK, Places, ListInv, Agrees, Fits, Listed, MembersAreListed
<1>. QED BY <1>1, TypeCorrect, ListInvariance, PTL
=============================================================================
