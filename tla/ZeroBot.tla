------------------------------- MODULE ZeroBot -------------------------------
(***************************************************************************)
(* The single thread of the bot: ZeroBot::run() and everything it calls,   *)
(* with all plug-ins main() can register, against one IRC server reached   *)
(* over a TCP connection.                                                  *)
(*                                                                         *)
(* A step of the bot is one call of a plug-in's handler, one message of    *)
(* the handler's result put on the socket, the rest of processResult(),    *)
(* one recv(), or one iteration of a loop of ZeroBot.  Between any two of  *)
(* them the server may write to the connection or lose it.                 *)
(*                                                                         *)
(* Two clocks are left out: PlugInPingPong's (PingPong.tla has it), whose  *)
(* decisions are arbitrary here, and the 0.5 s of sleep().                 *)
(*                                                                         *)
(* An operator whose name ends in Mutant is the definition after it with a *)
(* slip in it; no specification uses it.  Each shows that a property below *)
(* notices such a slip.                                                    *)
(***************************************************************************)
EXTENDS Integers, Sequences, FiniteSets

CONSTANTS
    Nicks,                 \* nicknames
    NoNick,                \* the empty nickname
    BotNick,               \* --nick
    AdminNick,             \* --admin, NoNick when it is not given
    Channels,              \* channel names
    NoChannel,             \* "not about a channel"
    Messages,              \* the messages this server may send
    JoinArgs,              \* the --join channels, in command-line order
    LogArgs,               \* the --log channels, in command-line order
    Title,                 \* --title
    Identify,              \* --identify
    Reconnect,             \* --reconnect
    DisconnectPriorities,  \* what PlugInDisconnect's priority may turn out as
    MaxLines,              \* bound: lines the server starts, in total
    MaxConnections         \* bound: sockets that are ever opened

-----------------------------------------------------------------------------
(* Data.                                                                   *)

States == {"CONNECTING", "CONNECTED", "DISCONNECTING", "DISCONNECTED"}

Kinds == {"connect", "disconnect", "pingpong", "join", "log", "urltitle",
          "admin", "nickserv", "reconnect"}

\* What a plug-in remembers between calls: its state enumeration, and for the
\* admin plug-in the bot's own nickname.
Memories == {"NOP", "SENT", "JOINED", "IDENTIFIED"} \cup Nicks \cup {NoNick}

PlugIn == [kind : Kinds, priority : Int, channel : Channels \cup {NoChannel},
           memory : Memories]

\* Commands the bot sends.
Commands == {"NICK", "USER", "JOIN", "PART", "PRIVMSG", "PING", "PONG", "QUIT"}

\* Messages the bot receives: the numeric replies by what the plug-ins make of
\* them (NICKERROR: 431, 432, 433, 436, 462; CHANNELREPLY: 331, 332, 353, 366),
\* MEMBERSHIP for another user's JOIN, PART or QUIT, OTHER for a line that
\* Parser::parseMessage() rejects.
MessageTypes == {"ENDOFMOTD", "NICKERROR", "CHANNELREPLY", "PING", "PONG",
                 "NICK", "PRIVMSG", "MEMBERSHIP", "OTHER"}

\* nick: the new nickname of a NICK, the nickname a PRIVMSG's text begins with
\* ("zerobot: !quit"); channel: the channel of a reply or the receiver of a
\* PRIVMSG; command, arguments: the words of a PRIVMSG's text.
Message == [type : MessageTypes, from : Nicks \cup {NoNick},
            nick : Nicks \cup {NoNick}, channel : Channels \cup {NoChannel},
            command : {"quit", "join", "leave", "version", "url", "none"},
            arguments : Seq(Channels)]

\* A line the parser rejects, as two lines run together may be.
Unparsable == [type |-> "OTHER", from |-> NoNick, nick |-> NoNick,
               channel |-> NoChannel, command |-> "none", arguments |-> <<>>]

\* What a plug-in's handler returns (class PlugInResult): whether it is not NULL,
\* messages to send, the bot state to set, channels to register and to unregister
\* a PlugInJoin for.
Result == [given : BOOLEAN, messages : Seq(Commands), newState : States \cup {"NOP"},
           register : Seq(Channels), unregister : Seq(Channels)]

NoResult == [given |-> FALSE, messages |-> <<>>, newState |-> "NOP",
             register |-> <<>>, unregister |-> <<>>]

PlugInResult == [given |-> TRUE, messages |-> <<>>, newState |-> "NOP",
                 register |-> <<>>, unregister |-> <<>>]

\* The end() of an iteration over the plug-ins; plug-ins have ids from 1.
End == 0

\* What the server makes of the commands a socket has carried, as a client
\* has to register with NICK and USER before, and says nothing after, QUIT.
Sessions == {"opened", "nick", "registered", "quit", "early", "afterQuit"}

ASSUME ConstantsAssumption ==
    /\ BotNick \in Nicks /\ AdminNick \in Nicks \cup {NoNick}
    /\ NoNick \notin Nicks /\ NoChannel \notin Channels
    /\ Messages \subseteq Message
    /\ JoinArgs \in Seq(Channels) /\ LogArgs \in Seq(Channels)
    /\ {Title, Identify, Reconnect} \subseteq BOOLEAN
    /\ DisconnectPriorities \subseteq Int
    /\ MaxLines \in Nat /\ MaxConnections \in Nat \ {0}

-----------------------------------------------------------------------------
VARIABLES
    state,      \* ZeroBot::state
    plugIns,    \* ZeroBot::plugIns, a function from the ids of the live ones
    nextId,     \* the id of the next plug-in to be registered
    pc,         \* where run() is, see Phases
    it,         \* the iterator of the loop over the plug-ins
    result,     \* what processResult() still has to do, NoResult for nothing
    message,    \* what processMessage() works on: {}, or the one message
    lines,      \* ZeroBot::buffer: the complete lines
    partial,    \*   and the messages its unfinished line may be read as
    wire,       \* what the server wrote and the bot has not received
    link,       \* "up", or "closed" by the server or the network
    cut,        \* {}, or the message the server has written only the head of
    served,     \* lines the server has started to write
    welcomed,   \* history: the server sent ENDOFMOTD on this socket
    conn,       \* history: sockets opened so far
    session,    \* history: what the server has heard on this socket
    leftover,   \* history: this socket began with an unfinished line buffered
    eof         \* history: receive() has failed on this socket

bot == <<state, plugIns, nextId, pc, it, result>>
stream == <<lines, partial, message>>
server == <<wire, link, cut, served, welcomed>>
history == <<conn, session, leftover, eof>>
vars == <<bot, stream, server, history>>

\* Loops over the plug-ins, and the two that run from the last to the first.
Passes == {"onConnect", "onPacket", "onTimeTrigger",
           "onDisconnecting", "onDisconnected"}

ReversePasses == {"onDisconnecting", "onDisconnected"}

\* exit: run() returned; uncaught: an exception left run(); killed: SIGPIPE.
Final == {"exit", "uncaught", "killed"}

Phases == Passes \cup Final
            \cup {"receiveMessage", "processMessage", "sleep", "recreateSocket"}

Pieces == [part : {"whole", "head", "tail"}, message : Message]

BotType ==
    /\ state \in States
    /\ nextId \in Nat \ {0}
    /\ plugIns \in [DOMAIN plugIns -> PlugIn]
    /\ DOMAIN plugIns \subseteq 1..(nextId - 1)
    /\ pc \in Phases
    /\ it \in DOMAIN plugIns \cup {End}
    /\ result \in Result

StreamType ==
    /\ lines \in Seq(Message)
    /\ partial \subseteq Message
    /\ message \subseteq Message

ServerType ==
    /\ wire \in Seq(Pieces)
    /\ link \in {"up", "closed"}
    /\ cut \subseteq Message
    /\ served \in Nat
    /\ welcomed \in BOOLEAN

HistoryType ==
    /\ conn \in Nat
    /\ session \in Sessions
    /\ leftover \in BOOLEAN
    /\ eof \in BOOLEAN

TypeOK == BotType /\ StreamType /\ ServerType /\ HistoryType

isConnected == state # "DISCONNECTED"

-----------------------------------------------------------------------------
(* The container of the plug-ins, a multimap from priority to plug-in:      *)
(* ascending priorities, equal ones in the order they were inserted.        *)

Before(P, i, j) == \/ P[i].priority < P[j].priority
                   \/ P[i].priority = P[j].priority /\ i < j

\* The plug-ins of S that a loop in the direction of the pass meets first.
Foremost(P, pass, S) ==
    IF S = {} THEN {End}
    ELSE {i \in S : \A j \in S \ {i} : IF pass \in ReversePasses
                                       THEN Before(P, j, i) ELSE Before(P, i, j)}

\* Where the iterator of the current pass goes after it++, in plug-ins P.
Following(P) ==
    Foremost(P, pc, {j \in DOMAIN P \ {it} : IF pc \in ReversePasses
                                             THEN Before(P, j, it) ELSE Before(P, it, j)})

Goto(phase) ==
    /\ pc' = phase
    /\ it' \in IF phase \in Passes THEN Foremost(plugIns, phase, DOMAIN plugIns)
                                   ELSE {End}

NewPlugIn(kind, priority, channel, memory) ==
    [kind |-> kind, priority |-> priority, channel |-> channel, memory |-> memory]

PlugInJoin(channel) == NewPlugIn("join", -5, channel, "NOP")

\* ZeroBot::registerPlugIn() for a new PlugInJoin per channel.
registerPlugIns(P, channels) ==
    [i \in DOMAIN P \cup nextId..(nextId + Len(channels) - 1) |->
        IF i \in DOMAIN P THEN P[i] ELSE PlugInJoin(channels[i - nextId + 1])]

\* ZeroBot::unregisterPlugIn() for the name of each channel's PlugInJoin: every
\* mention of a channel takes away the first of those that are left.
unregisterPlugIns(P, channels) ==
    LET Rank(i) == {j \in DOMAIN P : P[j].kind = "join" /\ P[j].channel = P[i].channel
                                       /\ (j = i \/ Before(P, j, i))}
        Mentions(c) == {n \in DOMAIN channels : channels[n] = c}
        gone == {i \in DOMAIN P : /\ P[i].kind = "join"
                                  /\ Cardinality(Rank(i)) <= Cardinality(Mentions(P[i].channel))}
    IN  [i \in DOMAIN P \ gone |-> P[i]]

\* main(): the plug-ins, in the order they are registered.
Startup(disconnectPriority) ==
    LET When(wanted, plugIn) == IF wanted THEN <<plugIn>> ELSE <<>>
        joins == JoinArgs \o LogArgs
    IN  << NewPlugIn("connect", -10, NoChannel, "NOP"),
           NewPlugIn("disconnect", disconnectPriority, NoChannel, "NOP"),
           NewPlugIn("pingpong", 0, NoChannel, "NOP") >>
        \o [n \in DOMAIN joins |-> PlugInJoin(joins[n])]
        \o [n \in DOMAIN LogArgs |-> NewPlugIn("log", 0, LogArgs[n], "NOP")]
        \o When(Title, NewPlugIn("urltitle", 5, NoChannel, "NOP"))
        \o << NewPlugIn("admin", 0, NoChannel, NoNick) >>
        \o When(Identify, NewPlugIn("nickserv", -5, NoChannel, "NOP"))
        \o When(Reconnect, NewPlugIn("reconnect", -20, NoChannel, "NOP"))

Init ==
    /\ \E priority \in DisconnectPriorities : plugIns = Startup(priority)
    /\ nextId = Len(plugIns) + 1
    /\ state = "CONNECTING"
    /\ pc = "onConnect"
    /\ it \in Foremost(plugIns, "onConnect", DOMAIN plugIns)
    /\ result = NoResult
    /\ message = {} /\ lines = <<>> /\ partial = {}
    /\ wire = <<>> /\ link = "up" /\ cut = {} /\ served = 0 /\ welcomed = FALSE
    /\ conn = 1 /\ session = "opened" /\ leftover = FALSE /\ eof = FALSE
-----------------------------------------------------------------------------
(* Plug-ins.  A handler of plug-in p yields a set of outcomes: what p       *)
(* remembers afterwards, and its result for processResult().                *)

Outcome(memory, newResult) == [memory |-> memory, result |-> newResult]
Nothing(p)                 == Outcome(p.memory, NoResult)
Sends(memory, messages)    == Outcome(memory, [PlugInResult EXCEPT !.messages = messages])
Moves(memory, newState)    == Outcome(memory, [PlugInResult EXCEPT !.newState = newState])

onConnect(p) ==
    IF p.kind = "connect" /\ state = "CONNECTING" /\ p.memory = "NOP"
    THEN {Sends("SENT", <<"NICK", "USER">>)}
    ELSE {Nothing(p)}

\* Drops the connection where it has to quit.
ConnectOnPacketDropsMutant(p, m) ==
    IF p.memory = "SENT" /\ m.type = "NICKERROR" THEN {Moves(p.memory, "DISCONNECTED")}
    ELSE IF p.memory = "SENT" /\ m.type = "ENDOFMOTD" THEN {Moves(p.memory, "CONNECTED")}
    ELSE {Nothing(p)}

\* Takes any numeric reply for the end of the greeting.
ConnectOnPacketAnyReplyMutant(p, m) ==
    IF p.memory = "SENT" /\ m.type = "NICKERROR" THEN {Moves(p.memory, "DISCONNECTING")}
    ELSE IF p.memory = "SENT" /\ m.type \in {"ENDOFMOTD", "CHANNELREPLY"}
    THEN {Moves(p.memory, "CONNECTED")}
    ELSE {Nothing(p)}

ConnectOnPacket(p, m) ==
    IF p.memory = "SENT" /\ m.type = "NICKERROR" THEN {Moves(p.memory, "DISCONNECTING")}
    ELSE IF p.memory = "SENT" /\ m.type = "ENDOFMOTD" THEN {Moves(p.memory, "CONNECTED")}
    ELSE {Nothing(p)}

\* Unregisters itself once it has joined.
JoinOnPacketMutant(p, m) ==
    IF p.memory = "SENT" /\ m.type = "CHANNELREPLY" /\ m.channel = p.channel
    THEN {Outcome("JOINED", [PlugInResult EXCEPT !.unregister = <<p.channel>>])}
    ELSE {Nothing(p)}

JoinOnPacket(p, m) ==
    IF p.memory = "SENT" /\ m.type = "CHANNELREPLY" /\ m.channel = p.channel
    THEN {Outcome("JOINED", NoResult)}
    ELSE {Nothing(p)}

PingPongOnPacket(p, m) ==
    IF m.type = "PING" THEN {Sends(p.memory, <<"PONG">>)} ELSE {Nothing(p)}

\* The title of the first URL, in which nothing or an error may be found.
URLTitleOnPacket(p, m) ==
    IF m.type = "PRIVMSG" /\ m.command = "url"
    THEN {Nothing(p), Sends(p.memory, <<"PRIVMSG">>)}
    ELSE {Nothing(p)}

\* PlugInAdmin::parseCommandMessage(): what each command results in, for the
\* admin and for anybody.
AdminCommand(m) ==
    LET channels == IF m.arguments # <<>> THEN m.arguments
                    ELSE IF m.channel # NoChannel THEN <<m.channel>> ELSE <<>>
    IN  IF m.command = "version" THEN [PlugInResult EXCEPT !.messages = <<"PRIVMSG">>]
        ELSE IF AdminNick = NoNick \/ m.from # AdminNick THEN PlugInResult
        ELSE CASE m.command = "quit"  -> [PlugInResult EXCEPT !.newState = "DISCONNECTING"]
               [] m.command = "join"  -> [PlugInResult EXCEPT !.register = m.arguments]
               [] m.command = "leave" ->
                    [PlugInResult EXCEPT !.messages = [n \in DOMAIN channels |-> "PART"],
                                     !.unregister = channels]
               [] OTHER               -> PlugInResult

\* A command counts when the text begins with it or with the nickname tracked.
AdminOnPacket(p, m) ==
    IF m.type = "NICK" /\ p.memory # NoNick /\ m.from = p.memory
    THEN {Outcome(m.nick, NoResult)}
    ELSE IF m.type = "PRIVMSG" /\ m.nick \in {NoNick, p.memory}
    THEN {Outcome(p.memory, AdminCommand(m))}
    ELSE {Nothing(p)}

onPacket(p, m) ==
    CASE p.kind = "connect"  -> ConnectOnPacket(p, m)
      [] p.kind = "join"     -> JoinOnPacket(p, m)
      [] p.kind = "pingpong" -> PingPongOnPacket(p, m)
      [] p.kind = "urltitle" -> URLTitleOnPacket(p, m)
      [] p.kind = "admin"    -> AdminOnPacket(p, m)
      [] OTHER               -> {Nothing(p)}

\* PlugInLog writes to its database on messages about its channel, and on
\* those of users it has seen there; an insert that fails throws.
LogMayThrow(p, m) ==
    /\ p.kind = "log"
    /\ \/ m.type \in {"CHANNELREPLY", "PRIVMSG"} /\ m.channel = p.channel
       \/ m.type \in {"NICK", "MEMBERSHIP"}

\* Asks for CONNECTING.
JoinOnTimeTriggerMutant(p) ==
    IF state = "CONNECTING" /\ p.memory = "NOP" THEN {Sends("SENT", <<"JOIN">>)} ELSE {Nothing(p)}

JoinOnTimeTrigger(p) ==
    IF state = "CONNECTED" /\ p.memory = "NOP" THEN {Sends("SENT", <<"JOIN">>)} ELSE {Nothing(p)}

NickServOnTimeTrigger(p) ==
    IF state = "CONNECTED" /\ p.memory = "NOP"
    THEN {Sends("IDENTIFIED", <<"PRIVMSG">>)} ELSE {Nothing(p)}

\* The decision depends on the clock: time out, ping, or neither.
PingPongOnTimeTrigger(p) ==
    {Nothing(p), Sends(p.memory, <<"PING">>), Moves(p.memory, "DISCONNECTING")}

onTimeTrigger(p) ==
    CASE p.kind = "join"     -> JoinOnTimeTrigger(p)
      [] p.kind = "nickserv" -> NickServOnTimeTrigger(p)
      [] p.kind = "pingpong" -> PingPongOnTimeTrigger(p)
      [] OTHER               -> {Nothing(p)}

\* Is not reset.
ConnectOnDisconnectMutant(p) == {Nothing(p)}
ConnectOnDisconnect(p)       == {Outcome("NOP", NoResult)}

\* Is not reset.
JoinOnDisconnectMutant(p) == {Nothing(p)}
JoinOnDisconnect(p)       == {Outcome("NOP", NoResult)}

NickServOnDisconnect(p) == {Outcome("NOP", NoResult)}

\* Says QUIT and leaves the state alone.
DisconnectOnDisconnectMutant(p) ==
    IF state = "DISCONNECTING" THEN {Sends(p.memory, <<"QUIT">>)} ELSE {Nothing(p)}

DisconnectOnDisconnect(p) ==
    IF state = "DISCONNECTING"
    THEN {Outcome(p.memory, [PlugInResult EXCEPT !.messages = <<"QUIT">>,
                                                 !.newState = "DISCONNECTED"])}
    ELSE {Nothing(p)}

\* Acts on DISCONNECTING.
ReconnectOnDisconnectMutant(p) ==
    IF state = "DISCONNECTING" THEN {Moves(p.memory, "CONNECTING")} ELSE {Nothing(p)}

ReconnectOnDisconnect(p) ==
    IF state = "DISCONNECTED" THEN {Moves(p.memory, "CONNECTING")} ELSE {Nothing(p)}

onDisconnect(p) ==
    CASE p.kind = "connect"    -> ConnectOnDisconnect(p)
      [] p.kind = "join"       -> JoinOnDisconnect(p)
      [] p.kind = "nickserv"   -> NickServOnDisconnect(p)
      [] p.kind = "disconnect" -> DisconnectOnDisconnect(p)
      [] p.kind = "reconnect"  -> ReconnectOnDisconnect(p)
      [] OTHER                 -> {Nothing(p)}

\* PlugInAdmin::onPacketSent(): remembers the nickname asked for.  Nobody else minds.
onPacketSent(p, command) ==
    IF p.kind = "admin" /\ command = "NICK" THEN [p EXCEPT !.memory = BotNick] ELSE p

-----------------------------------------------------------------------------
(* Calling the plug-ins and working off their results.                      *)

\* One call of a handler; without a result the loop goes straight on.
Call(outcomes) ==
    /\ it # End /\ ~result.given
    /\ \E o \in outcomes :
         /\ plugIns' = [plugIns EXCEPT ![it].memory = o.memory]
         /\ result' = o.result
         /\ IF ~o.result.given THEN it' \in Following(plugIns) ELSE it' = it
    /\ UNCHANGED <<state, nextId, pc, stream, server, history>>

CallOnConnect == pc = "onConnect" /\ Call(onConnect(plugIns[it]))
CallOnPacket == pc = "onPacket" /\ \E m \in message : Call(onPacket(plugIns[it], m))
CallOnTimeTrigger == pc = "onTimeTrigger" /\ Call(onTimeTrigger(plugIns[it]))
CallOnDisconnect == pc \in ReversePasses /\ Call(onDisconnect(plugIns[it]))

\* PlugInLog::onPacket() throws: processMessage() drops the message, and the
\* plug-ins after it do not see it.
LogThrows ==
    /\ pc = "onPacket" /\ it # End /\ ~result.given
    /\ \E m \in message : LogMayThrow(plugIns[it], m)
    /\ Goto("receiveMessage")
    /\ message' = {}
    /\ UNCHANGED <<state, plugIns, nextId, result, lines, partial, server, history>>

\* A session's next state when the server reads a command.
Hears(s, command) ==
    CASE s \in {"quit", "afterQuit"}                          -> "afterQuit"
      [] s \notin {"quit", "afterQuit"} /\ command = "QUIT"   -> "quit"
      [] s = "opened" /\ command = "NICK"                     -> "nick"
      [] s = "nick" /\ command = "USER"                       -> "registered"
      [] s = "registered" /\ command \notin {"NICK", "USER", "QUIT"} -> "registered"
      [] OTHER                                                -> "early"

\* processResult() sends the next message, and every plug-in is told.  A closed
\* connection may still take the message.
SendMessage ==
    /\ result.given /\ result.messages # <<>> /\ isConnected
    /\ session' = Hears(session, Head(result.messages))
    /\ result' = [result EXCEPT !.messages = Tail(@)]
    /\ plugIns' = [i \in DOMAIN plugIns |-> onPacketSent(plugIns[i], Head(result.messages))]
    /\ UNCHANGED <<state, nextId, pc, it, stream, server, conn, leftover, eof>>

\* send() fails and throws: the bot considers itself disconnected.
SendFails ==
    /\ result.given /\ result.messages # <<>> /\ isConnected
    /\ link = "closed"
    /\ state' = "DISCONNECTED"
    /\ result' = [result EXCEPT !.messages = Tail(@)]
    /\ UNCHANGED <<plugIns, nextId, pc, it, stream, server, history>>

\* send() without MSG_NOSIGNAL on a connection already reset: SIGPIPE.
SendKills ==
    /\ result.given /\ result.messages # <<>> /\ isConnected
    /\ link = "closed"
    /\ pc' = "killed"
    /\ it' = End /\ result' = NoResult
    /\ UNCHANGED <<state, plugIns, nextId, stream, server, history>>

\* What the registrations of a result, and then its unregistrations, leave.
PlugInsLeft ==
    unregisterPlugIns(registerPlugIns(plugIns, result.register), result.unregister)

\* Sets STATE_NOP too.
FinishResultMutant ==
    /\ result.given
    /\ result.messages = <<>> \/ ~isConnected
    /\ state' = result.newState
    /\ plugIns' = PlugInsLeft
    /\ nextId' = nextId + Len(result.register)
    /\ it' \in Following(plugIns')
    /\ result' = NoResult
    /\ UNCHANGED <<pc, stream, server, history>>

\* The rest of processResult(), when everything is sent or the bot is no longer
\* connected: the new state, the registrations, the unregistrations.  The loop's it++
\* follows, for which the plug-in it is at has to be left (IteratorStaysValid).
FinishResult ==
    /\ result.given
    /\ result.messages = <<>> \/ ~isConnected
    /\ state' = IF result.newState = "NOP" THEN state ELSE result.newState
    /\ plugIns' = PlugInsLeft
    /\ nextId' = nextId + Len(result.register)
    /\ it' \in Following(plugIns')
    /\ result' = NoResult
    /\ UNCHANGED <<pc, stream, server, history>>

-----------------------------------------------------------------------------
(* The loops of ZeroBot.                                                    *)

\* Where an iteration of run()'s inner loop begins.
LoopBody == IF state = "CONNECTING" THEN "onConnect" ELSE "receiveMessage"

\* The ends of the loops over the plug-ins, and what run() does next in the
\* state the bot is in by then.
PassDone ==
    /\ pc \in Passes /\ it = End
    /\ Goto(CASE pc = "onConnect" ->
                    IF isConnected THEN "receiveMessage" ELSE "onDisconnected"
              [] pc = "onPacket" -> "receiveMessage"
              [] pc = "onTimeTrigger" ->
                    CASE state = "DISCONNECTING" -> "onDisconnecting"
                      [] state = "DISCONNECTED"  -> "onDisconnected"
                      [] OTHER                   -> "sleep"
              [] pc = "onDisconnecting" ->
                    IF isConnected THEN "sleep" ELSE "onDisconnected"
              [] pc = "onDisconnected" ->
                    IF isConnected THEN "recreateSocket" ELSE "exit")
    /\ message' = {}
    /\ UNCHANGED <<state, plugIns, nextId, result, lines, partial, server, history>>

Sleep ==
    /\ pc = "sleep"
    /\ Goto(LoopBody)
    /\ UNCHANGED <<state, plugIns, nextId, result, stream, server, history>>

\* receiveMessage(): one recv() appends to the buffer.  A line that goes on after
\* an unfinished one of the connection before may be read as either or neither.
Receive ==
    /\ pc = "receiveMessage" /\ wire # <<>>
    /\ LET piece == Head(wire)
           read  == partial \cup {piece.message}
                      \cup (IF partial = {} \/ piece.part = "tail" THEN {} ELSE {Unparsable})
       IN  IF piece.part = "head"
           THEN partial' = read /\ lines' = lines
           ELSE partial' = {} /\ \E line \in read : lines' = Append(lines, line)
    /\ wire' = Tail(wire)
    /\ UNCHANGED <<bot, message, link, cut, served, welcomed, history>>

\* The state when recv() has nothing more or throws; it throws again in every call.
StateReceivedMutant == IF link = "closed" /\ ~eof THEN "DISCONNECTED" ELSE state
StateReceived       == IF link = "closed" THEN "DISCONNECTED" ELSE state

\* recv() has nothing more or throws; then the first complete line is taken from
\* the buffer, or receiveMessages() returns.
TakeLine ==
    /\ pc = "receiveMessage" /\ wire = <<>>
    /\ state' = StateReceived
    /\ eof' = (eof \/ link = "closed")
    /\ IF lines # <<>>
       THEN /\ message' = {Head(lines)} /\ lines' = Tail(lines)
            /\ pc' = "processMessage" /\ it' = End
       ELSE /\ Goto(IF StateReceived = "DISCONNECTED"
                    THEN "onDisconnected" ELSE "onTimeTrigger")
            /\ UNCHANGED <<message, lines>>
    /\ UNCHANGED <<plugIns, nextId, result, partial, server, conn, session, leftover>>

\* A line that cannot be parsed ends the receiving.
ProcessMessageMutant ==
    /\ pc = "processMessage"
    /\ \E m \in message :
         IF m.type = "OTHER" THEN Goto("onTimeTrigger") /\ message' = {}
                             ELSE Goto("onPacket") /\ message' = message
    /\ UNCHANGED <<state, plugIns, nextId, result, lines, partial, server, history>>

\* processMessage(): a line that cannot be parsed is dropped.
ProcessMessage ==
    /\ pc = "processMessage"
    /\ \E m \in message :
         IF m.type = "OTHER" THEN Goto("receiveMessage") /\ message' = {}
                             ELSE Goto("onPacket") /\ message' = message
    /\ UNCHANGED <<state, plugIns, nextId, result, lines, partial, server, history>>

\* run() opens a new socket and starts over; the buffer keeps what it has.
RecreateSocket ==
    /\ pc = "recreateSocket" /\ conn < MaxConnections
    /\ conn' = conn + 1
    /\ wire' = <<>> /\ link' = "up" /\ cut' = {} /\ welcomed' = FALSE
    /\ session' = "opened" /\ eof' = FALSE /\ leftover' = (partial # {})
    /\ Goto(LoopBody)
    /\ UNCHANGED <<state, plugIns, nextId, result, stream, served>>

\* ClientSocket's constructor throws, and nobody catches it.
RecreateFails ==
    /\ pc = "recreateSocket"
    /\ Goto("uncaught")
    /\ UNCHANGED <<state, plugIns, nextId, result, stream, server, history>>

-----------------------------------------------------------------------------
(* The server and the network.                                              *)

\* Before the bot has registered there are only PING and lines the bot drops, and
\* objections to its nickname.
MaySend(m) ==
    \/ m.type \in {"PING", "OTHER"}
    \/ m.type = "NICKERROR" /\ session # "opened"
    \/ session \notin {"opened", "nick"}

\* The server writes a line, or only its head: up to anywhere before its end.
ServerSends ==
    /\ link = "up" /\ cut = {} /\ served < MaxLines
    /\ \E m \in Messages, part \in {"whole", "head"} :
         /\ MaySend(m)
         /\ wire' = Append(wire, [part |-> part, message |-> m])
         /\ cut' = IF part = "head" THEN {m} ELSE {}
         /\ welcomed' = (welcomed \/ m.type = "ENDOFMOTD")
    /\ served' = served + 1
    /\ UNCHANGED <<bot, stream, link, history>>

\* The rest of the line follows.
ServerContinues ==
    /\ link = "up"
    /\ \E m \in cut : wire' = Append(wire, [part |-> "tail", message |-> m])
    /\ cut' = {}
    /\ UNCHANGED <<bot, stream, link, served, welcomed, history>>

ServerCloses ==
    /\ link = "up"
    /\ link' = "closed"
    /\ UNCHANGED <<bot, stream, wire, cut, served, welcomed, history>>

-----------------------------------------------------------------------------
Run ==
    \/ CallOnConnect \/ CallOnPacket \/ CallOnTimeTrigger \/ CallOnDisconnect
    \/ LogThrows \/ SendMessage \/ SendFails \/ SendKills \/ FinishResult
    \/ PassDone \/ Sleep \/ Receive \/ TakeLine \/ ProcessMessage
    \/ RecreateSocket \/ RecreateFails

Environment == ServerSends \/ ServerContinues \/ ServerCloses

\* The process is gone.
Terminated == pc \in Final /\ UNCHANGED vars

Next == Run \/ Environment \/ Terminated

Spec == Init /\ [][Next]_vars

\* The bot is one running process: it takes its next step.  Nothing is assumed of
\* the server.  (Not for Identify or Title: reading the password from the terminal
\* and fetching a page may block for ever.)
FairSpec == Spec /\ WF_vars(Run)

-----------------------------------------------------------------------------
(* Safety.                                                                  *)

\* What ends a socket: the bot said QUIT on it, or the connection was lost.
SocketIsOver == link = "closed" \/ session \in {"quit", "afterQuit"}

\* No result has the plug-in erased that returned it, at which the loop's iterator is when
\* processResult() returns (zerobot.cpp:50-59; erasing it leaves the iterator dangling).
IteratorStaysValid == result.given => it \in DOMAIN PlugInsLeft

\* Whatever a socket carries comes after NICK and USER, each sent once, on every
\* socket anew (PlugInConnect, its reset, and the order of the passes of run()).
HandshakeFirst == session # "early"

\* Nothing follows a QUIT on the same socket, whatever the plug-ins after
\* PlugInDisconnect in the pass make of the bot's state.
QuitIsLast == session # "afterQuit"

\* The bot is CONNECTED only if the server has finished its greeting on this very
\* socket; but an unfinished line that ZeroBot::buffer kept from the last socket
\* may complete to a greeting the new server has not sent.
ConnectedIsWelcomed == state = "CONNECTED" => welcomed \/ leftover

\* run() gives up a socket only if it said QUIT on it or lost it: no state a
\* plug-in sets makes it drop a connection that works.
NoSocketAbandoned ==
    pc \in {"onDisconnected", "recreateSocket", "exit"} => SocketIsOver

\* Once receive() has failed, no time trigger runs, nothing says QUIT and the bot
\* does not sleep, though lines still buffered may set the state again.
LossIsNoticedAtOnce ==
    eof => pc \notin {"onConnect", "onTimeTrigger", "onDisconnecting", "sleep"}

\* receiveMessages() hands over every complete line before it returns: none waits
\* for the next iteration, or is taken over to the next socket.
NoLineStranded ==
    lines # <<>> => pc \in {"receiveMessage", "processMessage", "onPacket", "killed"}

\* A new socket finds every plug-in as it was at startup, so that it registers,
\* identifies and joins again (the onDisconnect() handlers).
PlugInsAreReset ==
    pc = "recreateSocket" =>
        \A i \in DOMAIN plugIns : plugIns[i].kind \in {"connect", "join", "nickserv"}
                                   => plugIns[i].memory = "NOP"

\* With --reconnect the bot never just returns from run().
ReconnectGoesOn == Reconnect => pc # "exit"

\* Every line that is processed is one that the server sent (zerobot.cpp:150,
\* "We have a complete message in our buffer").
LinesAreWhole == message \subseteq Messages

-----------------------------------------------------------------------------
(* Liveness.                                                                *)

\* A bot that is disconnecting when receiveMessages() has returned leaves its socket,
\* for another one or by the end of run(), whatever the server does.
QuitCompletes ==
    \A n \in 1..MaxConnections :
        (conn = n /\ state = "DISCONNECTING" /\ pc \in {"onTimeTrigger", "onDisconnecting"})
            ~> (conn > n \/ pc \in Final)

\* Every channel is joined, also one registered while connected, unless the
\* connection ends first.
ChannelsAreJoined ==
    (state = "CONNECTED"
        /\ \E i \in DOMAIN plugIns : plugIns[i].kind = "join" /\ plugIns[i].memory = "NOP")
    ~> (state # "CONNECTED" \/ pc \in Final
        \/ \A i \in DOMAIN plugIns : plugIns[i].kind = "join" => plugIns[i].memory # "NOP")

-----------------------------------------------------------------------------
(* The bot implements the session IRCSession promises to the server.        *)

Promise == INSTANCE IRCSession WITH alive <- pc \notin Final

\* Refinement: run() and the plug-ins together keep to IRCSession, recovery from
\* a lost connection included.
SessionIsKept == Promise!Spec
=============================================================================
