---------------------------- MODULE ZeroBotProofs ----------------------------
(***************************************************************************)
(* Theorems about ZeroBot, for all plug-in line-ups, messages and bounds.  *)
(*                                                                         *)
(* The first part is about the loops and the buffer.  The second needs to  *)
(* know which plug-ins a pass has called and which it has still to call:   *)
(* it is about what a reconnection finds and what the server hears on a    *)
(* socket, up to the refinement of IRCSession.                             *)
(***************************************************************************)
EXTENDS ZeroBot, FiniteSetTheorems, SequenceTheorems, TLAPS

-----------------------------------------------------------------------------
(* The operators the steps are built from keep to their types.             *)

\* A loop only ever stands at a plug-in it was given, or at the end.
LEMMA ForemostType ==
    ASSUME NEW P, NEW pass, NEW S
    PROVE  Foremost(P, pass, S) \subseteq S \cup {End}
  BY DEF Foremost

\* it++ leads to a live plug-in, or to the end.
LEMMA FollowingType ==
    ASSUME NEW P
    PROVE  Following(P) \subseteq DOMAIN P \cup {End}
  BY ForemostType DEF Following

\* Going to a phase sets the iterator to a live plug-in, or to the end.
LEMMA GotoType ==
    ASSUME NEW phase \in Phases, Goto(phase)
    PROVE  pc' = phase /\ pc' \in Phases /\ it' \in DOMAIN plugIns \cup {End}
  BY ForemostType DEF Goto

\* No result, an empty one, and one with a field or two filled in, are results.
LEMMA ResultType ==
    /\ NoResult \in Result /\ PlugInResult \in Result
    /\ \A ms \in Seq(Commands) : [PlugInResult EXCEPT !.messages = ms] \in Result
    /\ \A s \in States : [PlugInResult EXCEPT !.newState = s] \in Result
    /\ \A cs \in Seq(Channels) : [PlugInResult EXCEPT !.register = cs] \in Result
    /\ \A ms \in Seq(Commands), s \in States :
         [PlugInResult EXCEPT !.messages = ms, !.newState = s] \in Result
    /\ \A ms \in Seq(Commands), cs \in Seq(Channels) :
         [PlugInResult EXCEPT !.messages = ms, !.unregister = cs] \in Result
  <1>1. NoResult \in Result
    BY DEF NoResult, Result
  <1>2. PlugInResult \in Result
    BY DEF PlugInResult, Result
  <1>3. \A ms \in Seq(Commands) : [PlugInResult EXCEPT !.messages = ms] \in Result
    BY <1>2 DEF Result
  <1>4. \A s \in States : [PlugInResult EXCEPT !.newState = s] \in Result
    BY <1>2 DEF Result
  <1>5. \A cs \in Seq(Channels) : [PlugInResult EXCEPT !.register = cs] \in Result
    BY <1>2 DEF Result
  <1>6. \A ms \in Seq(Commands), s \in States :
          [PlugInResult EXCEPT !.messages = ms, !.newState = s] \in Result
    BY <1>2 DEF Result
  <1>7. \A ms \in Seq(Commands), cs \in Seq(Channels) :
          [PlugInResult EXCEPT !.messages = ms, !.unregister = cs] \in Result
    BY <1>2 DEF Result
  <1>. QED BY <1>1, <1>2, <1>3, <1>4, <1>5, <1>6, <1>7

\* The same answer for each element of a sequence is a sequence again.
LEMMA AlikeSeq ==
    ASSUME NEW S, NEW s \in Seq(S), NEW T, NEW e \in T
    PROVE  [n \in DOMAIN s |-> e] \in Seq(T)
  <1>1. DOMAIN s = 1..Len(s) /\ Len(s) \in Nat
    OBVIOUS
  <1>2. [n \in DOMAIN s |-> e] \in [1..Len(s) -> T]
    BY <1>1
  <1>. QED BY <1>1, <1>2, SeqDef

OutcomeType == [memory : Memories, result : Result]

\* The answers of the plug-in admin to a command are results.
LEMMA AdminCommandType ==
    ASSUME ConstantsAssumption, NEW m \in Message
    PROVE  AdminCommand(m) \in Result
  <1>. DEFINE channels == IF m.arguments # <<>> THEN m.arguments
                          ELSE IF m.channel # NoChannel THEN <<m.channel>> ELSE <<>>
              parts == [n \in DOMAIN channels |-> "PART"]
  <1>1. channels \in Seq(Channels)
    BY DEF Message
  <1>2. parts \in Seq(Commands)
    <2>1. "PART" \in Commands
      BY DEF Commands
    <2>. HIDE DEF channels
    <2>. QED BY <1>1, <2>1, AlikeSeq
  <1>3. <<"PRIVMSG">> \in Seq(Commands) /\ "DISCONNECTING" \in States /\ m.arguments \in Seq(Channels)
    BY DEF Commands, States, Message
  <1>4. /\ [PlugInResult EXCEPT !.messages = <<"PRIVMSG">>] \in Result
        /\ PlugInResult \in Result
        /\ [PlugInResult EXCEPT !.newState = "DISCONNECTING"] \in Result
        /\ [PlugInResult EXCEPT !.register = m.arguments] \in Result
        /\ [PlugInResult EXCEPT !.messages = parts, !.unregister = channels] \in Result
    BY <1>1, <1>2, <1>3, ResultType
  <1>. QED BY <1>4 DEF AdminCommand

\* Every handler of every plug-in yields a memory and a result.
LEMMA HandlersType ==
    ASSUME ConstantsAssumption, NEW p \in PlugIn, NEW m \in Message
    PROVE  /\ onConnect(p) \subseteq OutcomeType
           /\ onPacket(p, m) \subseteq OutcomeType
           /\ onTimeTrigger(p) \subseteq OutcomeType
           /\ onDisconnect(p) \subseteq OutcomeType
  <1>1. p.memory \in Memories /\ {"NOP", "SENT", "JOINED", "IDENTIFIED"} \subseteq Memories
    BY DEF PlugIn, Memories
  <1>2. m.nick \in Memories
    BY DEF Message, Memories
  <1>3. \A x \in Memories, r \in Result : Outcome(x, r) \in OutcomeType
    BY DEF Outcome, OutcomeType
  <1>4. Nothing(p) \in OutcomeType
    BY <1>1, <1>3, ResultType DEF Nothing
  <1>5. \A x \in Memories, ms \in Seq(Commands) : Sends(x, ms) \in OutcomeType
    BY <1>3, ResultType DEF Sends
  <1>6. \A x \in Memories, s \in States : Moves(x, s) \in OutcomeType
    BY <1>3, ResultType DEF Moves
  <1>7. /\ <<"NICK", "USER">> \in Seq(Commands) /\ <<"JOIN">> \in Seq(Commands)
        /\ <<"PONG">> \in Seq(Commands) /\ <<"PING">> \in Seq(Commands)
        /\ <<"PRIVMSG">> \in Seq(Commands) /\ <<"QUIT">> \in Seq(Commands)
        /\ States = {"CONNECTING", "CONNECTED", "DISCONNECTING", "DISCONNECTED"}
    BY DEF Commands, States
  <1>8. onConnect(p) \subseteq OutcomeType
    BY <1>1, <1>4, <1>5, <1>7 DEF onConnect
  <1>9. onPacket(p, m) \subseteq OutcomeType
    <2>1. ConnectOnPacket(p, m) \subseteq OutcomeType
      BY <1>1, <1>4, <1>6, <1>7 DEF ConnectOnPacket
    <2>2. JoinOnPacket(p, m) \subseteq OutcomeType
      BY <1>1, <1>3, <1>4, ResultType DEF JoinOnPacket
    <2>3. PingPongOnPacket(p, m) \subseteq OutcomeType
      BY <1>1, <1>4, <1>5, <1>7 DEF PingPongOnPacket
    <2>4. URLTitleOnPacket(p, m) \subseteq OutcomeType
      BY <1>1, <1>4, <1>5, <1>7 DEF URLTitleOnPacket
    <2>5. AdminOnPacket(p, m) \subseteq OutcomeType
      BY <1>1, <1>2, <1>3, <1>4, ResultType, AdminCommandType DEF AdminOnPacket
    <2>. QED BY <1>4, <2>1, <2>2, <2>3, <2>4, <2>5 DEF onPacket
  <1>10. onTimeTrigger(p) \subseteq OutcomeType
    <2>1. JoinOnTimeTrigger(p) \subseteq OutcomeType
      BY <1>1, <1>4, <1>5, <1>7 DEF JoinOnTimeTrigger
    <2>2. NickServOnTimeTrigger(p) \subseteq OutcomeType
      BY <1>1, <1>4, <1>5, <1>7 DEF NickServOnTimeTrigger
    <2>3. PingPongOnTimeTrigger(p) \subseteq OutcomeType
      BY <1>1, <1>4, <1>5, <1>6, <1>7 DEF PingPongOnTimeTrigger
    <2>. QED BY <1>4, <2>1, <2>2, <2>3 DEF onTimeTrigger
  <1>11. onDisconnect(p) \subseteq OutcomeType
    <2>1. Outcome("NOP", NoResult) \in OutcomeType
      BY <1>1, <1>3, ResultType
    <2>2. DisconnectOnDisconnect(p) \subseteq OutcomeType
      BY <1>1, <1>3, <1>4, <1>7, ResultType DEF DisconnectOnDisconnect
    <2>3. ReconnectOnDisconnect(p) \subseteq OutcomeType
      BY <1>1, <1>4, <1>6, <1>7 DEF ReconnectOnDisconnect
    <2>. QED BY <1>4, <2>1, <2>2, <2>3
             DEF onDisconnect, ConnectOnDisconnect, JoinOnDisconnect, NickServOnDisconnect
  <1>. QED BY <1>8, <1>9, <1>10, <1>11

\* Registering plug-ins gives them the next ids; unregistering takes some away.
LEMMA RegistryType ==
    ASSUME ConstantsAssumption, NEW n \in Nat \ {0}, n = nextId, NEW P,
           P \in [DOMAIN P -> PlugIn], DOMAIN P \subseteq 1..(n - 1),
           NEW new \in Seq(Channels), NEW old \in Seq(Channels),
           NEW Q, Q = unregisterPlugIns(registerPlugIns(P, new), old)
    PROVE  /\ Q \in [DOMAIN Q -> PlugIn]
           /\ DOMAIN Q \subseteq 1..(n + Len(new) - 1)
  <1>. DEFINE R == registerPlugIns(P, new)
  <1>1. Len(new) \in Nat /\ \A k \in 1..Len(new) : new[k] \in Channels
    OBVIOUS
  <1>2. \A c \in Channels : PlugInJoin(c) \in PlugIn
    BY DEF PlugInJoin, NewPlugIn, PlugIn, Kinds, Memories
  <1>3. DOMAIN R = DOMAIN P \cup n..(n + Len(new) - 1)
    BY DEF registerPlugIns
  <1>4. \A i \in DOMAIN R : R[i] \in PlugIn
    <2>. TAKE i \in DOMAIN R
    <2>1. CASE i \in DOMAIN P
      BY <2>1 DEF registerPlugIns
    <2>2. CASE i \notin DOMAIN P
      <3>1. i - n + 1 \in 1..Len(new)
        BY <1>1, <1>3, <2>2
      <3>2. R[i] = PlugInJoin(new[i - n + 1])
        BY <2>2 DEF registerPlugIns
      <3>. QED BY <1>1, <1>2, <3>1, <3>2
    <2>. QED BY <2>1, <2>2
  <1>5. DOMAIN R \subseteq 1..(n + Len(new) - 1)
    BY <1>1, <1>3
  <1>. QED
    <2>. HIDE DEF R
    <2>1. Q = unregisterPlugIns(R, old)
      BY DEF R
    <2>2. DOMAIN Q \subseteq DOMAIN R /\ \A i \in DOMAIN Q : Q[i] = R[i]
      BY <2>1 DEF unregisterPlugIns
    <2>3. Q = [i \in DOMAIN Q |-> Q[i]]
      BY <2>1 DEF unregisterPlugIns
    <2>. QED BY <1>4, <1>5, <2>2, <2>3

\* main() registers plug-ins only.
LEMMA StartupType ==
    ASSUME ConstantsAssumption, NEW priority \in Int
    PROVE  Startup(priority) \in Seq(PlugIn)
  <1>. DEFINE When(wanted, plugIn) == IF wanted THEN <<plugIn>> ELSE <<>>
              joins == JoinArgs \o LogArgs
              first == << NewPlugIn("connect", -10, NoChannel, "NOP"),
                          NewPlugIn("disconnect", priority, NoChannel, "NOP"),
                          NewPlugIn("pingpong", 0, NoChannel, "NOP") >>
              joiners == [n \in DOMAIN joins |-> PlugInJoin(joins[n])]
              loggers == [n \in DOMAIN LogArgs |-> NewPlugIn("log", 0, LogArgs[n], "NOP")]
  <1>1. \A k \in Kinds, x \in Int, c \in Channels \cup {NoChannel}, m \in {"NOP", NoNick} :
          NewPlugIn(k, x, c, m) \in PlugIn
    BY DEF NewPlugIn, PlugIn, Memories
  <1>2. {"connect", "disconnect", "pingpong", "join", "log", "urltitle", "admin",
         "nickserv", "reconnect"} \subseteq Kinds
    BY DEF Kinds
  <1>3. first \in Seq(PlugIn)
    BY <1>1, <1>2
  <1>4. joiners \in Seq(PlugIn)
    <2>1. joins \in Seq(Channels)
      BY DEF ConstantsAssumption
    <2>2. \A n \in DOMAIN joins : PlugInJoin(joins[n]) \in PlugIn
      BY <1>1, <1>2, <2>1 DEF PlugInJoin
    <2>3. joiners \in [1..Len(joins) -> PlugIn] /\ Len(joins) \in Nat
      <3>. HIDE DEF joins
      <3>. QED BY <2>1, <2>2
    <2>. QED BY <2>3, SeqDef
  <1>5. loggers \in Seq(PlugIn)
    <2>1. LogArgs \in Seq(Channels)
      BY DEF ConstantsAssumption
    <2>2. \A n \in DOMAIN LogArgs : NewPlugIn("log", 0, LogArgs[n], "NOP") \in PlugIn
      BY <1>1, <1>2, <2>1
    <2>3. loggers \in [1..Len(LogArgs) -> PlugIn] /\ Len(LogArgs) \in Nat
      BY <2>1, <2>2
    <2>. QED BY <2>3, SeqDef
  <1>6. /\ When(Title, NewPlugIn("urltitle", 5, NoChannel, "NOP")) \in Seq(PlugIn)
        /\ << NewPlugIn("admin", 0, NoChannel, NoNick) >> \in Seq(PlugIn)
        /\ When(Identify, NewPlugIn("nickserv", -5, NoChannel, "NOP")) \in Seq(PlugIn)
        /\ When(Reconnect, NewPlugIn("reconnect", -20, NoChannel, "NOP")) \in Seq(PlugIn)
    BY <1>1, <1>2
  <1>7. Startup(priority) = first \o joiners \o loggers
            \o When(Title, NewPlugIn("urltitle", 5, NoChannel, "NOP"))
            \o << NewPlugIn("admin", 0, NoChannel, NoNick) >>
            \o When(Identify, NewPlugIn("nickserv", -5, NoChannel, "NOP"))
            \o When(Reconnect, NewPlugIn("reconnect", -20, NoChannel, "NOP"))
    BY DEF Startup
  <1>. HIDE DEF first, joiners, loggers, When
  <1>. QED BY <1>3, <1>4, <1>5, <1>6, <1>7

-----------------------------------------------------------------------------
(* Type correctness.                                                       *)

\* The program starts in a well-typed state.
LEMMA InitType ==
    ASSUME ConstantsAssumption, Init PROVE TypeOK
  <1>1. plugIns \in Seq(PlugIn)
    BY StartupType DEF Init, ConstantsAssumption
  <1>2. /\ plugIns \in [DOMAIN plugIns -> PlugIn]
        /\ DOMAIN plugIns = 1..Len(plugIns) /\ Len(plugIns) \in Nat
    BY <1>1
  <1>3. it \in DOMAIN plugIns \cup {End}
    BY ForemostType DEF Init
  <1>4. nextId \in Nat \ {0} /\ DOMAIN plugIns \subseteq 1..(nextId - 1)
    BY <1>2 DEF Init
  <1>5. BotType
    BY <1>2, <1>3, <1>4, ResultType DEF Init, BotType, States, Phases, Passes
  <1>6. StreamType
    <2>1. message = {} /\ lines = <<>> /\ partial = {}
      BY DEF Init
    <2>. QED BY <2>1 DEF StreamType
  <1>7. ServerType
    <2>1. wire = <<>> /\ link = "up" /\ cut = {} /\ served = 0 /\ welcomed = FALSE
      BY DEF Init
    <2>2. wire \in Seq(Pieces)
      BY <2>1
    <2>. QED BY <2>1, <2>2 DEF ServerType
  <1>8. HistoryType
    BY DEF Init, HistoryType, Sessions
  <1>. QED BY <1>5, <1>6, <1>7, <1>8 DEF TypeOK

\* A call of any handler keeps the types.
LEMMA CallType ==
    ASSUME TypeOK, NEW outcomes, outcomes \subseteq OutcomeType, Call(outcomes)
    PROVE  TypeOK'
  <1>1. PICK o \in outcomes :
          /\ plugIns' = [plugIns EXCEPT ![it].memory = o.memory]
          /\ result' = o.result
          /\ IF ~o.result.given THEN it' \in Following(plugIns) ELSE it' = it
    BY DEF Call
  <1>2. o.memory \in Memories /\ o.result \in Result
    BY DEF OutcomeType
  <1>3. it \in DOMAIN plugIns /\ plugIns[it] \in PlugIn
    BY DEF Call, TypeOK, BotType
  <1>4. /\ DOMAIN plugIns' = DOMAIN plugIns
        /\ plugIns' \in [DOMAIN plugIns' -> PlugIn]
    BY <1>1, <1>2, <1>3 DEF TypeOK, BotType, PlugIn
  <1>5. it' \in DOMAIN plugIns' \cup {End}
    BY <1>1, <1>3, <1>4, FollowingType
  <1>6. BotType'
    BY <1>1, <1>2, <1>4, <1>5 DEF Call, TypeOK, BotType
  <1>. QED
    BY <1>6 DEF Call, TypeOK, StreamType, ServerType, HistoryType, stream, server, history

\* Steps that only move the program counter keep the bot's types.
LEMMA GotoBotType ==
    ASSUME BotType, NEW phase \in Phases, Goto(phase),
           UNCHANGED <<plugIns, nextId, result>>, state' \in States
    PROVE  BotType'
  BY GotoType DEF BotType

\* Every step of bot, server and network keeps the types.
LEMMA NextType ==
    ASSUME ConstantsAssumption, TypeOK, [Next]_vars PROVE TypeOK'
  <1>. USE DEF TypeOK
  <1>a. \A p \in Passes \cup Final : p \in Phases
    BY DEF Phases
  <1>b. /\ {"onConnect", "onPacket", "onTimeTrigger", "onDisconnecting", "onDisconnected",
            "receiveMessage", "processMessage", "sleep", "recreateSocket",
            "exit", "uncaught", "killed"} \subseteq Phases
        /\ LoopBody \in Phases
    BY DEF Phases, Passes, Final, LoopBody
  <1>1. CASE CallOnConnect
    <2>1. onConnect(plugIns[it]) \subseteq OutcomeType
      <3>1. plugIns[it] \in PlugIn
        BY <1>1 DEF CallOnConnect, Call, BotType
      <3>2. Unparsable \in Message
        BY DEF Unparsable, Message, MessageTypes
      <3>. QED BY <3>1, <3>2, HandlersType
    <2>. QED BY <1>1, <2>1, CallType DEF CallOnConnect
  <1>2. CASE CallOnPacket
    <2>1. PICK m \in message : Call(onPacket(plugIns[it], m))
      BY <1>2 DEF CallOnPacket
    <2>2. m \in Message
      BY DEF StreamType
    <2>3. plugIns[it] \in PlugIn
      BY <2>1 DEF Call, BotType
    <2>4. onPacket(plugIns[it], m) \subseteq OutcomeType
      BY <2>2, <2>3, HandlersType
    <2>. QED BY <2>1, <2>4, CallType
  <1>3. CASE CallOnTimeTrigger
    <2>1. onTimeTrigger(plugIns[it]) \subseteq OutcomeType
      <3>1. plugIns[it] \in PlugIn
        BY <1>3 DEF CallOnTimeTrigger, Call, BotType
      <3>2. Unparsable \in Message
        BY DEF Unparsable, Message, MessageTypes
      <3>. QED BY <3>1, <3>2, HandlersType
    <2>. QED BY <1>3, <2>1, CallType DEF CallOnTimeTrigger
  <1>4. CASE CallOnDisconnect
    <2>1. onDisconnect(plugIns[it]) \subseteq OutcomeType
      <3>1. plugIns[it] \in PlugIn
        BY <1>4 DEF CallOnDisconnect, Call, BotType
      <3>2. Unparsable \in Message
        BY DEF Unparsable, Message, MessageTypes
      <3>. QED BY <3>1, <3>2, HandlersType
    <2>. QED BY <1>4, <2>1, CallType DEF CallOnDisconnect
  <1>5. CASE LogThrows
    <2>1. BotType'
      BY <1>5, <1>b, GotoBotType DEF LogThrows, BotType
    <2>. QED BY <1>5, <2>1 DEF LogThrows, StreamType, ServerType, HistoryType, server, history
  <1>6. CASE SendMessage
    <2>1. Head(result.messages) \in Commands /\ Tail(result.messages) \in Seq(Commands)
      BY <1>6 DEF SendMessage, BotType, Result
    <2>2. result' \in Result
      BY <1>6, <2>1 DEF SendMessage, BotType, Result
    <2>3. session' \in Sessions
      BY <1>6 DEF SendMessage, Hears, Sessions
    <2>4. DOMAIN plugIns' = DOMAIN plugIns /\ plugIns' \in [DOMAIN plugIns' -> PlugIn]
      <3>1. BotNick \in Memories
        BY DEF ConstantsAssumption, Memories
      <3>2. \A p \in PlugIn : \A c : onPacketSent(p, c) \in PlugIn
        BY <3>1 DEF onPacketSent, PlugIn
      <3>. QED BY <1>6, <3>2 DEF SendMessage, BotType
    <2>5. BotType'
      BY <1>6, <2>2, <2>4 DEF SendMessage, BotType
    <2>. QED
      BY <1>6, <2>3, <2>5 DEF SendMessage, StreamType, ServerType, HistoryType, stream, server
  <1>7. CASE SendFails
    <2>1. result' \in Result
      <3>1. Tail(result.messages) \in Seq(Commands)
        BY <1>7 DEF SendFails, BotType, Result
      <3>. QED BY <1>7, <3>1 DEF SendFails, BotType, Result
    <2>2. BotType'
      BY <1>7, <2>1 DEF SendFails, BotType, States
    <2>. QED
      BY <1>7, <2>2 DEF SendFails, StreamType, ServerType, HistoryType, stream, server, history
  <1>8. CASE SendKills
    <2>1. BotType'
      BY <1>8, <1>b, ResultType DEF SendKills, BotType
    <2>. QED
      BY <1>8, <2>1 DEF SendKills, StreamType, ServerType, HistoryType, stream, server, history
  <1>9. CASE FinishResult
    <2>1. /\ result.register \in Seq(Channels) /\ result.unregister \in Seq(Channels)
          /\ result.newState \in States \cup {"NOP"} /\ Len(result.register) \in Nat
      BY DEF BotType, Result
    <2>2. /\ plugIns' \in [DOMAIN plugIns' -> PlugIn]
          /\ DOMAIN plugIns' \subseteq 1..(nextId + Len(result.register) - 1)
      BY <1>9, <2>1, RegistryType DEF FinishResult, PlugInsLeft, BotType
    <2>3. it' \in DOMAIN plugIns' \cup {End}
      BY <1>9, FollowingType DEF FinishResult
    <2>4. state' \in States
      BY <1>9, <2>1 DEF FinishResult, BotType
    <2>5. nextId' \in Nat \ {0} /\ nextId' - 1 = nextId + Len(result.register) - 1
      <3>1. nextId' = nextId + Len(result.register) /\ nextId \in Nat \ {0}
        BY <1>9 DEF FinishResult, BotType
      <3>. QED BY <2>1, <3>1
    <2>6. BotType'
      BY <1>9, <2>2, <2>3, <2>4, <2>5, ResultType DEF FinishResult, BotType
    <2>. QED
      BY <1>9, <2>6 DEF FinishResult, StreamType, ServerType, HistoryType, stream, server, history
  <1>10. CASE PassDone
    <2>1. PICK phase \in Phases : Goto(phase)
      BY <1>10, <1>b DEF PassDone, Passes, Goto, isConnected
    <2>2. BotType'
      BY <1>10, <2>1, GotoBotType DEF PassDone, BotType
    <2>. QED BY <1>10, <2>2 DEF PassDone, StreamType, ServerType, HistoryType, server, history
  <1>11. CASE Sleep
    <2>1. BotType'
      BY <1>11, <1>b, GotoBotType DEF Sleep, BotType
    <2>. QED
      BY <1>11, <2>1 DEF Sleep, StreamType, ServerType, HistoryType, stream, server, history
  <1>12. CASE Receive
    <2>1. BotType' /\ HistoryType'
      BY <1>12 DEF Receive, BotType, HistoryType, bot, history
    <2>2. Head(wire) \in Pieces /\ Tail(wire) \in Seq(Pieces)
      BY <1>12 DEF Receive, ServerType
    <2>3. ServerType'
      BY <1>12, <2>2 DEF Receive, ServerType
    <2>4. Unparsable \in Message
      BY DEF Unparsable, Message, MessageTypes
    <2>. DEFINE read == partial \cup {Head(wire).message} \cup
                          (IF partial = {} \/ Head(wire).part = "tail" THEN {} ELSE {Unparsable})
    <2>5. read \subseteq Message
      BY <2>2, <2>4 DEF StreamType, Pieces
    <2>6. StreamType'
      <3>1. CASE Head(wire).part = "head"
        <4>1. partial' = read /\ lines' = lines /\ message' = message
          BY <1>12, <3>1 DEF Receive
        <4>. QED BY <2>5, <4>1 DEF StreamType
      <3>2. CASE Head(wire).part # "head"
        <4>1. PICK line \in read : lines' = Append(lines, line)
          BY <1>12, <3>2 DEF Receive
        <4>2. partial' = {} /\ message' = message
          BY <1>12, <3>2 DEF Receive
        <4>3. line \in Message
          BY <2>5, <4>1
        <4>. HIDE DEF read
        <4>. QED BY <4>1, <4>2, <4>3 DEF StreamType
      <3>. QED BY <3>1, <3>2
    <2>. QED BY <2>1, <2>3, <2>6
  <1>13. CASE TakeLine
    <2>1. state' \in States /\ eof' \in BOOLEAN
      BY <1>13 DEF TakeLine, StateReceived, BotType, HistoryType, States
    <2>2. BotType'
      <3>1. CASE lines # <<>>
        BY <1>13, <1>b, <2>1, <3>1 DEF TakeLine, StateReceived, BotType
      <3>2. CASE lines = <<>>
        BY <1>13, <1>b, <2>1, <3>2, GotoBotType DEF TakeLine, StateReceived, BotType
      <3>. QED BY <3>1, <3>2
    <2>3. StreamType'
      <3>1. CASE lines # <<>>
        <4>1. Head(lines) \in Message /\ Tail(lines) \in Seq(Message)
          BY <3>1 DEF StreamType
        <4>. QED BY <1>13, <3>1, <4>1 DEF TakeLine, StreamType
      <3>2. CASE lines = <<>>
        BY <1>13, <3>2 DEF TakeLine, StreamType
      <3>. QED BY <3>1, <3>2
    <2>. QED BY <1>13, <2>1, <2>2, <2>3 DEF TakeLine, ServerType, HistoryType, server
  <1>14. CASE ProcessMessage
    <2>1. BotType'
      BY <1>14, <1>b, GotoBotType DEF ProcessMessage, BotType
    <2>. QED
      BY <1>14, <2>1 DEF ProcessMessage, StreamType, ServerType, HistoryType, server, history
  <1>15. CASE RecreateSocket
    <2>1. BotType'
      BY <1>15, <1>b, GotoBotType DEF RecreateSocket, BotType
    <2>2. ServerType'
      <3>1. /\ wire' = <<>> /\ link' = "up" /\ cut' = {} /\ welcomed' = FALSE
            /\ served' = served
        BY <1>15 DEF RecreateSocket
      <3>2. wire' \in Seq(Pieces)
        BY <3>1
      <3>. QED BY <3>1, <3>2 DEF ServerType
    <2>3. HistoryType'
      <3>1. conn' \in Nat
        BY <1>15 DEF RecreateSocket, HistoryType
      <3>2. leftover' \in BOOLEAN
        BY <1>15 DEF RecreateSocket
      <3>3. session' \in Sessions /\ eof' \in BOOLEAN
        BY <1>15 DEF RecreateSocket, Sessions
      <3>. QED BY <3>1, <3>2, <3>3 DEF HistoryType
    <2>. QED BY <1>15, <2>1, <2>2, <2>3 DEF RecreateSocket, StreamType, stream
  <1>16. CASE RecreateFails
    <2>1. BotType'
      BY <1>16, <1>b, GotoBotType DEF RecreateFails, BotType
    <2>. QED
      BY <1>16, <2>1 DEF RecreateFails, StreamType, ServerType, HistoryType, stream, server, history
  <1>17. CASE ServerSends
    <2>1. PICK m \in Messages, part \in {"whole", "head"} :
            /\ wire' = Append(wire, [part |-> part, message |-> m])
            /\ cut' = IF part = "head" THEN {m} ELSE {}
            /\ welcomed' = (welcomed \/ m.type = "ENDOFMOTD")
      BY <1>17 DEF ServerSends
    <2>2. m \in Message /\ [part |-> part, message |-> m] \in Pieces
      BY <2>1 DEF ConstantsAssumption, Pieces
    <2>3. wire' \in Seq(Pieces) /\ cut' \subseteq Message
      BY <2>1, <2>2 DEF ServerType
    <2>4. ServerType'
      BY <1>17, <2>1, <2>3 DEF ServerSends, ServerType
    <2>. QED
      BY <1>17, <2>4 DEF ServerSends, BotType, StreamType, HistoryType, bot, stream, history
  <1>18. CASE ServerContinues
    <2>1. PICK m \in cut : wire' = Append(wire, [part |-> "tail", message |-> m])
      BY <1>18 DEF ServerContinues
    <2>2. [part |-> "tail", message |-> m] \in Pieces
      BY <2>1 DEF ServerType, Pieces
    <2>3. ServerType'
      BY <1>18, <2>1, <2>2 DEF ServerContinues, ServerType
    <2>. QED
      BY <1>18, <2>3 DEF ServerContinues, BotType, StreamType, HistoryType, bot, stream, history
  <1>19. CASE ServerCloses
    BY <1>19 DEF ServerCloses, BotType, StreamType, ServerType, HistoryType, bot, stream, history
  <1>20. CASE UNCHANGED vars
    BY <1>20 DEF vars, BotType, StreamType, ServerType, HistoryType, bot, stream, server, history
  <1>. QED
    BY <1>1, <1>2, <1>3, <1>4, <1>5, <1>6, <1>7, <1>8, <1>9, <1>10, <1>11, <1>12, <1>13,
       <1>14, <1>15, <1>16, <1>17, <1>18, <1>19, <1>20
    DEF Next, Run, Environment, Terminated

\* Every state the bot reaches is well typed; in particular, its state is never STATE_NOP,
\* with which results say that they set none.
THEOREM TypeCorrect == Spec => []TypeOK
  <1>1. Init => TypeOK
    BY InitType, ConstantsAssumption
  <1>2. TypeOK /\ [Next]_vars => TypeOK'
    BY NextType, ConstantsAssumption
  <1>. QED BY <1>1, <1>2, PTL DEF Spec

-----------------------------------------------------------------------------
(* The inductive invariant.                                                *)

\* A result is being worked off only inside a loop over the plug-ins, and only
\* PlugInDisconnect's, after its QUIT, disconnects.
ResultInv ==
    /\ result.given => pc \in Passes /\ it # End
    /\ result.given /\ result.newState = "DISCONNECTED" =>
         SocketIsOver \/ result.messages = <<"QUIT">>

\* A disconnected bot said QUIT or lost the connection; so it did when it runs the
\* last onDisconnect() pass, which it leaves disconnected or connecting.
DisconnectedInv ==
    /\ state = "DISCONNECTED" => SocketIsOver
    /\ NoSocketAbandoned
    /\ pc \in {"onDisconnected", "recreateSocket"} =>
         /\ state \in {"DISCONNECTED", "CONNECTING"}
         /\ result.given => result.newState # "CONNECTED"
         /\ result.given => result.newState # "DISCONNECTING"
    /\ pc = "recreateSocket" => isConnected

\* receive() fails only on a lost connection, and then until a new one is made.
LossInv ==
    /\ eof => link = "closed"
    /\ LossIsNoticedAtOnce

\* Lines and messages exist only while messages are received.
StreamInv ==
    /\ NoLineStranded
    /\ message # {} => pc \in {"processMessage", "onPacket", "killed"}

\* The greeting of this server has been sent, or a line of the last one is left.
Greeted == welcomed \/ leftover

\* Wherever a greeting is on its way to become the state CONNECTED, it was sent on
\* this socket, or a line of the last one is left.
GreetingInv ==
    /\ ConnectedIsWelcomed
    /\ result.given /\ result.newState = "CONNECTED" => Greeted
    /\ \A m \in message \cup partial \cup cut : m.type = "ENDOFMOTD" => Greeted
    /\ \A n \in DOMAIN lines : lines[n].type = "ENDOFMOTD" => Greeted
    /\ \A n \in DOMAIN wire : wire[n].message.type = "ENDOFMOTD" => Greeted

IInv == TypeOK /\ ResultInv /\ DisconnectedInv /\ LossInv /\ StreamInv /\ GreetingInv

\* The bot state each handler may ask for.
LEMMA HandlersAsk ==
    ASSUME NEW p, NEW m
    PROVE  /\ \A o \in onConnect(p) : o.result.newState = "NOP"
           /\ \A o \in onPacket(p, m) :
                /\ o.result.newState \in {"NOP", "CONNECTED", "DISCONNECTING"}
                /\ o.result.newState = "CONNECTED" => m.type = "ENDOFMOTD"
           /\ \A o \in onTimeTrigger(p) : o.result.newState \in {"NOP", "DISCONNECTING"}
           /\ \A o \in onDisconnect(p) :
                /\ o.result.newState \in {"NOP", "CONNECTING", "DISCONNECTED"}
                /\ o.result.newState = "DISCONNECTED" => o.result.messages = <<"QUIT">>
  <1>1. \A x, r : Outcome(x, r).result = r
    BY DEF Outcome
  <1>2. NoResult.newState = "NOP" /\ PlugInResult.newState = "NOP"
    BY DEF NoResult, PlugInResult
  <1>3. \A ms : [PlugInResult EXCEPT !.messages = ms].newState = "NOP"
    BY DEF PlugInResult
  <1>4. \A s : [PlugInResult EXCEPT !.newState = s].newState = s
    BY DEF PlugInResult
  <1>5. Nothing(p).result.newState = "NOP"
    BY <1>1, <1>2 DEF Nothing
  <1>6. \A x, ms : Sends(x, ms).result.newState = "NOP"
    BY DEF Sends, Outcome, PlugInResult
  <1>7. \A x, s : Moves(x, s).result.newState = s
    BY DEF Moves, Outcome, PlugInResult
  <1>8. \A o \in onConnect(p) : o.result.newState = "NOP"
    BY <1>5, <1>6 DEF onConnect
  <1>9. \A o \in onPacket(p, m) :
          /\ o.result.newState \in {"NOP", "CONNECTED", "DISCONNECTING"}
          /\ o.result.newState = "CONNECTED" => m.type = "ENDOFMOTD"
    <2>1. \A o \in ConnectOnPacket(p, m) :
            /\ o.result.newState \in {"NOP", "CONNECTED", "DISCONNECTING"}
            /\ o.result.newState = "CONNECTED" => m.type = "ENDOFMOTD"
      BY <1>5, <1>7 DEF ConnectOnPacket
    <2>2. \A o \in JoinOnPacket(p, m) : o.result.newState = "NOP"
      BY <1>1, <1>2, <1>5 DEF JoinOnPacket
    <2>3. \A o \in PingPongOnPacket(p, m) : o.result.newState = "NOP"
      BY <1>5, <1>6 DEF PingPongOnPacket
    <2>4. \A o \in URLTitleOnPacket(p, m) : o.result.newState = "NOP"
      BY <1>5, <1>6 DEF URLTitleOnPacket
    <2>5. AdminCommand(m).newState \in {"NOP", "DISCONNECTING"}
      <3>1. \A cs : [PlugInResult EXCEPT !.register = cs].newState = "NOP"
        BY DEF PlugInResult
      <3>2. \A ms, cs : [PlugInResult EXCEPT !.messages = ms, !.unregister = cs].newState = "NOP"
        BY DEF PlugInResult
      <3>. QED BY <1>2, <1>3, <1>4, <3>1, <3>2 DEF AdminCommand
    <2>6. \A o \in AdminOnPacket(p, m) : o.result.newState \in {"NOP", "DISCONNECTING"}
      BY <1>1, <1>2, <1>5, <2>5 DEF AdminOnPacket
    <2>. QED BY <1>5, <2>1, <2>2, <2>3, <2>4, <2>6 DEF onPacket
  <1>10. \A o \in onTimeTrigger(p) : o.result.newState \in {"NOP", "DISCONNECTING"}
    BY <1>5, <1>6, <1>7
       DEF onTimeTrigger, JoinOnTimeTrigger, NickServOnTimeTrigger, PingPongOnTimeTrigger
  <1>11. \A o \in onDisconnect(p) :
           /\ o.result.newState \in {"NOP", "CONNECTING", "DISCONNECTED"}
           /\ o.result.newState = "DISCONNECTED" => o.result.messages = <<"QUIT">>
    <2>1. LET o == Outcome(p.memory, [PlugInResult EXCEPT !.messages = <<"QUIT">>,
                                                          !.newState = "DISCONNECTED"])
          IN  o.result.newState = "DISCONNECTED" /\ o.result.messages = <<"QUIT">>
      BY DEF Outcome, PlugInResult
    <2>2. \A o \in DisconnectOnDisconnect(p) :
             \/ o.result.newState = "DISCONNECTED" /\ o.result.messages = <<"QUIT">>
             \/ o.result.newState = "NOP"
      BY <1>5, <2>1 DEF DisconnectOnDisconnect
    <2>3. \A o \in ReconnectOnDisconnect(p) : o.result.newState \in {"NOP", "CONNECTING"}
      BY <1>5, <1>7 DEF ReconnectOnDisconnect
    <2>. QED BY <1>1, <1>2, <1>5, <2>2, <2>3
             DEF onDisconnect, ConnectOnDisconnect, JoinOnDisconnect, NickServOnDisconnect
  <1>. QED BY <1>8, <1>9, <1>10, <1>11

\* A socket that is over stays so until a new one is made.
LEMMA OverStays ==
    ASSUME SocketIsOver, [Next]_vars, ~RecreateSocket
    PROVE  SocketIsOver'
  <1>1. link' = link \/ link' = "closed"
    BY DEF Next, Run, Environment, Terminated, vars, server, CallOnConnect, CallOnPacket,
           CallOnTimeTrigger, CallOnDisconnect, Call, LogThrows, SendMessage, SendFails,
           SendKills, FinishResult, PassDone, Sleep, Receive, TakeLine, ProcessMessage,
           RecreateFails, ServerSends, ServerContinues, ServerCloses
  <1>2. session' = session \/ \E c : session' = Hears(session, c)
    BY DEF Next, Run, Environment, Terminated, vars, history, CallOnConnect, CallOnPacket,
           CallOnTimeTrigger, CallOnDisconnect, Call, LogThrows, SendMessage, SendFails,
           SendKills, FinishResult, PassDone, Sleep, Receive, TakeLine, ProcessMessage,
           RecreateFails, ServerSends, ServerContinues, ServerCloses
  <1>. QED BY <1>1, <1>2 DEF SocketIsOver, Hears

Calls == CallOnConnect \/ CallOnPacket \/ CallOnTimeTrigger \/ CallOnDisconnect

\* What any call of a handler does to the variables the invariants are about.
LEMMA CallsEffect ==
    ASSUME Calls
    PROVE  /\ pc \in Passes /\ it # End /\ ~result.given
           /\ UNCHANGED <<state, nextId, pc, stream, server, history>>
           /\ result'.given => it' = it
           /\ result'.newState = "CONNECTED" =>
                pc = "onPacket" /\ \E m \in message : m.type = "ENDOFMOTD"
           /\ result'.newState = "DISCONNECTED" => result'.messages = <<"QUIT">>
           /\ pc \in ReversePasses =>
                result'.newState \in {"NOP", "CONNECTING", "DISCONNECTED"}
  <1>1. CASE CallOnConnect
    BY <1>1, HandlersAsk DEF CallOnConnect, Call, Passes, ReversePasses
  <1>2. CASE CallOnPacket
    <2>1. PICK m \in message : Call(onPacket(plugIns[it], m))
      BY <1>2 DEF CallOnPacket
    <2>. QED BY <1>2, <2>1, HandlersAsk DEF CallOnPacket, Call, Passes, ReversePasses
  <1>3. CASE CallOnTimeTrigger
    BY <1>3, HandlersAsk DEF CallOnTimeTrigger, Call, Passes, ReversePasses
  <1>4. CASE CallOnDisconnect
    BY <1>4, HandlersAsk DEF CallOnDisconnect, Call, Passes, ReversePasses
  <1>. QED BY <1>1, <1>2, <1>3, <1>4 DEF Calls

\* The environment leaves the bot alone.
LEMMA EnvironmentEffect ==
    ASSUME Environment
    PROVE  UNCHANGED <<bot, stream, history>>
  BY DEF Environment, ServerSends, ServerContinues, ServerCloses, history

\* Every step keeps ResultInv.
LEMMA ResultStep ==
    ASSUME ConstantsAssumption, IInv, [Next]_vars
    PROVE  ResultInv'
  <1>. USE DEF ResultInv
  <1>a. TypeOK /\ ResultInv
    BY DEF IInv
  <1>1. CASE Calls
    BY <1>1, CallsEffect
  <1>2. CASE LogThrows
    BY <1>2 DEF LogThrows
  <1>3. CASE SendMessage
    <2>1. result.messages = <<"QUIT">> => SocketIsOver'
      BY <1>3 DEF SendMessage, Hears, SocketIsOver
    <2>2. SocketIsOver => SocketIsOver'
      BY <1>3 DEF SendMessage, Hears, SocketIsOver, server
    <2>3. /\ pc' = pc /\ it' = it /\ result'.given = result.given
          /\ result'.newState = result.newState
      BY <1>3, <1>a DEF SendMessage, TypeOK, BotType, Result
    <2>4. pc \in Passes /\ it # End
      BY <1>3, <1>a DEF SendMessage
    <2>. QED BY <1>a, <2>1, <2>2, <2>3, <2>4
  <1>4. CASE SendFails
    <2>1. SocketIsOver'
      BY <1>4 DEF SendFails, SocketIsOver, server
    <2>2. pc' = pc /\ it' = it /\ result'.given = result.given
      BY <1>4, <1>a DEF SendFails, TypeOK, BotType, Result
    <2>. QED BY <1>4, <1>a, <2>1, <2>2 DEF SendFails
  <1>5. CASE SendKills \/ FinishResult
    BY <1>5 DEF SendKills, FinishResult, NoResult
  <1>6. CASE PassDone
    BY <1>6, <1>a DEF PassDone
  <1>7. CASE Sleep \/ TakeLine \/ ProcessMessage \/ RecreateSocket \/ RecreateFails
    <2>1. ~result.given /\ result' = result
      BY <1>7, <1>a DEF Sleep, TakeLine, ProcessMessage, RecreateSocket, RecreateFails, Passes
    <2>. QED BY <2>1
  <1>8. CASE Receive
    BY <1>8, <1>a DEF Receive, bot, Passes
  <1>9. CASE Environment
    <2>1. SocketIsOver => SocketIsOver'
      BY <1>9 DEF Environment, ServerSends, ServerContinues, ServerCloses, SocketIsOver, history
    <2>. QED BY <1>9, <1>a, <2>1, EnvironmentEffect DEF bot
  <1>10. CASE UNCHANGED vars
    BY <1>10, <1>a DEF vars, bot, server, history, SocketIsOver
  <1>. QED
    BY <1>1, <1>2, <1>3, <1>4, <1>5, <1>6, <1>7, <1>8, <1>9, <1>10
    DEF Next, Run, Calls, Terminated

\* Every step keeps LossInv.
LEMMA LossStep ==
    ASSUME ConstantsAssumption, IInv, [Next]_vars
    PROVE  LossInv'
  <1>. USE DEF LossInv, LossIsNoticedAtOnce
  <1>a. TypeOK /\ LossInv
    BY DEF IInv
  <1>1. CASE Calls
    BY <1>1, <1>a, CallsEffect DEF history, server
  <1>2. CASE LogThrows
    BY <1>2, <1>a DEF LogThrows, Goto, history, server
  <1>3. CASE SendMessage \/ SendFails \/ SendKills \/ FinishResult
    BY <1>3, <1>a DEF SendMessage, SendFails, SendKills, FinishResult, history, server
  <1>4. CASE PassDone
    BY <1>4, <1>a DEF PassDone, Goto, history, server, Passes
  <1>5. CASE Sleep \/ ProcessMessage \/ RecreateFails
    BY <1>5, <1>a DEF Sleep, ProcessMessage, RecreateFails, Goto, history, server
  <1>6. CASE Receive
    BY <1>6, <1>a DEF Receive, bot, history
  <1>7. CASE TakeLine
    BY <1>7, <1>a DEF TakeLine, StateReceived, Goto, server
  <1>8. CASE RecreateSocket
    BY <1>8 DEF RecreateSocket
  <1>9. CASE Environment
    <2>1. link = "closed" => link' = "closed"
      BY <1>9 DEF Environment, ServerSends, ServerContinues, ServerCloses
    <2>. QED BY <1>9, <1>a, <2>1, EnvironmentEffect DEF bot, history
  <1>10. CASE UNCHANGED vars
    BY <1>10, <1>a DEF vars, bot, server, history
  <1>. QED
    BY <1>1, <1>2, <1>3, <1>4, <1>5, <1>6, <1>7, <1>8, <1>9, <1>10
    DEF Next, Run, Calls, Terminated

\* Every step keeps StreamInv.
LEMMA StreamStep ==
    ASSUME ConstantsAssumption, IInv, [Next]_vars
    PROVE  StreamInv'
  <1>. USE DEF StreamInv, NoLineStranded
  <1>a. TypeOK /\ StreamInv
    BY DEF IInv
  <1>1. CASE Calls
    BY <1>1, <1>a, CallsEffect DEF stream
  <1>2. CASE LogThrows
    BY <1>2, <1>a DEF LogThrows, Goto
  <1>3. CASE SendMessage \/ SendFails \/ SendKills \/ FinishResult
    BY <1>3, <1>a DEF SendMessage, SendFails, SendKills, FinishResult, stream
  <1>4. CASE PassDone
    <2>1. pc \in Passes /\ message' = {} /\ lines' = lines
      BY <1>4 DEF PassDone
    <2>2. pc = "onPacket" => pc' = "receiveMessage"
      BY <1>4 DEF PassDone, Goto
    <2>. QED BY <1>a, <2>1, <2>2 DEF Passes
  <1>5. CASE Sleep \/ RecreateSocket \/ RecreateFails
    BY <1>5, <1>a DEF Sleep, RecreateSocket, RecreateFails, stream
  <1>6. CASE ProcessMessage
    BY <1>6, <1>a DEF ProcessMessage, Goto
  <1>7. CASE Receive
    BY <1>7, <1>a DEF Receive, bot
  <1>8. CASE TakeLine
    BY <1>8, <1>a DEF TakeLine, StateReceived, Goto
  <1>9. CASE Environment
    BY <1>9, <1>a, EnvironmentEffect DEF bot, stream
  <1>10. CASE UNCHANGED vars
    BY <1>10, <1>a DEF vars, bot, stream
  <1>. QED
    BY <1>1, <1>2, <1>3, <1>4, <1>5, <1>6, <1>7, <1>8, <1>9, <1>10
    DEF Next, Run, Calls, Terminated

\* Every step keeps DisconnectedInv.
LEMMA DisconnectedStep ==
    ASSUME ConstantsAssumption, IInv, [Next]_vars
    PROVE  DisconnectedInv'
  <1>. USE DEF DisconnectedInv, NoSocketAbandoned
  <1>a. TypeOK /\ DisconnectedInv /\ ResultInv
    BY DEF IInv
  <1>b. CASE RecreateSocket
    <2>1. pc' # "onDisconnected" /\ pc' # "recreateSocket" /\ pc' # "exit" /\ state' # "DISCONNECTED"
      BY <1>a, <1>b DEF RecreateSocket, Goto, LoopBody, isConnected
    <2>. QED BY <2>1
  <1>c. ~RecreateSocket => (SocketIsOver => SocketIsOver')
    BY OverStays
  <1>1. CASE Calls
    <2>1. ~RecreateSocket
      BY <1>1, CallsEffect DEF RecreateSocket, Passes
    <2>2. UNCHANGED <<state, pc>>
      BY <1>1, CallsEffect
    <2>3. pc = "onDisconnected" => result'.newState # "CONNECTED" /\ result'.newState # "DISCONNECTING"
      BY <1>1, CallsEffect DEF ReversePasses
    <2>4. pc # "recreateSocket"
      BY <1>1, CallsEffect DEF Passes
    <2>. QED BY <1>a, <1>c, <2>1, <2>2, <2>3, <2>4
  <1>2. CASE LogThrows
    <2>1. ~RecreateSocket /\ pc' = "receiveMessage" /\ state' = state
      BY <1>2 DEF LogThrows, RecreateSocket, Goto
    <2>. QED BY <1>a, <1>c, <2>1
  <1>3. CASE SendMessage
    <2>1. pc \in Passes /\ pc' = pc /\ state' = state
      BY <1>3, <1>a DEF SendMessage, ResultInv
    <2>2. result'.newState = result.newState /\ result.given /\ ~RecreateSocket
      BY <1>3, <1>a, <2>1 DEF SendMessage, RecreateSocket, Passes, TypeOK, BotType, Result
    <2>. QED BY <1>a, <1>c, <2>1, <2>2 DEF Passes
  <1>4. CASE SendFails
    <2>1. pc \in Passes /\ pc' = pc /\ state' = "DISCONNECTED"
      BY <1>4, <1>a DEF SendFails, ResultInv
    <2>2. result'.newState = result.newState /\ result.given
      BY <1>4, <1>a DEF SendFails, TypeOK, BotType, Result
    <2>3. SocketIsOver'
      BY <1>4 DEF SendFails, SocketIsOver, server
    <2>. QED BY <1>a, <2>1, <2>2, <2>3 DEF Passes
  <1>5. CASE SendKills
    <2>1. pc' = "killed" /\ state' = state /\ SocketIsOver'
      BY <1>5 DEF SendKills, SocketIsOver, server
    <2>. QED BY <1>a, <2>1
  <1>6. CASE FinishResult
    <2>1. /\ pc \in Passes /\ pc' = pc /\ ~result'.given /\ ~RecreateSocket
          /\ state' = IF result.newState = "NOP" THEN state ELSE result.newState
      BY <1>6, <1>a DEF FinishResult, ResultInv, NoResult, RecreateSocket, Passes
    <2>2. result.newState \in States \cup {"NOP"}
      BY <1>a DEF TypeOK, BotType, Result
    <2>3. result.newState = "DISCONNECTED" => SocketIsOver
      <3>1. result.given /\ (result.messages = <<>> \/ state = "DISCONNECTED")
        BY <1>6 DEF FinishResult, isConnected
      <3>2. <<>> # <<"QUIT">>
        OBVIOUS
      <3>. QED BY <1>a, <3>1, <3>2 DEF ResultInv
    <2>. QED BY <1>6, <1>a, <1>c, <2>1, <2>2, <2>3 DEF Passes, States, FinishResult
  <1>7. CASE PassDone
    <2>1. ~result.given /\ result' = result /\ state' = state /\ ~RecreateSocket
      BY <1>7, <1>a DEF PassDone, ResultInv, RecreateSocket, Passes
    <2>2. pc' = "onDisconnected" => state = "DISCONNECTED"
      BY <1>7 DEF PassDone, Goto, Passes, isConnected
    <2>3. pc' = "recreateSocket" => pc = "onDisconnected" /\ isConnected
      BY <1>7 DEF PassDone, Goto, Passes, isConnected
    <2>4. pc' = "exit" => pc = "onDisconnected"
      BY <1>7 DEF PassDone, Goto, Passes, isConnected
    <2>. QED BY <1>a, <1>c, <2>1, <2>2, <2>3, <2>4 DEF isConnected
  <1>8. CASE Sleep \/ ProcessMessage \/ RecreateFails
    <2>1. /\ state' = state /\ ~RecreateSocket
          /\ pc' \notin {"onDisconnected", "recreateSocket", "exit"}
      BY <1>8 DEF Sleep, ProcessMessage, RecreateFails, RecreateSocket, Goto, LoopBody
    <2>. QED BY <1>a, <1>c, <2>1
  <1>9. CASE Receive
    <2>1. UNCHANGED <<state, pc, result>> /\ ~RecreateSocket
      BY <1>9 DEF Receive, bot, RecreateSocket
    <2>. QED BY <1>a, <1>c, <2>1 DEF isConnected
  <1>10. CASE TakeLine
    <2>1. ~result.given /\ result' = result /\ ~RecreateSocket
      BY <1>10, <1>a DEF TakeLine, ResultInv, Passes, RecreateSocket
    <2>2. state' = "DISCONNECTED" => SocketIsOver
      BY <1>10, <1>a DEF TakeLine, StateReceived, SocketIsOver
    <2>3. pc' = "onDisconnected" => state' = "DISCONNECTED"
      BY <1>10 DEF TakeLine, StateReceived, Goto, isConnected
    <2>4. pc' # "recreateSocket" /\ pc' # "exit"
      BY <1>10 DEF TakeLine, StateReceived, Goto
    <2>. QED BY <1>c, <2>1, <2>2, <2>3, <2>4
  <1>11. CASE Environment
    <2>1. SocketIsOver => SocketIsOver'
      BY <1>11 DEF Environment, ServerSends, ServerContinues, ServerCloses, SocketIsOver, history
    <2>. QED BY <1>11, <1>a, <2>1, EnvironmentEffect DEF bot, isConnected
  <1>12. CASE UNCHANGED vars
    BY <1>12, <1>a DEF vars, bot, server, history, SocketIsOver, isConnected
  <1>. QED
    BY <1>b, <1>1, <1>2, <1>3, <1>4, <1>5, <1>6, <1>7, <1>8, <1>9, <1>10, <1>11, <1>12
    DEF Next, Run, Calls, Terminated

\* Every step keeps GreetingInv.
LEMMA GreetingStep ==
    ASSUME ConstantsAssumption, IInv, [Next]_vars
    PROVE  GreetingInv'
  <1>. USE DEF GreetingInv, ConnectedIsWelcomed, Greeted
  <1>a. TypeOK /\ GreetingInv
    BY DEF IInv
  <1>1. CASE Calls
    <2>1. result'.newState = "CONNECTED" => \E m \in message : m.type = "ENDOFMOTD"
      BY <1>1, CallsEffect
    <2>2. UNCHANGED <<state, message, partial, cut, lines, wire, welcomed, leftover>>
      BY <1>1, CallsEffect DEF stream, server, history
    <2>. QED BY <1>a, <2>1, <2>2
  <1>2. CASE LogThrows \/ PassDone
    <2>1. UNCHANGED <<state, result, partial, cut, lines, wire, welcomed, leftover>> /\ message' = {}
      BY <1>2 DEF LogThrows, PassDone, server, history
    <2>. QED BY <1>a, <2>1
  <1>3. CASE SendMessage
    <2>1. UNCHANGED <<state, message, partial, cut, lines, wire, welcomed, leftover>>
      BY <1>3 DEF SendMessage, stream, server
    <2>2. result'.newState = result.newState /\ result'.given = result.given
      BY <1>3, <1>a DEF SendMessage, TypeOK, BotType, Result
    <2>. QED BY <1>a, <2>1, <2>2
  <1>4. CASE SendFails
    <2>1. UNCHANGED <<message, partial, cut, lines, wire, welcomed, leftover>>
      BY <1>4 DEF SendFails, stream, server, history
    <2>2. /\ result'.newState = result.newState /\ result'.given = result.given
          /\ state' = "DISCONNECTED"
      BY <1>4, <1>a DEF SendFails, TypeOK, BotType, Result
    <2>. QED BY <1>a, <2>1, <2>2
  <1>5. CASE SendKills \/ FinishResult
    <2>1. UNCHANGED <<message, partial, cut, lines, wire, welcomed, leftover>> /\ ~result'.given
      BY <1>5 DEF SendKills, FinishResult, NoResult, stream, server, history
    <2>2. result.given
      BY <1>5 DEF SendKills, FinishResult
    <2>3. state' = state \/ state' = result.newState
      BY <1>5 DEF SendKills, FinishResult
    <2>. QED BY <1>a, <2>1, <2>2, <2>3
  <1>6. CASE Sleep \/ RecreateFails
    BY <1>6, <1>a DEF Sleep, RecreateFails, stream, server, history
  <1>7. CASE Receive
    <2>. DEFINE piece == Head(wire)
                read  == partial \cup {piece.message}
                           \cup (IF partial = {} \/ piece.part = "tail" THEN {} ELSE {Unparsable})
    <2>1. UNCHANGED <<state, result, message, cut, welcomed, leftover>>
      BY <1>7 DEF Receive, bot, history
    <2>2. wire # <<>> /\ wire' = Tail(wire) /\ wire \in Seq(Pieces) /\ lines \in Seq(Message)
      BY <1>7, <1>a DEF Receive, TypeOK, ServerType, StreamType
    <2>3. \A n \in DOMAIN wire' : wire'[n].message.type = "ENDOFMOTD" => Greeted
      <3>1. \A n \in DOMAIN wire' : n + 1 \in DOMAIN wire /\ wire'[n] = wire[n + 1]
        BY <2>2, HeadTailProperties
      <3>. QED BY <1>a, <3>1
    <2>4. \A line \in read : line.type = "ENDOFMOTD" => Greeted
      <3>1. piece.message.type = "ENDOFMOTD" => Greeted
        <4>1. 1 \in DOMAIN wire /\ piece = wire[1]
          BY <2>2, HeadTailProperties
        <4>. QED BY <1>a, <4>1
      <3>2. Unparsable.type # "ENDOFMOTD"
        BY DEF Unparsable
      <3>. QED BY <1>a, <3>1, <3>2
    <2>5. /\ partial' \subseteq read
          /\ lines' = lines \/ \E line \in read : lines' = Append(lines, line)
      BY <1>7 DEF Receive
    <2>. HIDE DEF piece, read
    <2>6. \A n \in DOMAIN lines' : lines'[n].type = "ENDOFMOTD" => Greeted
      <3>1. CASE lines' = lines
        BY <1>a, <3>1
      <3>2. ASSUME NEW line \in read, lines' = Append(lines, line)
            PROVE  \A n \in DOMAIN lines' : lines'[n].type = "ENDOFMOTD" => Greeted
        <4>1. \A n \in DOMAIN lines' :
                (n \in DOMAIN lines /\ lines'[n] = lines[n]) \/ lines'[n] = line
          BY <2>2, <3>2
        <4>. QED BY <1>a, <2>4, <4>1
      <3>. QED BY <2>5, <3>1, <3>2
    <2>. QED BY <1>a, <2>1, <2>3, <2>4, <2>5, <2>6
  <1>8. CASE TakeLine
    <2>1. /\ UNCHANGED <<result, partial, wire, cut, welcomed, leftover>>
          /\ state' = state \/ state' = "DISCONNECTED"
      BY <1>8 DEF TakeLine, StateReceived, server
    <2>2. lines \in Seq(Message)
      BY <1>a DEF TypeOK, StreamType
    <2>3. CASE lines # <<>>
      <3>1. message' = {Head(lines)} /\ lines' = Tail(lines)
        BY <1>8, <2>3 DEF TakeLine
      <3>2. /\ 1 \in DOMAIN lines /\ Head(lines) = lines[1]
            /\ \A n \in DOMAIN lines' : n + 1 \in DOMAIN lines /\ lines'[n] = lines[n + 1]
        BY <2>2, <2>3, <3>1, HeadTailProperties
      <3>. QED BY <1>a, <2>1, <3>1, <3>2
    <2>4. CASE lines = <<>>
      <3>1. UNCHANGED <<message, lines>>
        BY <1>8, <2>4 DEF TakeLine
      <3>. QED BY <1>a, <2>1, <3>1
    <2>. QED BY <2>3, <2>4
  <1>9. CASE ProcessMessage
    <2>1. UNCHANGED <<state, result, partial, lines, wire, cut, welcomed, leftover>>
      BY <1>9 DEF ProcessMessage, server, history
    <2>2. message' \subseteq message
      BY <1>9 DEF ProcessMessage
    <2>. QED BY <1>a, <2>1, <2>2
  <1>10. CASE RecreateSocket
    <2>1. ~result.given /\ state = "CONNECTING" /\ lines = <<>> /\ message = {}
      BY <1>10 DEF RecreateSocket, IInv, ResultInv, DisconnectedInv, StreamInv,
                   NoLineStranded, isConnected, Passes
    <2>2. /\ UNCHANGED <<state, result, message, partial, lines>>
          /\ wire' = <<>> /\ cut' = {} /\ leftover' = (partial # {})
      BY <1>10 DEF RecreateSocket, stream
    <2>3. \A m \in message' \cup partial' \cup cut' : leftover'
      BY <2>1, <2>2
    <2>4. DOMAIN lines' = {} /\ DOMAIN wire' = {}
      BY <2>1, <2>2
    <2>5. ~result'.given /\ state' = "CONNECTING"
      BY <2>1, <2>2
    <2>. QED BY <2>3, <2>4, <2>5
  <1>11. CASE ServerSends
    <2>1. PICK m \in Messages, part \in {"whole", "head"} :
            /\ wire' = Append(wire, [part |-> part, message |-> m])
            /\ cut' = IF part = "head" THEN {m} ELSE {}
            /\ welcomed' = (welcomed \/ m.type = "ENDOFMOTD")
      BY <1>11 DEF ServerSends
    <2>2. UNCHANGED <<state, result, message, partial, lines, leftover>> /\ wire \in Seq(Pieces)
      BY <1>11, <1>a DEF ServerSends, bot, stream, history, TypeOK, ServerType
    <2>3. (welcomed => welcomed') /\ (m.type = "ENDOFMOTD" => welcomed')
      BY <2>1
    <2>4. \A n \in DOMAIN wire' : (n \in DOMAIN wire /\ wire'[n] = wire[n]) \/ wire'[n].message = m
      BY <2>1, <2>2
    <2>5. \A c \in cut' : c = m
      BY <2>1
    <2>. QED BY <1>a, <2>2, <2>3, <2>4, <2>5
  <1>12. CASE ServerContinues
    <2>1. PICK m \in cut : wire' = Append(wire, [part |-> "tail", message |-> m])
      BY <1>12 DEF ServerContinues
    <2>2. /\ UNCHANGED <<state, result, message, partial, lines, leftover, welcomed>> /\ cut' = {}
          /\ wire \in Seq(Pieces)
      BY <1>12, <1>a DEF ServerContinues, bot, stream, history, TypeOK, ServerType
    <2>3. \A n \in DOMAIN wire' : (n \in DOMAIN wire /\ wire'[n] = wire[n]) \/ wire'[n].message = m
      BY <2>1, <2>2
    <2>. QED BY <1>a, <2>1, <2>2, <2>3
  <1>13. CASE ServerCloses
    BY <1>13, <1>a DEF ServerCloses, bot, stream, history
  <1>14. CASE UNCHANGED vars
    BY <1>14, <1>a DEF vars, bot, stream, server, history
  <1>. QED
    BY <1>1, <1>2, <1>3, <1>4, <1>5, <1>6, <1>7, <1>8, <1>9, <1>10, <1>11, <1>12, <1>13, <1>14
    DEF Next, Run, Calls, Environment, Terminated

\* IInv is inductive.
LEMMA InitInv ==
    ASSUME ConstantsAssumption, Init
    PROVE  IInv
  <1>1. TypeOK
    BY InitType
  <1>2. /\ state = "CONNECTING" /\ pc = "onConnect" /\ result = NoResult
        /\ message = {} /\ partial = {} /\ cut = {} /\ eof = FALSE
        /\ lines = <<>> /\ wire = <<>>
    BY DEF Init
  <1>3. ~result.given
    BY <1>2 DEF NoResult
  <1>4. ResultInv /\ DisconnectedInv /\ LossInv /\ StreamInv
    BY <1>2, <1>3 DEF ResultInv, DisconnectedInv, NoSocketAbandoned, LossInv,
                      LossIsNoticedAtOnce, StreamInv, NoLineStranded
  <1>5. GreetingInv
    BY <1>2, <1>3 DEF GreetingInv, ConnectedIsWelcomed
  <1>. QED BY <1>1, <1>4, <1>5 DEF IInv

LEMMA InvStep ==
    ASSUME ConstantsAssumption, IInv, [Next]_vars
    PROVE  IInv'
  <1>1. TypeOK'
    BY NextType DEF IInv
  <1>. QED
    BY <1>1, ResultStep, DisconnectedStep, LossStep, StreamStep, GreetingStep DEF IInv

\* IInv holds in every state the bot reaches.
LEMMA Invariance == Spec => []IInv
  <1>1. Init => IInv
    BY InitInv, ConstantsAssumption
  <1>2. IInv /\ [Next]_vars => IInv'
    BY InvStep, ConstantsAssumption
  <1>. QED BY <1>1, <1>2, PTL DEF Spec

\* run() gives up a socket only after its QUIT or its loss, whatever plug-ins are
\* registered at whatever priorities.
THEOREM SocketsAreKept == Spec => []NoSocketAbandoned
  <1>1. IInv => NoSocketAbandoned
    BY DEF IInv, DisconnectedInv
  <1>. QED BY <1>1, Invariance, PTL

\* Once receive() has failed, run() goes to the onDisconnect() pass without a time
\* trigger, a QUIT or a sleep in between, whatever is left in the buffer.
THEOREM LossIsNoticed == Spec => []LossIsNoticedAtOnce
  <1>1. IInv => LossIsNoticedAtOnce
    BY DEF IInv, LossInv
  <1>. QED BY <1>1, Invariance, PTL

\* No complete line stays in ZeroBot::buffer when receiveMessages() has returned.
THEOREM LinesAreProcessed == Spec => []NoLineStranded
  <1>1. IInv => NoLineStranded
    BY DEF IInv, StreamInv
  <1>. QED BY <1>1, Invariance, PTL

\* CONNECTED means that this socket's server has sent the end of its greeting, or
\* that an unfinished line was taken over from the socket before.
THEOREM GreetingPrecedesConnected == Spec => []ConnectedIsWelcomed
  <1>1. IInv => ConnectedIsWelcomed
    BY DEF IInv, GreetingInv
  <1>. QED BY <1>1, Invariance, PTL

-----------------------------------------------------------------------------
(* A pass over the plug-ins.                                               *)

\* The order in which the current pass meets the plug-ins of P.
Meets(P, i, j) == IF pc \in ReversePasses THEN Before(P, j, i) ELSE Before(P, i, j)

\* The current pass has still to call plug-in i.
ToCome(i) ==
    /\ it # End
    /\ (i = it /\ ~result.given) \/ Meets(plugIns, it, i)

\* Q has the plug-ins of P at their priorities, and maybe others.
Keeps(P, Q) ==
    \A i \in DOMAIN P \cap DOMAIN Q : P[i].priority = Q[i].priority

LEMMA BeforeIsAnOrder ==
    ASSUME NEW P, NEW i, NEW j, NEW k, i \in Int, j \in Int, k \in Int,
           P[i].priority \in Int, P[j].priority \in Int, P[k].priority \in Int
    PROVE  /\ Before(P, i, j) /\ Before(P, j, k) => Before(P, i, k)
           /\ ~ Before(P, i, i)
  BY DEF Before

LEMMA PlugInsAre ==
    ASSUME TypeOK
    PROVE  /\ End \notin DOMAIN plugIns
           /\ \A i \in DOMAIN plugIns : /\ i \in Int /\ plugIns[i] \in PlugIn
                                        /\ plugIns[i].priority \in Int
  BY DEF TypeOK, BotType, End, PlugIn

\* A pass that begins has every plug-in to come.
LEMMA PassBegins ==
    ASSUME TypeOK, NEW pass \in Passes, Goto(pass), UNCHANGED plugIns, ~result'.given,
           NEW i \in DOMAIN plugIns
    PROVE  ToCome(i)'
  <1>1. pc' = pass /\ it' \in Foremost(plugIns, pass, DOMAIN plugIns)
    BY DEF Goto
  <1>2. /\ it' \in DOMAIN plugIns
        /\ i = it' \/ IF pass \in ReversePasses THEN Before(plugIns, i, it') ELSE Before(plugIns, it', i)
    BY <1>1 DEF Foremost
  <1>3. it' # End
    BY <1>2, PlugInsAre
  <1>. QED BY <1>1, <1>2, <1>3 DEF ToCome, Meets

\* it++ neither skips a plug-in nor goes back to one.
LEMMA PassGoesOn ==
    ASSUME TypeOK, TypeOK', it # End, pc' = pc, ~result'.given,
           NEW P, it' \in Following(P), it \in DOMAIN P,
           DOMAIN P = DOMAIN plugIns', Keeps(P, plugIns'), Keeps(plugIns, P),
           NEW i \in DOMAIN P \cap DOMAIN plugIns, i # it
    PROVE  ToCome(i)' <=> ToCome(i)
  <1>. DEFINE later == {j \in DOMAIN P \ {it} : Meets(P, it, j)}
  <1>1. /\ End \notin DOMAIN P
        /\ \A j \in DOMAIN P : j \in Int /\ P[j].priority \in Int
        /\ \A j \in DOMAIN P : P[j].priority = plugIns'[j].priority
    <2>1. End \notin DOMAIN plugIns' /\ \A j \in DOMAIN plugIns' : j \in Int /\ plugIns'[j].priority \in Int
      BY DEF TypeOK, BotType, End, PlugIn
    <2>. QED BY <2>1 DEF Keeps
  <1>2. it \in DOMAIN plugIns /\ \A j \in {i, it} : plugIns[j].priority = P[j].priority
    BY DEF Keeps, TypeOK, BotType
  <1>3. it' \in Foremost(P, pc, later)
    BY DEF Following, Meets
  <1>4. ToCome(i) <=> i \in later
    BY <1>2 DEF ToCome, Meets, Before
  <1>5. ToCome(i)' <=> it' # End /\ (i = it' \/ Meets(P, it', i))
    <2>1. it' # End => it' \in DOMAIN P
      BY <1>3 DEF Foremost
    <2>. QED BY <1>1, <2>1 DEF ToCome, Meets, Before
  <1>6. CASE later = {}
    BY <1>3, <1>4, <1>5, <1>6 DEF Foremost
  <1>7. CASE later # {}
    <2>1. it' \in later /\ \A j \in later \ {it'} : Meets(P, it', j)
      BY <1>3, <1>7 DEF Foremost, Meets
    <2>2. it' # End
      BY <1>1, <2>1
    <2>3. Meets(P, it', i) => Meets(P, it, i)
      BY <1>1, <2>1, BeforeIsAnOrder DEF Meets
    <2>. QED BY <1>4, <1>5, <2>1, <2>2, <2>3
  <1>. QED BY <1>6, <1>7

\* As long as the result of a call is worked off, nothing changes about what is to come.
LEMMA PassStays ==
    ASSUME UNCHANGED <<pc, it>>, it \in DOMAIN plugIns', DOMAIN plugIns' = DOMAIN plugIns,
           Keeps(plugIns, plugIns'), NEW i \in DOMAIN plugIns, i # it
    PROVE  ToCome(i)' <=> ToCome(i)
  BY DEF ToCome, Meets, Before, Keeps

-----------------------------------------------------------------------------
(* Who is registered: main() registers one PlugInConnect first and one     *)
(* PlugInDisconnect second, neither is ever unregistered, and all that is  *)
(* registered later are PlugInJoins.                                       *)

Resettable == {"connect", "join", "nickserv"}

\* A plug-in as main() and the plug-ins register them after the first two.
Ordinary(p) ==
    /\ p.kind \notin {"connect", "disconnect"}
    /\ p.kind = "reconnect" => Reconnect /\ p.priority = -20

LineUp(P) ==
    /\ 1 \in DOMAIN P /\ P[1].kind = "connect"
    /\ 2 \in DOMAIN P /\ P[2].kind = "disconnect" /\ P[2].priority \in DisconnectPriorities
    /\ \A i \in DOMAIN P \ {1, 2} : Ordinary(P[i])

Reconnects(P) == \E i \in DOMAIN P : P[i].kind = "reconnect"

LineUpInv == LineUp(plugIns) /\ (Reconnect => Reconnects(plugIns))

\* Ordinary plug-ins registered at the end leave the line-up as it was.
LEMMA LineUpGrows ==
    ASSUME NEW s \in Seq(PlugIn), NEW t \in Seq(PlugIn), LineUp(s),
           \A n \in DOMAIN t : Ordinary(t[n])
    PROVE  LineUp(s \o t) /\ s \o t \in Seq(PlugIn) /\ (s \o t)[1] = s[1]
  <1>1. /\ s \o t \in Seq(PlugIn) /\ DOMAIN (s \o t) = 1..(Len(s) + Len(t))
        /\ DOMAIN s = 1..Len(s) /\ DOMAIN t = 1..Len(t)
        /\ Len(s) \in Nat /\ Len(t) \in Nat
    OBVIOUS
  <1>2. \A i \in DOMAIN s : i \in DOMAIN (s \o t) /\ (s \o t)[i] = s[i]
    BY <1>1
  <1>3. \A i \in DOMAIN (s \o t) \ DOMAIN s : i - Len(s) \in DOMAIN t /\ (s \o t)[i] = t[i - Len(s)]
    BY <1>1
  <1>. QED BY <1>1, <1>2, <1>3 DEF LineUp

\* main() registers the plug-ins in this line-up, PlugInConnect with nothing to remember.
LEMMA StartupLineUp ==
    ASSUME ConstantsAssumption, NEW priority \in DisconnectPriorities
    PROVE  /\ LineUp(Startup(priority)) /\ (Reconnect => Reconnects(Startup(priority)))
           /\ Startup(priority)[1].memory = "NOP"
  <1>. DEFINE When(wanted, plugIn) == IF wanted THEN <<plugIn>> ELSE <<>>
              joins == JoinArgs \o LogArgs
              a == << NewPlugIn("connect", -10, NoChannel, "NOP"),
                      NewPlugIn("disconnect", priority, NoChannel, "NOP"),
                      NewPlugIn("pingpong", 0, NoChannel, "NOP") >>
              b == [n \in DOMAIN joins |-> PlugInJoin(joins[n])]
              c == [n \in DOMAIN LogArgs |-> NewPlugIn("log", 0, LogArgs[n], "NOP")]
              d == When(Title, NewPlugIn("urltitle", 5, NoChannel, "NOP"))
              e == << NewPlugIn("admin", 0, NoChannel, NoNick) >>
              f == When(Identify, NewPlugIn("nickserv", -5, NoChannel, "NOP"))
              g == When(Reconnect, NewPlugIn("reconnect", -20, NoChannel, "NOP"))
  <1>1. \A k \in Kinds, x \in Int, ch \in Channels \cup {NoChannel}, m \in {"NOP", NoNick} :
          /\ NewPlugIn(k, x, ch, m) \in PlugIn
          /\ NewPlugIn(k, x, ch, m).kind = k /\ NewPlugIn(k, x, ch, m).priority = x
          /\ NewPlugIn(k, x, ch, m).memory = m
    BY DEF NewPlugIn, PlugIn, Memories
  <1>2. \A k \in Kinds \ {"connect", "disconnect", "reconnect"}, x \in Int,
           ch \in Channels \cup {NoChannel}, m \in {"NOP", NoNick} :
          NewPlugIn(k, x, ch, m) \in PlugIn /\ Ordinary(NewPlugIn(k, x, ch, m))
    <2>. TAKE k \in Kinds \ {"connect", "disconnect", "reconnect"}, x \in Int,
              ch \in Channels \cup {NoChannel}, m \in {"NOP", NoNick}
    <2>1. NewPlugIn(k, x, ch, m) \in PlugIn /\ NewPlugIn(k, x, ch, m).kind = k
      BY <1>1
    <2>. QED BY <2>1 DEF Ordinary
  <1>3. /\ {"pingpong", "join", "log", "urltitle", "admin", "nickserv"}
             \subseteq Kinds \ {"connect", "disconnect", "reconnect"}
        /\ {"connect", "disconnect", "reconnect"} \subseteq Kinds
    BY DEF Kinds
  <1>4. a \in Seq(PlugIn) /\ LineUp(a) /\ a[1].memory = "NOP"
    <2>1. /\ a \in Seq(PlugIn) /\ DOMAIN a = 1..3
          /\ a[1] = NewPlugIn("connect", -10, NoChannel, "NOP")
          /\ a[2] = NewPlugIn("disconnect", priority, NoChannel, "NOP")
          /\ a[3] = NewPlugIn("pingpong", 0, NoChannel, "NOP")
      BY <1>1, <1>3 DEF ConstantsAssumption
    <2>2. priority \in Int /\ a[1].memory = "NOP" /\ a[1].kind = "connect" /\ a[2].kind = "disconnect" /\ a[2].priority = priority
      BY <1>1, <1>3, <2>1 DEF ConstantsAssumption
    <2>3. Ordinary(a[3])
      BY <1>2, <1>3, <2>1
    <2>. HIDE DEF a
    <2>. QED BY <2>1, <2>2, <2>3 DEF LineUp
  <1>5. b \in Seq(PlugIn) /\ \A n \in DOMAIN b : Ordinary(b[n])
    <2>1. joins \in Seq(Channels)
      BY DEF ConstantsAssumption
    <2>. HIDE DEF joins
    <2>2. \A n \in DOMAIN joins : PlugInJoin(joins[n]) \in PlugIn /\ Ordinary(PlugInJoin(joins[n]))
      BY <1>2, <1>3, <2>1 DEF PlugInJoin
    <2>3. b \in [1..Len(joins) -> PlugIn] /\ Len(joins) \in Nat
      BY <2>1, <2>2
    <2>. QED BY <2>2, <2>3, SeqDef
  <1>6. c \in Seq(PlugIn) /\ \A n \in DOMAIN c : Ordinary(c[n])
    <2>1. LogArgs \in Seq(Channels)
      BY DEF ConstantsAssumption
    <2>2. \A n \in DOMAIN LogArgs : /\ NewPlugIn("log", 0, LogArgs[n], "NOP") \in PlugIn
                                    /\ Ordinary(NewPlugIn("log", 0, LogArgs[n], "NOP"))
      BY <1>2, <1>3, <2>1
    <2>3. c \in [1..Len(LogArgs) -> PlugIn] /\ Len(LogArgs) \in Nat
      BY <2>1, <2>2
    <2>. QED BY <2>2, <2>3, SeqDef
  <1>7. \A p \in PlugIn : Ordinary(p) =>
          \A wanted : /\ When(wanted, p) \in Seq(PlugIn) /\ <<p>> \in Seq(PlugIn)
                      /\ \A n \in DOMAIN When(wanted, p) : Ordinary(When(wanted, p)[n])
                      /\ \A n \in DOMAIN <<p>> : Ordinary(<<p>>[n])
    OBVIOUS
  <1>8. d \in Seq(PlugIn) /\ \A n \in DOMAIN d : Ordinary(d[n])
    BY <1>2, <1>3, <1>7
  <1>9. e \in Seq(PlugIn) /\ \A n \in DOMAIN e : Ordinary(e[n])
    BY <1>2, <1>3, <1>7
  <1>10. f \in Seq(PlugIn) /\ \A n \in DOMAIN f : Ordinary(f[n])
    BY <1>2, <1>3, <1>7
  <1>11. /\ g \in Seq(PlugIn) /\ \A n \in DOMAIN g : Ordinary(g[n])
         /\ Reconnect => g = << NewPlugIn("reconnect", -20, NoChannel, "NOP") >>
    <2>1. Reconnect => Ordinary(NewPlugIn("reconnect", -20, NoChannel, "NOP"))
      BY <1>1, <1>3 DEF Ordinary
    <2>. QED BY <1>1, <1>3, <2>1
  <1>12. Startup(priority) = a \o b \o c \o d \o e \o f \o g
    BY DEF Startup
  <1>. HIDE DEF a, b, c, d, e, f, g, When, joins
  <1>13. LineUp(a \o b \o c \o d \o e \o f) /\ a \o b \o c \o d \o e \o f \in Seq(PlugIn) /\ (a \o b \o c \o d \o e \o f)[1] = a[1]
    <2>1. LineUp(a \o b) /\ a \o b \in Seq(PlugIn) /\ (a \o b)[1] = a[1]
      BY <1>4, <1>5, LineUpGrows
    <2>2. LineUp(a \o b \o c) /\ a \o b \o c \in Seq(PlugIn) /\ (a \o b \o c)[1] = a[1]
      BY <1>6, <2>1, LineUpGrows
    <2>3. LineUp(a \o b \o c \o d) /\ a \o b \o c \o d \in Seq(PlugIn) /\ (a \o b \o c \o d)[1] = a[1]
      BY <1>8, <2>2, LineUpGrows
    <2>4. LineUp(a \o b \o c \o d \o e) /\ a \o b \o c \o d \o e \in Seq(PlugIn) /\ (a \o b \o c \o d \o e)[1] = a[1]
      BY <1>9, <2>3, LineUpGrows
    <2>. QED BY <1>10, <2>4, LineUpGrows
  <1>14. LineUp(Startup(priority)) /\ Startup(priority)[1].memory = "NOP"
    <2>. DEFINE s == a \o b \o c \o d \o e \o f
    <2>1. Startup(priority) = s \o g /\ s \in Seq(PlugIn) /\ LineUp(s) /\ s[1].memory = "NOP"
      BY <1>4, <1>12, <1>13
    <2>2. g \in Seq(PlugIn) /\ \A n \in DOMAIN g : Ordinary(g[n])
      BY <1>11
    <2>. HIDE DEF s
    <2>. QED BY <2>1, <2>2, LineUpGrows
  <1>15. ASSUME Reconnect
         PROVE  Reconnects(Startup(priority))
    <2>. DEFINE s == a \o b \o c \o d \o e \o f
                p == NewPlugIn("reconnect", -20, NoChannel, "NOP")
    <2>1. s \in Seq(PlugIn) /\ Startup(priority) = s \o <<p>> /\ p \in PlugIn /\ p.kind = "reconnect"
      <3>1. g = <<p>>
        BY <1>11, <1>15
      <3>2. "reconnect" \in Kinds /\ -20 \in Int /\ NoChannel \in Channels \cup {NoChannel}
        BY <1>3
      <3>3. p \in PlugIn /\ p.kind = "reconnect"
        BY <1>1, <3>2
      <3>. QED BY <1>12, <1>13, <3>1, <3>3
    <2>. HIDE DEF s, p
    <2>2. Len(s) + 1 \in DOMAIN (s \o <<p>>) /\ (s \o <<p>>)[Len(s) + 1] = p
      BY <2>1
    <2>. QED BY <2>1, <2>2 DEF Reconnects
  <1>. QED BY <1>14, <1>15

-----------------------------------------------------------------------------
(* What the steps of a pass do to the plug-ins, and what the handlers ask.  *)

\* Only FinishResult changes who is registered: it takes away and adds PlugInJoins.
LEMMA RegistryEffect ==
    ASSUME FinishResult
    PROVE  /\ \A i \in DOMAIN plugIns : plugIns[i].kind # "join" => i \in DOMAIN plugIns'
           /\ \A i \in DOMAIN plugIns \cap DOMAIN plugIns' : plugIns'[i] = plugIns[i]
           /\ \A i \in DOMAIN plugIns' \ DOMAIN plugIns : \E c : plugIns'[i] = PlugInJoin(c)
  <1>. DEFINE R == registerPlugIns(plugIns, result.register)
  <1>1. /\ DOMAIN plugIns \subseteq DOMAIN R
        /\ \A i \in DOMAIN plugIns : R[i] = plugIns[i]
        /\ \A i \in DOMAIN R \ DOMAIN plugIns : \E c : R[i] = PlugInJoin(c)
    BY DEF registerPlugIns
  <1>. HIDE DEF R
  <1>2. plugIns' = unregisterPlugIns(R, result.unregister)
    BY DEF FinishResult, PlugInsLeft, R
  <1>3. /\ DOMAIN plugIns' \subseteq DOMAIN R
        /\ \A i \in DOMAIN plugIns' : plugIns'[i] = R[i]
        /\ \A i \in DOMAIN R : R[i].kind # "join" => i \in DOMAIN plugIns'
    BY <1>2 DEF unregisterPlugIns
  <1>. QED BY <1>1, <1>3

\* The other steps change at most what a plug-in remembers.
LEMMA OthersKeepPlugIns ==
    ASSUME TypeOK, [Next]_vars, ~FinishResult
    PROVE  /\ DOMAIN plugIns' = DOMAIN plugIns
           /\ \A i \in DOMAIN plugIns : /\ plugIns'[i].kind = plugIns[i].kind
                                        /\ plugIns'[i].priority = plugIns[i].priority
  <1>1. ASSUME NEW outcomes, Call(outcomes)
        PROVE  /\ DOMAIN plugIns' = DOMAIN plugIns
               /\ \A i \in DOMAIN plugIns : /\ plugIns'[i].kind = plugIns[i].kind
                                            /\ plugIns'[i].priority = plugIns[i].priority
    <2>1. PICK x : plugIns' = [plugIns EXCEPT ![it].memory = x]
      BY <1>1 DEF Call
    <2>. QED BY <2>1, PlugInsAre DEF PlugIn
  <1>2. CASE Calls
    BY <1>1, <1>2 DEF Calls, CallOnConnect, CallOnPacket, CallOnTimeTrigger, CallOnDisconnect
  <1>3. CASE SendMessage
    <2>1. \A q \in PlugIn : \A c : /\ onPacketSent(q, c).kind = q.kind
                                   /\ onPacketSent(q, c).priority = q.priority
      BY DEF onPacketSent, PlugIn
    <2>. QED BY <1>3, <2>1, PlugInsAre DEF SendMessage
  <1>4. CASE UNCHANGED plugIns
    BY <1>4
  <1>5. Calls \/ SendMessage \/ UNCHANGED plugIns
    BY DEF Next, Run, Calls, Environment, Terminated, vars, bot, LogThrows, SendFails, SendKills,
           PassDone, Sleep, Receive, TakeLine, ProcessMessage, RecreateSocket, RecreateFails,
           ServerSends, ServerContinues, ServerCloses
  <1>. QED BY <1>2, <1>3, <1>4, <1>5

\* LineUpInv is inductive.
LEMMA LineUpStep ==
    ASSUME TypeOK, LineUpInv, [Next]_vars
    PROVE  LineUpInv'
  <1>1. CASE FinishResult
    <2>1. \A c : Ordinary(PlugInJoin(c)) /\ PlugInJoin(c).kind = "join"
      BY DEF Ordinary, PlugInJoin, NewPlugIn
    <2>2. LineUp(plugIns)' /\ (Reconnects(plugIns) => Reconnects(plugIns)')
      BY <1>1, <2>1, RegistryEffect DEF LineUpInv, LineUp, Reconnects
    <2>. QED BY <2>2 DEF LineUpInv
  <1>2. CASE ~FinishResult
    BY <1>2, OthersKeepPlugIns DEF LineUpInv, LineUp, Reconnects, Ordinary
  <1>. QED BY <1>1, <1>2

\* None of these messages opens or ends a session.
JustTalks(r) == \A n \in DOMAIN r.messages : r.messages[n] \notin {"NICK", "USER", "QUIT"}

LEMMA OutcomesAre ==
    /\ \A p : Nothing(p) = Outcome(p.memory, NoResult)
    /\ \A x, r : Outcome(x, r).memory = x /\ Outcome(x, r).result = r
    /\ \A x, ms : /\ Sends(x, ms).memory = x /\ Sends(x, ms).result.given
                  /\ Sends(x, ms).result.messages = ms /\ Sends(x, ms).result.newState = "NOP"
    /\ \A x, s : /\ Moves(x, s).memory = x /\ Moves(x, s).result.given
                 /\ Moves(x, s).result.messages = <<>> /\ Moves(x, s).result.newState = s
    /\ ~NoResult.given /\ NoResult.messages = <<>> /\ NoResult.newState = "NOP"
    /\ PlugInResult.given /\ PlugInResult.messages = <<>> /\ PlugInResult.newState = "NOP"
  BY DEF Nothing, Sends, Moves, Outcome, PlugInResult, NoResult

\* Between the handshake and QUIT the plug-ins say neither; the plug-in connect
\* keeps in mind that it has greeted.
LEMMA HandlersSay ==
    ASSUME NEW p, NEW m
    PROVE  \A o \in onPacket(p, m) \cup onTimeTrigger(p) :
                JustTalks(o.result) /\ (p.kind = "connect" => o.memory = p.memory)
  <1>. USE OutcomesAre
  <1>1. \A r : r.messages \in {<<>>, <<"PONG">>, <<"PRIVMSG">>, <<"JOIN">>, <<"PING">>}
                 => JustTalks(r)
    BY DEF JustTalks
  <1>2. /\ JustTalks(NoResult) /\ JustTalks(PlugInResult) /\ JustTalks(Nothing(p).result)
        /\ Nothing(p).memory = p.memory
    BY <1>1
  <1>3. \A x, s : JustTalks(Moves(x, s).result)
    BY <1>1
  <1>4. \A x : \A ms \in {<<"PONG">>, <<"PRIVMSG">>, <<"JOIN">>, <<"PING">>} :
          JustTalks(Sends(x, ms).result)
    BY <1>1
  <1>5. \A o \in onPacket(p, m) : JustTalks(o.result) /\ (p.kind = "connect" => o.memory = p.memory)
    <2>1. \A o \in ConnectOnPacket(p, m) : JustTalks(o.result) /\ o.memory = p.memory
      BY <1>2, <1>3 DEF ConnectOnPacket
    <2>2. \A o \in JoinOnPacket(p, m) : JustTalks(o.result)
      BY <1>2 DEF JoinOnPacket
    <2>3. \A o \in PingPongOnPacket(p, m) : JustTalks(o.result)
      BY <1>2, <1>4 DEF PingPongOnPacket
    <2>4. \A o \in URLTitleOnPacket(p, m) : JustTalks(o.result)
      BY <1>2, <1>4 DEF URLTitleOnPacket
    <2>5. JustTalks(AdminCommand(m))
      <3>1. /\ JustTalks([PlugInResult EXCEPT !.messages = <<"PRIVMSG">>])
            /\ JustTalks([PlugInResult EXCEPT !.newState = "DISCONNECTING"])
            /\ JustTalks([PlugInResult EXCEPT !.register = m.arguments])
        BY <1>1 DEF PlugInResult
      <3>2. \A cs : JustTalks([PlugInResult EXCEPT !.messages = [n \in DOMAIN cs |-> "PART"],
                                                     !.unregister = cs])
        BY DEF PlugInResult, JustTalks
      <3>. QED BY <1>2, <3>1, <3>2 DEF AdminCommand
    <2>6. \A o \in AdminOnPacket(p, m) : JustTalks(o.result)
      BY <1>2, <2>5 DEF AdminOnPacket
    <2>. QED BY <1>2, <2>1, <2>2, <2>3, <2>4, <2>6 DEF onPacket
  <1>6. \A o \in onTimeTrigger(p) : JustTalks(o.result) /\ (p.kind = "connect" => o.memory = p.memory)
    <2>1. \A o \in JoinOnTimeTrigger(p) : JustTalks(o.result)
      BY <1>2, <1>4 DEF JoinOnTimeTrigger
    <2>2. \A o \in NickServOnTimeTrigger(p) : JustTalks(o.result)
      BY <1>2, <1>4 DEF NickServOnTimeTrigger
    <2>3. \A o \in PingPongOnTimeTrigger(p) : JustTalks(o.result)
      BY <1>2, <1>3, <1>4 DEF PingPongOnTimeTrigger
    <2>. QED BY <1>2, <2>1, <2>2, <2>3 DEF onTimeTrigger
  <1>. QED BY <1>5, <1>6

\* What a plug-in makes of onDisconnect(): three forget everything, two may ask for a
\* state, the others do nothing.
LEMMA OnDisconnectAsks ==
    ASSUME NEW p, NEW o \in onDisconnect(p)
    PROVE  /\ p.kind \in Resettable => o.memory = "NOP" /\ ~o.result.given
           /\ o.result.given =>
                \/ /\ p.kind = "disconnect" /\ state = "DISCONNECTING"
                   /\ o.result.newState = "DISCONNECTED" /\ o.result.messages = <<"QUIT">>
                \/ /\ p.kind = "reconnect" /\ state = "DISCONNECTED"
                   /\ o.result.newState = "CONNECTING" /\ o.result.messages = <<>>
           /\ ~o.result.given => o.result = NoResult
           /\ p.kind = "disconnect" /\ state = "DISCONNECTING" => o.result.given
           /\ p.kind = "reconnect" /\ state = "DISCONNECTED" => o.result.given
  <1>. DEFINE r == [PlugInResult EXCEPT !.messages = <<"QUIT">>, !.newState = "DISCONNECTED"]
  <1>1. r.given /\ r.newState = "DISCONNECTED" /\ r.messages = <<"QUIT">>
    BY DEF PlugInResult
  <1>2. CASE p.kind \in Resettable
    BY <1>2, OutcomesAre DEF onDisconnect, ConnectOnDisconnect, JoinOnDisconnect,
                             NickServOnDisconnect, Resettable
  <1>3. CASE p.kind = "disconnect"
    <2>1. o = IF state = "DISCONNECTING" THEN Outcome(p.memory, r) ELSE Nothing(p)
      BY <1>3 DEF onDisconnect, DisconnectOnDisconnect
    <2>. HIDE DEF r
    <2>2. o.result = IF state = "DISCONNECTING" THEN r ELSE NoResult
      BY <2>1, OutcomesAre
    <2>. QED BY <1>1, <1>3, <2>2, OutcomesAre DEF Resettable
  <1>4. CASE p.kind = "reconnect"
    BY <1>4, OutcomesAre DEF onDisconnect, ReconnectOnDisconnect, Resettable
  <1>5. CASE p.kind \notin Resettable \cup {"disconnect", "reconnect"}
    BY <1>5, OutcomesAre DEF onDisconnect, Resettable
  <1>. QED BY <1>2, <1>3, <1>4, <1>5

-----------------------------------------------------------------------------
(* How a step of a pass moves on.                                           *)

\* A call changes what the plug-in called remembers, and for the others neither
\* what they remember nor whether they are still to come.
LEMMA CallMovesOn ==
    ASSUME TypeOK, TypeOK', NEW outcomes, Call(outcomes)
    PROVE  /\ it \in DOMAIN plugIns /\ ToCome(it)
           /\ \E o \in outcomes : result' = o.result /\ plugIns'[it].memory = o.memory
           /\ result'.given => it' = it
           /\ \A i \in DOMAIN plugIns : i # it => plugIns'[i] = plugIns[i] /\ (ToCome(i)' <=> ToCome(i))
  <1>1. PICK o \in outcomes :
          /\ plugIns' = [plugIns EXCEPT ![it].memory = o.memory]
          /\ result' = o.result
          /\ IF ~o.result.given THEN it' \in Following(plugIns) ELSE it' = it
    BY DEF Call
  <1>2. it \in DOMAIN plugIns /\ it # End /\ ~result.given /\ pc' = pc
    BY DEF Call, TypeOK, BotType
  <1>3. plugIns[it] \in PlugIn
    BY <1>2, PlugInsAre
  <1>4. /\ DOMAIN plugIns' = DOMAIN plugIns
        /\ \A i \in DOMAIN plugIns : i # it => plugIns'[i] = plugIns[i]
        /\ plugIns'[it].memory = o.memory /\ plugIns'[it].priority = plugIns[it].priority
    BY <1>1, <1>2, <1>3 DEF PlugIn
  <1>5. Keeps(plugIns, plugIns') /\ Keeps(plugIns', plugIns) /\ Keeps(plugIns, plugIns)
    BY <1>4 DEF Keeps
  <1>6. ASSUME NEW i \in DOMAIN plugIns, i # it
        PROVE  ToCome(i)' <=> ToCome(i)
    <2>1. CASE o.result.given
      BY <1>1, <1>2, <1>4, <1>5, <1>6, <2>1, PassStays
    <2>2. CASE ~o.result.given
      BY <1>1, <1>2, <1>4, <1>5, <1>6, <2>2, PassGoesOn
    <2>. QED BY <2>1, <2>2
  <1>. QED BY <1>1, <1>2, <1>4, <1>6 DEF ToCome

\* So does the end of a result's processing, for those who stay registered.
LEMMA FinishMovesOn ==
    ASSUME TypeOK, TypeOK', FinishResult, it \in DOMAIN plugIns, plugIns[it].kind # "join",
           UNCHANGED pc
    PROVE  \A i \in DOMAIN plugIns \cap DOMAIN plugIns' :
              plugIns'[i] = plugIns[i] /\ (i # it => (ToCome(i)' <=> ToCome(i)))
  <1>1. it \in DOMAIN plugIns' /\ \A i \in DOMAIN plugIns \cap DOMAIN plugIns' : plugIns'[i] = plugIns[i]
    BY RegistryEffect
  <1>2. it' \in Following(plugIns') /\ ~result'.given
    BY DEF FinishResult, NoResult
  <1>3. it # End
    BY PlugInsAre
  <1>4. Keeps(plugIns, plugIns') /\ Keeps(plugIns', plugIns')
    BY <1>1 DEF Keeps
  <1>5. ASSUME NEW i \in DOMAIN plugIns \cap DOMAIN plugIns', i # it
        PROVE  ToCome(i)' <=> ToCome(i)
    BY <1>1, <1>2, <1>3, <1>4, <1>5, PassGoesOn
  <1>. QED BY <1>1, <1>5

-----------------------------------------------------------------------------
(* Erasing plug-ins under the iterator.                                     *)

\* A result with unregistrations is not a PlugInJoin's.
IteratorInv ==
    result.given /\ result.unregister # <<>> => plugIns[it].kind # "join"

\* Nobody but PlugInAdmin unregisters anybody.
LEMMA HandlersUnregister ==
    ASSUME NEW p, NEW m
    PROVE  \A o \in onConnect(p) \cup onPacket(p, m) \cup onTimeTrigger(p) \cup onDisconnect(p) :
                o.result.unregister # <<>> => p.kind = "admin"
  <1>1. \A x, r : Outcome(x, r).result = r
    BY DEF Outcome
  <1>2. NoResult.unregister = <<>> /\ Nothing(p).result.unregister = <<>>
    BY <1>1 DEF Nothing, NoResult
  <1>3. \A x, ms : Sends(x, ms).result.unregister = <<>>
    BY <1>1 DEF Sends, PlugInResult
  <1>4. \A x, s : Moves(x, s).result.unregister = <<>>
    BY <1>1 DEF Moves, PlugInResult
  <1>5. [PlugInResult EXCEPT !.messages = <<"QUIT">>, !.newState = "DISCONNECTED"].unregister = <<>>
    BY DEF PlugInResult
  <1>6. \A o \in onConnect(p) : o.result.unregister = <<>>
    BY <1>2, <1>3 DEF onConnect
  <1>7. \A o \in onPacket(p, m) : o.result.unregister # <<>> => p.kind = "admin"
    BY <1>1, <1>2, <1>3, <1>4
       DEF onPacket, ConnectOnPacket, JoinOnPacket, PingPongOnPacket, URLTitleOnPacket
  <1>8. \A o \in onTimeTrigger(p) : o.result.unregister = <<>>
    BY <1>2, <1>3, <1>4
       DEF onTimeTrigger, JoinOnTimeTrigger, NickServOnTimeTrigger, PingPongOnTimeTrigger
  <1>9. \A o \in onDisconnect(p) : o.result.unregister = <<>>
    <2>1. \A o \in DisconnectOnDisconnect(p) : o.result.unregister = <<>>
      <3>. DEFINE quit == [PlugInResult EXCEPT !.messages = <<"QUIT">>, !.newState = "DISCONNECTED"]
      <3>1. DisconnectOnDisconnect(p) \subseteq {Outcome(p.memory, quit), Nothing(p)}
        BY DEF DisconnectOnDisconnect
      <3>2. quit.unregister = <<>>
        BY <1>5
      <3>. HIDE DEF quit
      <3>. QED BY <1>1, <1>2, <3>1, <3>2
    <2>2. \A o \in ReconnectOnDisconnect(p) : o.result.unregister = <<>>
      BY <1>2, <1>4 DEF ReconnectOnDisconnect
    <2>3. \A o \in ConnectOnDisconnect(p) \cup JoinOnDisconnect(p) \cup NickServOnDisconnect(p) :
             o.result.unregister = <<>>
      BY <1>1, <1>2 DEF ConnectOnDisconnect, JoinOnDisconnect, NickServOnDisconnect
    <2>. QED BY <1>2, <2>1, <2>2, <2>3 DEF onDisconnect
  <1>. QED BY <1>6, <1>7, <1>8, <1>9

LEMMA IteratorStep ==
    ASSUME IInv, IteratorInv, [Next]_vars
    PROVE  IteratorInv'
  <1>. USE DEF IteratorInv
  <1>a. TypeOK /\ ResultInv
    BY DEF IInv
  <1>b. result.given => it \in DOMAIN plugIns /\ pc \in Passes
    BY <1>a DEF ResultInv, TypeOK, BotType
  <1>1. CASE Calls
    <2>1. PICK p, m : \E o \in onConnect(p) \cup onPacket(p, m) \cup onTimeTrigger(p) \cup onDisconnect(p) :
                         /\ result' = o.result /\ p = plugIns[it] /\ it \in DOMAIN plugIns
                         /\ o.result.given => it' = it
      <3>1. it # End => it \in DOMAIN plugIns
        BY <1>a DEF TypeOK, BotType
      <3>. QED BY <1>1, <3>1 DEF Calls, CallOnConnect, CallOnPacket, CallOnTimeTrigger, CallOnDisconnect, Call
    <2>2. plugIns'[it].kind = plugIns[it].kind
      <3>1. ~FinishResult
        BY <1>1 DEF Calls, CallOnConnect, CallOnPacket, CallOnTimeTrigger, CallOnDisconnect, Call, FinishResult
      <3>2. \A i \in DOMAIN plugIns : plugIns'[i].kind = plugIns[i].kind
        BY <1>a, <3>1, OthersKeepPlugIns
      <3>. QED BY <2>1, <3>2
    <2>3. result'.unregister # <<>> => plugIns[it].kind = "admin"
      BY <2>1, HandlersUnregister
    <2>4. result'.given => it' = it
      BY <2>1
    <2>. QED BY <2>2, <2>3, <2>4
  <1>2. CASE SendMessage \/ SendFails
    <2>1. it' = it /\ result.given /\ result'.unregister = result.unregister
      BY <1>2, <1>a DEF SendMessage, SendFails, TypeOK, BotType, Result
    <2>2. ~FinishResult
      BY <1>2 DEF SendMessage, SendFails, FinishResult, isConnected
    <2>. QED BY <1>a, <1>b, <2>1, <2>2, OthersKeepPlugIns
  <1>3. CASE SendKills \/ FinishResult
    BY <1>3 DEF SendKills, FinishResult, NoResult
  <1>4. CASE LogThrows \/ PassDone \/ Sleep \/ TakeLine \/ ProcessMessage \/ RecreateSocket \/ RecreateFails
    <2>1. ~result.given /\ result' = result
      BY <1>4, <1>a DEF LogThrows, PassDone, Sleep, TakeLine, ProcessMessage, RecreateSocket,
                        RecreateFails, Passes, ResultInv
    <2>. QED BY <2>1
  <1>5. CASE UNCHANGED bot
    BY <1>5 DEF bot
  <1>6. Receive \/ Environment \/ UNCHANGED vars => UNCHANGED bot
    BY EnvironmentEffect DEF Receive, vars
  <1>. QED
    BY <1>1, <1>2, <1>3, <1>4, <1>5, <1>6 DEF Next, Run, Calls, Terminated

\* Whoever is no PlugInJoin stays, and where nothing is unregistered everybody does.
LEMMA WhoIsLeft ==
    ASSUME BotType, NEW i \in DOMAIN plugIns,
           result.unregister # <<>> => plugIns[i].kind # "join"
    PROVE  i \in DOMAIN PlugInsLeft
  <1>. DEFINE R == registerPlugIns(plugIns, result.register)
              Rank == {j \in DOMAIN R : /\ R[j].kind = "join" /\ R[j].channel = R[i].channel
                                         /\ (j = i \/ Before(R, j, i))}
              Mentions == {n \in DOMAIN result.unregister : result.unregister[n] = R[i].channel}
  <1>1. /\ i \in DOMAIN R /\ R[i] = plugIns[i]
        /\ DOMAIN R = DOMAIN plugIns \cup nextId..(nextId + Len(result.register) - 1)
    BY DEF registerPlugIns
  <1>2. IsFiniteSet(DOMAIN R)
    <2>1. DOMAIN plugIns \subseteq 1..(nextId - 1) /\ nextId \in Nat /\ Len(result.register) \in Nat
      BY DEF BotType, Result
    <2>2. IsFiniteSet(1..(nextId + Len(result.register)))
      <3>1. nextId + Len(result.register) \in Int
        BY <2>1
      <3>. QED BY <3>1, FS_Interval
    <2>3. DOMAIN R \subseteq 1..(nextId + Len(result.register))
      <3>1. nextId # 0
        BY DEF BotType
      <3>. QED BY <1>1, <2>1, <3>1
    <2>. QED BY <2>2, <2>3, FS_Subset
  <1>. HIDE DEF R
  <1>3. i \in DOMAIN PlugInsLeft <=> ~(R[i].kind = "join" /\ Cardinality(Rank) <= Cardinality(Mentions))
    BY <1>1 DEF PlugInsLeft, unregisterPlugIns, R
  <1>4. CASE R[i].kind = "join"
    <2>1. result.unregister = <<>>
      BY <1>1, <1>4
    <2>2. Mentions = {}
      BY <2>1
    <2>3. Cardinality(Mentions) = 0
      BY <2>2, FS_EmptySet
    <2>4. i \in Rank /\ Rank \subseteq DOMAIN R
      BY <1>1, <1>4
    <2>. HIDE DEF Rank, Mentions
    <2>5. IsFiniteSet(Rank)
      BY <1>2, <2>4, FS_Subset
    <2>6. Cardinality(Rank) \in Nat /\ Cardinality(Rank) # 0
      BY <2>4, <2>5, FS_CardinalityType, FS_EmptySet
    <2>. QED BY <1>3, <2>3, <2>6
  <1>5. CASE R[i].kind # "join"
    BY <1>3, <1>5
  <1>. QED BY <1>4, <1>5

\* The iterator of a loop over the plug-ins is never at one that processResult() erases,
\* whatever is registered and unregistered, at whatever priorities.
THEOREM IteratorsStayValid == Spec => []IteratorStaysValid
  <1>1. Init => IteratorInv
    BY DEF Init, NoResult, IteratorInv
  <1>2. IInv /\ IteratorInv /\ [Next]_vars => IteratorInv'
    BY IteratorStep
  <1>3. IInv /\ IteratorInv => IteratorStaysValid
    <2>1. SUFFICES ASSUME IInv, IteratorInv, result.given
                   PROVE  it \in DOMAIN PlugInsLeft
      BY DEF IteratorStaysValid
    <2>2. it \in DOMAIN plugIns /\ BotType
      BY <2>1 DEF IInv, ResultInv, TypeOK, BotType
    <2>. QED BY <2>1, <2>2, WhoIsLeft DEF IteratorInv
  <1>. QED BY <1>1, <1>2, <1>3, Invariance, PTL DEF Spec

-----------------------------------------------------------------------------
(* What a reconnection finds.                                               *)

\* In the last onDisconnect() pass every plug-in to be reset has been or is to come,
\* and with --reconnect PlugInReconnect is to come until the bot is CONNECTING.
LastPassInv ==
    /\ pc = "onDisconnected" =>
         /\ result.given => /\ plugIns[it].kind = "reconnect"
                            /\ result.newState = "CONNECTING" /\ result.messages = <<>>
         /\ \A i \in DOMAIN plugIns :
              plugIns[i].kind \in Resettable => plugIns[i].memory = "NOP" \/ ToCome(i)
         /\ Reconnect => \/ state = "CONNECTING" \/ result.given
                         \/ \E i \in DOMAIN plugIns : plugIns[i].kind = "reconnect" /\ ToCome(i)
    /\ PlugInsAreReset
    /\ ReconnectGoesOn

\* The pass begins with every plug-in to come.
LEMMA LastPassBegins ==
    ASSUME TypeOK, LineUpInv, Goto("onDisconnected"), UNCHANGED plugIns, ~result'.given
    PROVE  LastPassInv'
  <1>1. pc' = "onDisconnected"
    BY DEF Goto
  <1>2. \A i \in DOMAIN plugIns' : ToCome(i)'
    BY PassBegins DEF Passes
  <1>3. Reconnect => \E i \in DOMAIN plugIns' : plugIns'[i].kind = "reconnect"
    BY DEF LineUpInv, Reconnects
  <1>. QED BY <1>1, <1>2, <1>3 DEF LastPassInv, PlugInsAreReset, ReconnectGoesOn

\* A call in the pass resets its plug-in, and PlugInReconnect's asks for CONNECTING.
LEMMA LastPassCall ==
    ASSUME TypeOK, TypeOK', LineUpInv, LastPassInv, state \in {"DISCONNECTED", "CONNECTING"},
           pc = "onDisconnected", Call(onDisconnect(plugIns[it]))
    PROVE  LastPassInv'
  <1>1. pc' = pc /\ state' = state
    BY DEF Call
  <1>2. PICK o \in onDisconnect(plugIns[it]) : result' = o.result /\ plugIns'[it].memory = o.memory
    BY CallMovesOn
  <1>3. /\ it \in DOMAIN plugIns /\ (result'.given => it' = it)
        /\ \A i \in DOMAIN plugIns : i # it => plugIns'[i] = plugIns[i] /\ (ToCome(i)' <=> ToCome(i))
    BY CallMovesOn
  <1>4. /\ DOMAIN plugIns' = DOMAIN plugIns
        /\ \A i \in DOMAIN plugIns : plugIns'[i].kind = plugIns[i].kind
    <2>1. PICK x : plugIns' = [plugIns EXCEPT ![it].memory = x]
      BY DEF Call
    <2>. QED BY <2>1, PlugInsAre DEF PlugIn
  <1>5. /\ plugIns[it].kind \in Resettable => o.memory = "NOP"
        /\ o.result.given => /\ plugIns[it].kind = "reconnect"
                             /\ o.result.newState = "CONNECTING" /\ o.result.messages = <<>>
        /\ plugIns[it].kind = "reconnect" /\ state = "DISCONNECTED" => o.result.given
    BY OnDisconnectAsks
  <1>6. \A i \in DOMAIN plugIns' :
          plugIns'[i].kind \in Resettable => plugIns'[i].memory = "NOP" \/ ToCome(i)'
    BY <1>2, <1>3, <1>4, <1>5 DEF LastPassInv
  <1>7. Reconnect => \/ state' = "CONNECTING" \/ result'.given
                     \/ \E i \in DOMAIN plugIns' : plugIns'[i].kind = "reconnect" /\ ToCome(i)'
    BY <1>1, <1>2, <1>3, <1>4, <1>5 DEF LastPassInv, Call
  <1>8. result'.given => /\ plugIns'[it'].kind = "reconnect"
                         /\ result'.newState = "CONNECTING" /\ result'.messages = <<>>
    BY <1>2, <1>3, <1>4, <1>5
  <1>. QED BY <1>1, <1>6, <1>7, <1>8 DEF LastPassInv, PlugInsAreReset, ReconnectGoesOn

\* What PlugInReconnect asked for is done.
LEMMA LastPassFinish ==
    ASSUME TypeOK, TypeOK', LastPassInv, pc = "onDisconnected", it # End, FinishResult
    PROVE  LastPassInv'
  <1>1. /\ pc' = pc /\ state' = "CONNECTING" /\ ~result'.given
        /\ it \in DOMAIN plugIns /\ plugIns[it].kind = "reconnect"
    BY DEF FinishResult, NoResult, LastPassInv, TypeOK, BotType
  <1>2. \A i \in DOMAIN plugIns \cap DOMAIN plugIns' :
           plugIns'[i] = plugIns[i] /\ (i # it => (ToCome(i)' <=> ToCome(i)))
    BY <1>1, FinishMovesOn
  <1>3. \A i \in DOMAIN plugIns' \ DOMAIN plugIns : plugIns'[i].memory = "NOP"
    <2>1. \A c : PlugInJoin(c).memory = "NOP"
      BY DEF PlugInJoin, NewPlugIn
    <2>. QED BY <2>1, RegistryEffect
  <1>4. \A i \in DOMAIN plugIns' :
          plugIns'[i].kind \in Resettable => plugIns'[i].memory = "NOP" \/ ToCome(i)'
    <2>1. "reconnect" \notin Resettable
      BY DEF Resettable
    <2>. QED BY <1>1, <1>2, <1>3, <2>1 DEF LastPassInv
  <1>. QED BY <1>1, <1>4 DEF LastPassInv, PlugInsAreReset, ReconnectGoesOn

\* LastPassInv is inductive.
LEMMA LastPassStep ==
    ASSUME ConstantsAssumption, IInv, LineUpInv, LastPassInv, [Next]_vars
    PROVE  LastPassInv'
  <1>a. /\ TypeOK /\ TypeOK' /\ ResultInv
        /\ pc = "onDisconnected" => state \in {"DISCONNECTED", "CONNECTING"}
    BY NextType DEF IInv, DisconnectedInv
  <1>b. ASSUME pc' \notin {"onDisconnected", "recreateSocket", "exit"}
        PROVE  LastPassInv'
    BY <1>b DEF LastPassInv, PlugInsAreReset, ReconnectGoesOn
  <1>1. CASE Calls
    <2>1. pc' = pc /\ pc \in Passes
      BY <1>1, CallsEffect
    <2>2. CASE pc = "onDisconnected"
      <3>1. CallOnDisconnect
        BY <1>1, <2>2 DEF Calls, CallOnConnect, CallOnPacket, CallOnTimeTrigger
      <3>. QED BY <1>a, <2>2, <3>1, LastPassCall DEF CallOnDisconnect
    <2>3. CASE pc # "onDisconnected"
      BY <1>b, <2>1, <2>3 DEF Passes
    <2>. QED BY <2>2, <2>3
  <1>2. CASE SendMessage \/ SendFails \/ SendKills
    <2>1. result.given /\ result.messages # <<>> /\ (pc' = pc \/ pc' = "killed")
      BY <1>2 DEF SendMessage, SendFails, SendKills
    <2>2. pc \in Passes /\ pc # "onDisconnected"
      BY <1>a, <2>1 DEF ResultInv, LastPassInv
    <2>. QED BY <1>b, <2>1, <2>2 DEF Passes
  <1>3. CASE FinishResult
    <2>1. pc \in Passes /\ it # End /\ pc' = pc
      BY <1>3, <1>a DEF FinishResult, ResultInv
    <2>2. CASE pc = "onDisconnected"
      BY <1>3, <1>a, <2>1, <2>2, LastPassFinish
    <2>3. CASE pc # "onDisconnected"
      BY <1>b, <2>1, <2>3 DEF Passes
    <2>. QED BY <2>2, <2>3
  <1>4. CASE PassDone
    <2>1. pc \in Passes /\ it = End /\ ~result.given /\ UNCHANGED <<plugIns, result, state>>
      BY <1>4, <1>a DEF PassDone, ResultInv
    <2>2. \A i : ~ToCome(i)
      BY <2>1 DEF ToCome
    <2>3. \/ pc' \notin {"onDisconnected", "recreateSocket", "exit"}
          \/ Goto("onDisconnected")
          \/ pc = "onDisconnected" /\ pc' = IF isConnected THEN "recreateSocket" ELSE "exit"
      BY <1>4 DEF PassDone, Goto, Passes
    <2>4. CASE Goto("onDisconnected")
      BY <1>a, <2>1, <2>4, LastPassBegins
    <2>5. CASE pc = "onDisconnected" /\ pc' = IF isConnected THEN "recreateSocket" ELSE "exit"
      <3>1. \A i \in DOMAIN plugIns : plugIns[i].kind \in Resettable => plugIns[i].memory = "NOP"
        BY <2>2, <2>5 DEF LastPassInv
      <3>2. Reconnect => isConnected
        BY <2>1, <2>2, <2>5 DEF LastPassInv, isConnected
      <3>. QED BY <2>1, <2>5, <3>1, <3>2
               DEF LastPassInv, PlugInsAreReset, ReconnectGoesOn, Resettable
    <2>. QED BY <1>b, <2>3, <2>4, <2>5
  <1>5. CASE TakeLine
    <2>1. ~result.given /\ UNCHANGED <<plugIns, result>>
      BY <1>5, <1>a DEF TakeLine, ResultInv, Passes
    <2>2. pc' \notin {"onDisconnected", "recreateSocket", "exit"} \/ Goto("onDisconnected")
      BY <1>5 DEF TakeLine, Goto
    <2>. QED BY <1>a, <1>b, <2>1, <2>2, LastPassBegins
  <1>6. CASE LogThrows \/ Sleep \/ ProcessMessage \/ RecreateSocket \/ RecreateFails
    BY <1>6, <1>b DEF LogThrows, Sleep, ProcessMessage, RecreateSocket, RecreateFails, Goto, LoopBody
  <1>7. CASE UNCHANGED bot
    BY <1>7 DEF bot, LastPassInv, PlugInsAreReset, ReconnectGoesOn, ToCome, Meets, Before
  <1>8. Receive \/ Environment \/ UNCHANGED vars => UNCHANGED bot
    BY EnvironmentEffect DEF Receive, vars
  <1>. QED
    BY <1>1, <1>2, <1>3, <1>4, <1>5, <1>6, <1>7, <1>8
    DEF Next, Run, Calls, Terminated

-----------------------------------------------------------------------------
(* The onDisconnect() pass of a bot that wants to leave.                    *)

\* There is no PlugInReconnect, or it comes before PlugInDisconnect in the passes that run
\* from the last plug-in to the first, as it may or may not: that priority is uninitialised.
DisconnectsLast == Reconnect => \A p \in DisconnectPriorities : p <= -20

\* PlugInDisconnect is to come until it says QUIT, and when it has, or the connection
\* is lost meanwhile, PlugInReconnect is not to come.
DisconnectingInv ==
    pc = "onDisconnecting" =>
      /\ state \in {"DISCONNECTING", "DISCONNECTED"}
      /\ result.given => it = 2 /\ result.newState = "DISCONNECTED"
      /\ state = "DISCONNECTING" /\ ~result.given => ToCome(2)
      /\ state = "DISCONNECTED" =>
           \A i \in DOMAIN plugIns : plugIns[i].kind = "reconnect" => ~ToCome(i)

\* With PlugInDisconnect called, PlugInReconnect is not to come.
LEMMA ReconnectIsOver ==
    ASSUME TypeOK, LineUpInv, DisconnectsLast, pc = "onDisconnecting", it = 2,
           result.given, NEW i \in DOMAIN plugIns, plugIns[i].kind = "reconnect"
    PROVE  i # 2 /\ ~ToCome(i)
  <1>1. i \notin {1, 2} /\ 2 \in DOMAIN plugIns
    BY DEF LineUpInv, LineUp
  <1>2. /\ plugIns[i].priority = -20 /\ plugIns[2].priority \in Int /\ plugIns[2].priority <= -20
        /\ i \in Int /\ 2 < i
    <2>1. Ordinary(plugIns[i])
      BY <1>1 DEF LineUpInv, LineUp
    <2>2. plugIns[2].priority \in DisconnectPriorities
      BY DEF LineUpInv, LineUp
    <2>3. i \in 1..(nextId - 1) /\ nextId \in Nat
      BY DEF TypeOK, BotType
    <2>. QED BY <1>1, <2>1, <2>2, <2>3, PlugInsAre DEF Ordinary, DisconnectsLast
  <1>3. ~Before(plugIns, i, 2)
    BY <1>2 DEF Before
  <1>. QED BY <1>1, <1>3 DEF ToCome, Meets, ReversePasses

\* The pass begins with PlugInDisconnect to come.
LEMMA DisconnectingBegins ==
    ASSUME TypeOK, LineUpInv, Goto("onDisconnecting"), UNCHANGED <<plugIns, state>>,
           state = "DISCONNECTING", ~result'.given
    PROVE  DisconnectingInv'
  <1>1. 2 \in DOMAIN plugIns
    BY DEF LineUpInv, LineUp
  <1>2. ToCome(2)'
    BY <1>1, PassBegins DEF Passes
  <1>. QED BY <1>2 DEF DisconnectingInv

\* PlugInDisconnect asks for DISCONNECTED, and nobody else for anything.
LEMMA DisconnectingCall ==
    ASSUME TypeOK, TypeOK', LineUpInv, DisconnectingInv, pc = "onDisconnecting",
           Call(onDisconnect(plugIns[it]))
    PROVE  DisconnectingInv'
  <1>1. pc' = pc /\ state' = state /\ ~result.given
    BY DEF Call
  <1>2. PICK o \in onDisconnect(plugIns[it]) : result' = o.result
    BY CallMovesOn
  <1>3. /\ it \in DOMAIN plugIns /\ ToCome(it) /\ (result'.given => it' = it)
        /\ \A i \in DOMAIN plugIns : i # it => plugIns'[i] = plugIns[i] /\ (ToCome(i)' <=> ToCome(i))
    BY CallMovesOn
  <1>4. DOMAIN plugIns' = DOMAIN plugIns /\ \A i \in DOMAIN plugIns : plugIns'[i].kind = plugIns[i].kind
    <2>1. PICK x : plugIns' = [plugIns EXCEPT ![it].memory = x]
      BY DEF Call
    <2>. QED BY <2>1, PlugInsAre DEF PlugIn
  <1>5. ~(plugIns[it].kind = "reconnect" /\ state = "DISCONNECTED")
    BY <1>3 DEF DisconnectingInv
  <1>6. /\ o.result.given => plugIns[it].kind = "disconnect" /\ o.result.newState = "DISCONNECTED"
        /\ plugIns[it].kind = "disconnect" /\ state = "DISCONNECTING" => o.result.given
    BY <1>5, OnDisconnectAsks
  <1>7. 2 \in DOMAIN plugIns /\ (plugIns[it].kind = "disconnect" <=> it = 2)
    <2>1. it \notin {1, 2} => plugIns[it].kind # "disconnect"
      BY <1>3 DEF LineUpInv, LineUp, Ordinary
    <2>. QED BY <2>1 DEF LineUpInv, LineUp
  <1>8. result'.given => it' = 2 /\ result'.newState = "DISCONNECTED"
    BY <1>2, <1>3, <1>6, <1>7
  <1>9. state' = "DISCONNECTING" /\ ~result'.given => ToCome(2)'
    BY <1>1, <1>2, <1>3, <1>6, <1>7 DEF DisconnectingInv
  <1>10. state' = "DISCONNECTED" =>
           \A i \in DOMAIN plugIns' : plugIns'[i].kind = "reconnect" => ~ToCome(i)'
    BY <1>1, <1>3, <1>4, <1>5 DEF DisconnectingInv
  <1>. QED BY <1>1, <1>8, <1>9, <1>10 DEF DisconnectingInv

\* DisconnectingInv is inductive.
LEMMA DisconnectingStep ==
    ASSUME ConstantsAssumption, DisconnectsLast, IInv, LineUpInv, DisconnectingInv, [Next]_vars
    PROVE  DisconnectingInv'
  <1>a. TypeOK /\ TypeOK' /\ ResultInv
    BY NextType DEF IInv
  <1>b. ASSUME pc' # "onDisconnecting"
        PROVE  DisconnectingInv'
    BY <1>b DEF DisconnectingInv
  <1>1. CASE Calls
    <2>1. pc' = pc
      BY <1>1, CallsEffect
    <2>2. pc = "onDisconnecting" => CallOnDisconnect
      BY <1>1 DEF Calls, CallOnConnect, CallOnPacket, CallOnTimeTrigger
    <2>. QED BY <1>a, <1>b, <2>1, <2>2, DisconnectingCall DEF CallOnDisconnect
  <1>2. CASE SendMessage /\ pc = "onDisconnecting"
    <2>1. /\ pc' = pc /\ it' = it /\ state' = state /\ isConnected
          /\ result.given /\ result'.given /\ result'.newState = result.newState
      BY <1>2, <1>a DEF SendMessage, TypeOK, BotType, Result
    <2>. QED BY <1>2, <2>1 DEF DisconnectingInv, isConnected
  <1>3. CASE SendFails /\ pc = "onDisconnecting"
    <2>1. /\ pc' = pc /\ it' = it /\ state' = "DISCONNECTED" /\ plugIns' = plugIns
          /\ result.given /\ result'.given /\ result'.newState = result.newState
      BY <1>3, <1>a DEF SendFails, TypeOK, BotType, Result
    <2>2. it = 2 /\ result.newState = "DISCONNECTED" /\ 2 \in DOMAIN plugIns'
      BY <1>3, <2>1 DEF DisconnectingInv, LineUpInv, LineUp
    <2>3. \A i \in DOMAIN plugIns' : plugIns'[i].kind = "reconnect" => ~ToCome(i)'
      <3>1. Keeps(plugIns, plugIns')
        BY <2>1 DEF Keeps
      <3>. QED BY <1>3, <1>a, <2>1, <2>2, <3>1, ReconnectIsOver, PassStays
    <2>. QED BY <2>1, <2>2, <2>3 DEF DisconnectingInv
  <1>4. CASE FinishResult /\ pc = "onDisconnecting"
    <2>1. /\ pc' = pc /\ ~result'.given /\ result.given
          /\ state' = IF result.newState = "NOP" THEN state ELSE result.newState
      BY <1>4 DEF FinishResult, NoResult
    <2>2. it = 2 /\ state' = "DISCONNECTED" /\ 2 \in DOMAIN plugIns /\ plugIns[2].kind = "disconnect"
      BY <1>4, <2>1 DEF DisconnectingInv, LineUpInv, LineUp
    <2>3. \A i \in DOMAIN plugIns' : plugIns'[i].kind = "reconnect" => ~ToCome(i)'
      <3>. SUFFICES ASSUME NEW i \in DOMAIN plugIns', plugIns'[i].kind = "reconnect"
                    PROVE  ~ToCome(i)'
        OBVIOUS
      <3>1. i \in DOMAIN plugIns
        <4>1. \A c : PlugInJoin(c).kind = "join"
          BY DEF PlugInJoin, NewPlugIn
        <4>. QED BY <1>4, <4>1, RegistryEffect
      <3>2. plugIns'[i] = plugIns[i] /\ (i # it => (ToCome(i)' <=> ToCome(i)))
        BY <1>4, <1>a, <2>1, <2>2, <3>1, FinishMovesOn
      <3>3. i # 2 /\ ~ToCome(i)
        BY <1>4, <1>a, <2>1, <2>2, <3>1, <3>2, ReconnectIsOver
      <3>. QED BY <2>2, <3>2, <3>3
    <2>. QED BY <2>1, <2>2, <2>3 DEF DisconnectingInv
  <1>5. CASE (SendMessage \/ SendFails \/ SendKills \/ FinishResult) /\ pc # "onDisconnecting"
    <2>1. pc' = pc \/ pc' = "killed"
      BY <1>5 DEF SendMessage, SendFails, SendKills, FinishResult
    <2>. QED BY <1>5, <1>b, <2>1
  <1>6. CASE PassDone
    <2>1. ~result'.given /\ UNCHANGED <<plugIns, state>>
      BY <1>6, <1>a DEF PassDone, ResultInv
    <2>2. pc' = "onDisconnecting" => state = "DISCONNECTING" /\ Goto("onDisconnecting")
      <3>1. pc' = "onDisconnecting" => pc = "onTimeTrigger" /\ state = "DISCONNECTING"
        BY <1>6 DEF PassDone, Goto, Passes, isConnected
      <3>2. pc = "onTimeTrigger" /\ state = "DISCONNECTING" => Goto("onDisconnecting")
        BY <1>6 DEF PassDone
      <3>. QED BY <3>1, <3>2
    <2>. QED BY <1>a, <1>b, <2>1, <2>2, DisconnectingBegins
  <1>7. CASE LogThrows \/ Sleep \/ TakeLine \/ ProcessMessage \/ RecreateSocket \/ RecreateFails
    BY <1>7, <1>b
       DEF LogThrows, Sleep, TakeLine, ProcessMessage, RecreateSocket, RecreateFails, Goto, LoopBody
  <1>8. CASE UNCHANGED bot
    BY <1>8 DEF bot, DisconnectingInv, ToCome, Meets, Before
  <1>9. Receive \/ Environment \/ UNCHANGED vars => UNCHANGED bot
    BY EnvironmentEffect DEF Receive, vars
  <1>10. SendKills => pc' # "onDisconnecting"
    BY DEF SendKills
  <1>. QED
    BY <1>b, <1>1, <1>2, <1>3, <1>4, <1>5, <1>6, <1>7, <1>8, <1>9, <1>10
    DEF Next, Run, Calls, Terminated

-----------------------------------------------------------------------------
(* What the server hears on a socket.                                       *)

\* Phases in which nothing is said on the socket any more.
Silent == {"onDisconnected", "recreateSocket"} \cup Final

\* PlugInConnect is to come in an onConnect() pass, or its NICK and USER are on their way.
Greeting ==
    /\ state = "CONNECTING"
    /\ \/ session = "opened" /\ ~result.given /\ plugIns[1].memory = "NOP" /\ ToCome(1)
       \/ /\ result.given /\ result.newState = "NOP" /\ plugIns[1].memory = "SENT"
          /\ \/ session = "opened" /\ result.messages = <<"NICK", "USER">>
             \/ session = "nick" /\ result.messages = <<"USER">>

\* Before the bot has registered it greets, or the connection is lost.
OpeningInv ==
    session \in {"opened", "nick"} /\ pc \notin Silent =>
      /\ pc = "onConnect"
      /\ Greeting \/ (state = "DISCONNECTED" /\ (result.given => result.newState = "NOP"))

\* Once it has, PlugInConnect keeps that in mind until it is reset, and only
\* PlugInDisconnect's QUIT ends the session.
RegisteredInv ==
    session = "registered" =>
      /\ pc \notin Silent \cup {"onDisconnecting"} => plugIns[1].memory # "NOP"
      /\ \/ JustTalks(result)
         \/ pc = "onDisconnecting" /\ result.given /\ result.messages = <<"QUIT">>

\* After QUIT the bot is disconnected, or about to be.
QuitInv ==
    session = "quit" /\ pc \notin Silent =>
      /\ pc = "onDisconnecting"
      /\ state = "DISCONNECTED" \/ (result.given /\ result.messages = <<>>)

SessionInv ==
    /\ session \in {"opened", "nick", "registered", "quit"}
    /\ OpeningInv /\ RegisteredInv /\ QuitInv

\* All that the steps below start from.
KInv == IInv /\ LineUpInv /\ LastPassInv /\ DisconnectingInv /\ SessionInv

LEMMA NothingIsTalk == \A r : r.messages = <<>> => JustTalks(r)
  BY DEF JustTalks

LEMMA FirstIsConnect ==
    ASSUME LineUpInv, NEW i \in DOMAIN plugIns
    PROVE  /\ 1 \in DOMAIN plugIns /\ (plugIns[i].kind = "connect" <=> i = 1)
           /\ 2 \in DOMAIN plugIns /\ (plugIns[i].kind = "disconnect" <=> i = 2)
  <1>1. i \notin {1, 2} => plugIns[i].kind \notin {"connect", "disconnect"}
    BY DEF LineUpInv, LineUp, Ordinary
  <1>. QED BY <1>1 DEF LineUpInv, LineUp

\* A call of a handler keeps SessionInv.
LEMMA SessionCall ==
    ASSUME TypeOK', KInv, Calls
    PROVE  SessionInv'
  <1>. USE DEF SessionInv, OpeningInv, RegisteredInv, QuitInv
  <1>a. /\ TypeOK /\ LineUpInv /\ LastPassInv /\ DisconnectingInv /\ SessionInv
        /\ pc = "onDisconnected" => state \in {"DISCONNECTED", "CONNECTING"}
    BY DEF KInv, IInv, DisconnectedInv
  <1>b. pc \in Passes /\ ~result.given /\ UNCHANGED <<state, pc, session>>
    BY CallsEffect DEF history
  <1>c. \A p : Nothing(p).memory = p.memory /\ Nothing(p).result = NoResult
    BY OutcomesAre
  <1>d. JustTalks(NoResult) /\ ~NoResult.given
    BY OutcomesAre, NothingIsTalk
  <1>1. CASE CallOnConnect
    <2>1. pc = "onConnect" /\ Call(onConnect(plugIns[it]))
      BY <1>1 DEF CallOnConnect
    <2>2. PICK o \in onConnect(plugIns[it]) : result' = o.result /\ plugIns'[it].memory = o.memory
      BY <1>a, <2>1, CallMovesOn
    <2>3. /\ it \in DOMAIN plugIns /\ (result'.given => it' = it)
          /\ \A i \in DOMAIN plugIns : i # it => plugIns'[i] = plugIns[i] /\ (ToCome(i)' <=> ToCome(i))
      BY <1>a, <2>1, CallMovesOn
    <2>4. 1 \in DOMAIN plugIns /\ (plugIns[it].kind = "connect" <=> it = 1)
      BY <1>a, <2>3, FirstIsConnect
    <2>5. pc \notin Silent /\ pc # "onDisconnecting"
      BY <2>1 DEF Silent, Final
    <2>6. CASE it = 1 /\ state = "CONNECTING" /\ plugIns[1].memory = "NOP"
      <3>1. o = Sends("SENT", <<"NICK", "USER">>)
        BY <2>4, <2>6 DEF onConnect
      <3>2. /\ plugIns'[1].memory = "SENT" /\ result'.given /\ result'.newState = "NOP"
            /\ result'.messages = <<"NICK", "USER">>
        BY <2>2, <2>6, <3>1, OutcomesAre
      <3>3. session = "opened"
        BY <1>a, <1>b, <2>1, <2>5, <2>6 DEF Greeting
      <3>. QED BY <1>b, <2>1, <2>6, <3>2, <3>3 DEF Greeting
    <2>7. CASE ~(it = 1 /\ state = "CONNECTING" /\ plugIns[1].memory = "NOP")
      <3>1. o = Nothing(plugIns[it])
        BY <2>4, <2>7 DEF onConnect
      <3>2. result' = NoResult /\ plugIns'[1].memory = plugIns[1].memory
        BY <1>c, <2>2, <2>3, <2>4, <3>1
      <3>3. CASE session \in {"opened", "nick"}
        <4>1. Greeting => Greeting'
          <5>1. ASSUME Greeting PROVE it # 1
            BY <1>b, <2>7, <5>1 DEF Greeting
          <5>. QED BY <1>b, <1>d, <2>3, <2>4, <3>2, <5>1 DEF Greeting
        <4>. QED BY <1>a, <1>b, <1>d, <2>1, <2>5, <3>2, <3>3, <4>1
      <3>4. CASE session \in {"registered", "quit"}
        BY <1>a, <1>b, <1>d, <2>1, <2>5, <3>2, <3>4
      <3>. QED BY <1>a, <3>3, <3>4
    <2>. QED BY <2>6, <2>7
  <1>2. CASE CallOnPacket \/ CallOnTimeTrigger
    <2>1. PICK m, outcomes : /\ Call(outcomes) /\ pc \in {"onPacket", "onTimeTrigger"}
                             /\ outcomes = onPacket(plugIns[it], m) \/ outcomes = onTimeTrigger(plugIns[it])
      BY <1>2 DEF CallOnPacket, CallOnTimeTrigger
    <2>2. PICK o \in outcomes : result' = o.result /\ plugIns'[it].memory = o.memory
      BY <1>a, <2>1, CallMovesOn
    <2>3. JustTalks(o.result) /\ (plugIns[it].kind = "connect" => o.memory = plugIns[it].memory)
      <3>1. o \in onPacket(plugIns[it], m) \cup onTimeTrigger(plugIns[it])
        BY <2>1, <2>2
      <3>. QED BY <3>1, HandlersSay
    <2>4. it \in DOMAIN plugIns /\ \A i \in DOMAIN plugIns : i # it => plugIns'[i] = plugIns[i]
      BY <1>a, <2>1, CallMovesOn
    <2>5. plugIns'[1].memory = plugIns[1].memory
      BY <1>a, <2>2, <2>3, <2>4, FirstIsConnect
    <2>6. pc \notin Silent /\ pc # "onDisconnecting" /\ pc # "onConnect"
      BY <2>1 DEF Silent, Final
    <2>. QED BY <1>a, <1>b, <2>2, <2>3, <2>5, <2>6
  <1>3. CASE CallOnDisconnect
    <2>1. pc \in {"onDisconnecting", "onDisconnected"} /\ Call(onDisconnect(plugIns[it]))
      BY <1>3 DEF CallOnDisconnect, ReversePasses
    <2>2. PICK o \in onDisconnect(plugIns[it]) : result' = o.result
      BY <1>a, <2>1, CallMovesOn
    <2>3. /\ ~o.result.given => o.result = NoResult
          /\ o.result.given =>
               \/ state = "DISCONNECTING" /\ o.result.messages = <<"QUIT">>
               \/ o.result.messages = <<>>
      BY OnDisconnectAsks
    <2>4. \/ JustTalks(result')
          \/ pc = "onDisconnecting" /\ result'.given /\ result'.messages = <<"QUIT">>
      BY <1>a, <1>d, <2>1, <2>2, <2>3, NothingIsTalk
    <2>5. pc = "onDisconnecting" => pc \notin Silent
      BY DEF Silent, Final
    <2>6. pc = "onDisconnected" => pc \in Silent
      BY DEF Silent
    <2>. QED BY <1>a, <1>b, <2>1, <2>4, <2>5, <2>6
  <1>. QED BY <1>1, <1>2, <1>3 DEF Calls

\* So does putting a message on the socket, which is NICK, USER, QUIT or talk, each
\* in its place.
LEMMA SessionSend ==
    ASSUME KInv, SendMessage
    PROVE  /\ SessionInv'
           /\ \/ session = "opened" /\ session' = "nick"
              \/ session = "nick" /\ session' = "registered"
              \/ session = "registered" /\ session' \in {"registered", "quit"}
  <1>. USE DEF SessionInv, OpeningInv, RegisteredInv, QuitInv
  <1>a. /\ TypeOK /\ ResultInv /\ LineUpInv /\ LastPassInv /\ SessionInv
    BY DEF KInv, IInv
  <1>1. /\ result.given /\ result.messages # <<>> /\ state # "DISCONNECTED"
        /\ UNCHANGED <<state, pc, it>>
        /\ session' = Hears(session, Head(result.messages))
    BY DEF SendMessage, isConnected
  <1>2. /\ result'.given /\ result'.newState = result.newState
        /\ result'.messages = Tail(result.messages) /\ result.messages \in Seq(Commands)
    BY <1>a DEF SendMessage, TypeOK, BotType, Result
  <1>3. pc \notin Silent
    BY <1>a, <1>1 DEF ResultInv, LastPassInv, Silent, Final, Passes
  <1>4. plugIns'[1] = plugIns[1]
    BY <1>a DEF SendMessage, onPacketSent, LineUpInv, LineUp
  <1>5. CASE session = "opened"
    <2>1. Greeting /\ result.messages = <<"NICK", "USER">> /\ pc = "onConnect"
      BY <1>a, <1>1, <1>3, <1>5 DEF Greeting
    <2>2. Head(result.messages) = "NICK" /\ Tail(result.messages) = <<"USER">>
      BY <2>1
    <2>3. session' = "nick"
      BY <1>1, <1>5, <2>2 DEF Hears
    <2>4. Greeting'
      BY <1>1, <1>2, <1>4, <2>1, <2>2, <2>3 DEF Greeting
    <2>. QED BY <1>1, <1>5, <2>1, <2>3, <2>4
  <1>6. CASE session = "nick"
    <2>1. Greeting /\ result.messages = <<"USER">> /\ pc = "onConnect"
      BY <1>a, <1>1, <1>3, <1>6 DEF Greeting
    <2>2. Head(result.messages) = "USER" /\ Tail(result.messages) = <<>>
      BY <2>1
    <2>3. session' = "registered"
      BY <1>1, <1>6, <2>2 DEF Hears
    <2>4. JustTalks(result')
      BY <1>2, <2>2, NothingIsTalk
    <2>5. plugIns'[1].memory = "SENT"
      BY <1>1, <1>4, <1>6, <2>1 DEF Greeting
    <2>. QED BY <1>6, <2>3, <2>4, <2>5
  <1>7. CASE session = "registered" /\ JustTalks(result)
    <2>1. /\ Head(result.messages) = result.messages[1] /\ 1 \in DOMAIN result.messages
          /\ \A n \in DOMAIN Tail(result.messages) :
               n + 1 \in DOMAIN result.messages /\ Tail(result.messages)[n] = result.messages[n + 1]
      BY <1>1, <1>2, HeadTailProperties
    <2>2. session' = "registered"
      BY <1>1, <1>7, <2>1 DEF JustTalks, Hears
    <2>3. JustTalks(result')
      BY <1>2, <1>7, <2>1 DEF JustTalks
    <2>. QED BY <1>a, <1>1, <1>4, <1>7, <2>2, <2>3
  <1>8. CASE session = "registered" /\ pc = "onDisconnecting" /\ result.messages = <<"QUIT">>
    <2>1. Head(result.messages) = "QUIT" /\ Tail(result.messages) = <<>>
      BY <1>8
    <2>2. session' = "quit"
      BY <1>1, <1>8, <2>1 DEF Hears
    <2>. QED BY <1>1, <1>2, <1>8, <2>1, <2>2
  <1>. QED BY <1>a, <1>1, <1>3, <1>5, <1>6, <1>7, <1>8

\* SessionInv is inductive.
LEMMA SessionStep ==
    ASSUME ConstantsAssumption, KInv, [Next]_vars
    PROVE  SessionInv'
  <1>. USE DEF SessionInv, OpeningInv, RegisteredInv, QuitInv
  <1>a. /\ TypeOK /\ TypeOK' /\ ResultInv /\ LineUpInv /\ LastPassInv
        /\ DisconnectingInv /\ SessionInv
    BY NextType DEF KInv, IInv
  <1>1. CASE Calls
    BY <1>1, <1>a, SessionCall
  <1>2. CASE SendMessage
    BY <1>2, SessionSend
  <1>3. CASE SendFails
    <2>1. /\ result.given /\ result.messages # <<>> /\ state # "DISCONNECTED" /\ state' = "DISCONNECTED"
          /\ UNCHANGED <<plugIns, pc, session>>
      BY <1>3 DEF SendFails, history, isConnected
    <2>2. /\ result'.newState = result.newState /\ result'.messages = Tail(result.messages)
          /\ result.messages \in Seq(Commands)
      BY <1>3, <1>a DEF SendFails, TypeOK, BotType, Result
    <2>3. JustTalks(result) \/ result.messages = <<"QUIT">> => JustTalks(result')
      <3>1. \A n \in DOMAIN Tail(result.messages) :
               n + 1 \in DOMAIN result.messages /\ Tail(result.messages)[n] = result.messages[n + 1]
        BY <2>1, <2>2, HeadTailProperties
      <3>2. result.messages = <<"QUIT">> => Tail(result.messages) = <<>>
        OBVIOUS
      <3>. QED BY <2>2, <3>1, <3>2, NothingIsTalk DEF JustTalks
    <2>. QED BY <1>a, <2>1, <2>2, <2>3 DEF Greeting
  <1>4. CASE SendKills
    BY <1>4, <1>a, OutcomesAre, NothingIsTalk DEF SendKills, history, Silent, Final
  <1>5. CASE FinishResult
    <2>1. /\ result.given /\ (result.messages = <<>> \/ state = "DISCONNECTED")
          /\ state' = IF result.newState = "NOP" THEN state ELSE result.newState
          /\ result' = NoResult /\ UNCHANGED <<pc, session>>
      BY <1>5 DEF FinishResult, isConnected, history
    <2>2. plugIns'[1] = plugIns[1]
      BY <1>5, <1>a, RegistryEffect DEF LineUpInv, LineUp
    <2>3. JustTalks(NoResult) /\ ~NoResult.given
      BY OutcomesAre, NothingIsTalk
    <2>4. session \in {"opened", "nick"} /\ pc \notin Silent => ~Greeting
      <3>1. <<"NICK", "USER">> # <<>> /\ <<"USER">> # <<>>
        OBVIOUS
      <3>. QED BY <2>1, <3>1 DEF Greeting
    <2>5. session = "quit" /\ pc \notin Silent => state' = "DISCONNECTED"
      BY <1>a, <2>1 DEF DisconnectingInv
    <2>. QED BY <1>a, <2>1, <2>2, <2>3, <2>4, <2>5
  <1>6. CASE PassDone
    <2>1. /\ pc \in Passes /\ it = End /\ ~result.given
          /\ UNCHANGED <<plugIns, result, state, session>>
      BY <1>6, <1>a DEF PassDone, ResultInv, history
    <2>2. \A i : ~ToCome(i)
      BY <2>1 DEF ToCome
    <2>3. session \in {"opened", "nick"} /\ pc \notin Silent => state = "DISCONNECTED" /\ pc = "onConnect"
      BY <1>a, <2>1, <2>2 DEF Greeting
    <2>4. pc = "onDisconnecting" => state = "DISCONNECTED"
      BY <1>a, <2>1, <2>2 DEF DisconnectingInv
    <2>5. pc = "onDisconnected" => pc' \in Silent
      BY <1>6 DEF PassDone, Goto, Silent, Final
    <2>6. (pc = "onConnect" \/ pc = "onDisconnecting") /\ state = "DISCONNECTED" => pc' = "onDisconnected"
      BY <1>6 DEF PassDone, Goto, isConnected
    <2>7. "onDisconnected" \in Silent /\ (pc # "onDisconnected" => pc \notin Silent)
      BY <2>1 DEF Silent, Passes, Final
    <2>8. JustTalks(result)' = JustTalks(result) /\ plugIns'[1].memory = plugIns[1].memory
      BY <2>1 DEF JustTalks
    <2>9. session \in {"opened", "nick", "quit"} => pc' \in Silent
      BY <1>a, <2>1, <2>3, <2>4, <2>5, <2>6, <2>7
    <2>10. session = "registered" => RegisteredInv'
      <3>1. pc' \notin Silent => pc \notin Silent \cup {"onDisconnecting"}
        BY <2>1, <2>4, <2>5, <2>6, <2>7
      <3>2. session = "registered" => JustTalks(result)
        BY <1>a, <2>1
      <3>. QED BY <1>a, <2>1, <2>8, <3>1, <3>2
    <2>. QED BY <1>a, <2>1, <2>9, <2>10
  <1>7. CASE LogThrows \/ Sleep \/ TakeLine \/ ProcessMessage
    <2>1. /\ pc \in {"onPacket", "sleep", "receiveMessage", "processMessage"}
          /\ ~result.given /\ UNCHANGED <<plugIns, result, session>>
      BY <1>7, <1>a DEF LogThrows, Sleep, TakeLine, ProcessMessage, ResultInv, Passes, history
    <2>2. pc' # "onDisconnecting" /\ pc \notin Silent \cup {"onDisconnecting", "onConnect"}
      BY <1>7, <2>1 DEF LogThrows, Sleep, TakeLine, ProcessMessage, Goto, LoopBody, Silent, Final
    <2>3. JustTalks(result)' = JustTalks(result)
      BY <2>1 DEF JustTalks
    <2>. QED BY <1>a, <2>1, <2>2, <2>3
  <1>8. CASE RecreateSocket
    <2>1. state = "CONNECTING" /\ pc = "recreateSocket" /\ ~result.given
      BY <1>8 DEF RecreateSocket, KInv, IInv, DisconnectedInv, ResultInv, isConnected, Passes
    <2>2. session' = "opened" /\ UNCHANGED <<state, plugIns, result>> /\ Goto("onConnect")
      BY <1>8, <2>1 DEF RecreateSocket, LoopBody
    <2>3. 1 \in DOMAIN plugIns /\ plugIns[1].memory = "NOP"
      BY <1>a, <2>1 DEF LineUpInv, LineUp, LastPassInv, PlugInsAreReset
    <2>4. ToCome(1)'
      BY <1>a, <2>1, <2>2, <2>3, PassBegins DEF Passes
    <2>. QED BY <2>1, <2>2, <2>3, <2>4 DEF Greeting, Goto
  <1>9. CASE RecreateFails
    <2>1. /\ pc = "recreateSocket" /\ pc' = "uncaught" /\ UNCHANGED <<session, result>>
      BY <1>9 DEF RecreateFails, Goto, history
    <2>2. pc' \in Silent /\ (JustTalks(result)' = JustTalks(result))
      BY <2>1 DEF Silent, Final, JustTalks
    <2>. QED BY <1>a, <2>1, <2>2
  <1>10. CASE UNCHANGED bot /\ UNCHANGED session
    BY <1>10, <1>a DEF bot, Greeting, ToCome, Meets, Before, JustTalks
  <1>11. Receive \/ Environment \/ UNCHANGED vars => UNCHANGED bot /\ UNCHANGED session
    BY EnvironmentEffect DEF Receive, vars, history
  <1>. QED
    BY <1>1, <1>2, <1>3, <1>4, <1>5, <1>6, <1>7, <1>8, <1>9, <1>10, <1>11
    DEF Next, Run, Calls, Terminated

-----------------------------------------------------------------------------
(* The theorems.                                                            *)

\* Who is registered and what the last pass has done: inductive with IInv, for every
\* priority of PlugInDisconnect.
LInv == IInv /\ LineUpInv /\ LastPassInv

LEMMA LineUpInvariance == Spec => []LInv
  <1>1. ASSUME ConstantsAssumption, Init
        PROVE  LInv
    <2>1. IInv
      BY <1>1, InitInv
    <2>2. PICK priority \in DisconnectPriorities : plugIns = Startup(priority)
      BY <1>1 DEF Init
    <2>3. LineUpInv
      BY <1>1, <2>2, StartupLineUp DEF LineUpInv
    <2>4. pc = "onConnect"
      BY <1>1 DEF Init
    <2>. QED BY <2>1, <2>3, <2>4 DEF LInv, LastPassInv, PlugInsAreReset, ReconnectGoesOn
  <1>2. ASSUME ConstantsAssumption, LInv, [Next]_vars
        PROVE  LInv'
    BY <1>2, InvStep, LineUpStep, LastPassStep DEF LInv, IInv
  <1>3. Init => LInv
    BY <1>1, ConstantsAssumption
  <1>4. LInv /\ [Next]_vars => LInv'
    BY <1>2, ConstantsAssumption
  <1>. QED BY <1>3, <1>4, PTL DEF Spec

\* A new socket finds every plug-in reset, whatever was registered or unregistered
\* before and at whatever priorities (the onDisconnect() handlers, and the pass over
\* them in run()).
THEOREM SocketsFindPlugInsReset == Spec => []PlugInsAreReset
  <1>1. LInv => PlugInsAreReset
    BY DEF LInv, LastPassInv
  <1>. QED BY <1>1, LineUpInvariance, PTL

\* With --reconnect run() never just returns, wherever PlugInReconnect stands in the
\* pass.
THEOREM ReconnectNeverReturns == Spec => []ReconnectGoesOn
  <1>1. LInv => ReconnectGoesOn
    BY DEF LInv, LastPassInv
  <1>. QED BY <1>1, LineUpInvariance, PTL

\* The server hears a session as it expects one, if PlugInReconnect does not come after
\* PlugInDisconnect in the onDisconnect() pass.
LEMMA SessionInvariance ==
    ASSUME DisconnectsLast
    PROVE  Spec => []KInv
  <1>1. ASSUME ConstantsAssumption, Init, LInv
        PROVE  KInv
    <2>1. /\ pc = "onConnect" /\ state = "CONNECTING" /\ session = "opened" /\ result = NoResult
          /\ it \in Foremost(plugIns, "onConnect", DOMAIN plugIns)
      BY <1>1 DEF Init
    <2>2. ~result.given
      BY <2>1, OutcomesAre
    <2>3. PICK priority \in DisconnectPriorities : plugIns = Startup(priority)
      BY <1>1 DEF Init
    <2>4. 1 \in DOMAIN plugIns
      BY <1>1 DEF LInv, LineUpInv, LineUp
    <2>5. ToCome(1)
      <3>1. it \in DOMAIN plugIns /\ (1 = it \/ Before(plugIns, it, 1))
        BY <2>1, <2>4 DEF Foremost, Passes, ReversePasses
      <3>2. it # End
        BY <1>1, <3>1, PlugInsAre DEF LInv, IInv
      <3>. QED BY <2>1, <2>2, <3>1, <3>2 DEF ToCome, Meets, ReversePasses
    <2>6. plugIns[1].memory = "NOP"
      BY <2>3, <2>4, StartupLineUp, ConstantsAssumption
    <2>7. Greeting
      BY <2>1, <2>2, <2>5, <2>6 DEF Greeting
    <2>. QED BY <1>1, <2>1, <2>7
         DEF KInv, LInv, DisconnectingInv, SessionInv, OpeningInv, RegisteredInv, QuitInv
  <1>2. ASSUME ConstantsAssumption, KInv, LInv', [Next]_vars
        PROVE  KInv'
    BY <1>2, DisconnectingStep, SessionStep DEF KInv, LInv
  <1>3. Init /\ LInv => KInv
    BY <1>1, ConstantsAssumption
  <1>4. KInv /\ LInv' /\ [Next]_vars => KInv'
    BY <1>2, ConstantsAssumption
  <1>. QED BY <1>3, <1>4, LineUpInvariance, PTL DEF Spec

\* Without --reconnect NICK and USER come first, and once, whatever the uninitialised
\* priority of PlugInDisconnect: PlugInConnect's memory and the state CONNECTING together
\* see to that.
THEOREM HandshakeComesFirst ==
    ASSUME ~Reconnect
    PROVE  Spec => []HandshakeFirst
  <1>1. KInv => HandshakeFirst
    BY DEF KInv, SessionInv, HandshakeFirst
  <1>2. DisconnectsLast
    BY DEF DisconnectsLast
  <1>. QED BY <1>1, <1>2, SessionInvariance, PTL

\* Without --reconnect nothing follows QUIT, whatever the uninitialised priority of
\* PlugInDisconnect: the bot is disconnected before any other plug-in can speak.
THEOREM QuitComesLast ==
    ASSUME ~Reconnect
    PROVE  Spec => []QuitIsLast
  <1>1. KInv => QuitIsLast
    BY DEF KInv, SessionInv, QuitIsLast
  <1>2. DisconnectsLast
    BY DEF DisconnectsLast
  <1>. QED BY <1>1, <1>2, SessionInvariance, PTL

\* Every step of the bot and its environment is a step of IRCSession, or none of its
\* business.
LEMMA SessionRefinement ==
    ASSUME ConstantsAssumption, KInv, KInv', [Next]_vars
    PROVE  [Promise!Next]_(Promise!vars)
  <1>. USE DEF Promise!vars, Promise!Next
  <1>a. /\ SessionInv /\ NoSocketAbandoned /\ NoSocketAbandoned' /\ ResultInv
        /\ session # "afterQuit"
    BY DEF KInv, IInv, DisconnectedInv, SessionInv
  <1>b. SocketIsOver <=> Promise!Over
    BY <1>a DEF SocketIsOver, Promise!Over
  <1>c. ASSUME UNCHANGED <<session, link, conn>>, pc \notin Final, pc' \notin Final \/ Promise!Over
        PROVE  [Promise!Next]_(Promise!vars)
    BY <1>c DEF Promise!Stop
  <1>1. CASE Calls
    <2>1. UNCHANGED <<session, link, conn, pc>>
      BY <1>1, CallsEffect DEF server, history
    <2>. QED BY <2>1
  <1>2. CASE SendMessage
    <2>1. UNCHANGED <<link, conn, pc>> /\ pc \notin Final
      BY <1>2, <1>a DEF SendMessage, server, ResultInv, Passes, Final
    <2>. QED BY <1>2, <2>1, SessionSend DEF Promise!Nick, Promise!User, Promise!Quit, Promise!Say
  <1>3. CASE SendFails \/ FinishResult
    <2>1. UNCHANGED <<session, link, conn, pc>>
      BY <1>3 DEF SendFails, FinishResult, server, history
    <2>. QED BY <2>1
  <1>4. CASE SendKills
    <2>1. UNCHANGED <<session, link, conn>> /\ pc \notin Final /\ link = "closed"
      BY <1>4, <1>a DEF SendKills, server, history, ResultInv, Passes, Final
    <2>. QED BY <1>c, <2>1 DEF Promise!Over
  <1>5. CASE PassDone
    <2>1. UNCHANGED <<session, link, conn>> /\ pc \in Passes
      BY <1>5 DEF PassDone, server, history
    <2>2. pc' \in Final => pc' = "exit"
      BY <1>5 DEF PassDone, Goto, Passes, Final
    <2>3. pc' = "exit" => SocketIsOver
      BY <1>a, <2>1 DEF NoSocketAbandoned, SocketIsOver
    <2>. QED BY <1>b, <1>c, <2>1, <2>2, <2>3 DEF Passes, Final
  <1>6. CASE LogThrows \/ Sleep \/ Receive \/ TakeLine \/ ProcessMessage
    <2>1. UNCHANGED <<session, link, conn>>
      BY <1>6 DEF LogThrows, Sleep, Receive, TakeLine, ProcessMessage, server, history
    <2>2. pc \notin Final /\ pc' \notin Final
      BY <1>6 DEF LogThrows, Sleep, Receive, TakeLine, ProcessMessage, Goto, LoopBody, Final, bot
    <2>. QED BY <1>c, <2>1, <2>2
  <1>7. CASE RecreateSocket
    <2>1. /\ session' = "opened" /\ link' = "up" /\ conn' = conn + 1
          /\ pc = "recreateSocket" /\ pc' \notin Final
      BY <1>7 DEF RecreateSocket, Goto, LoopBody, Final
    <2>2. Promise!Over
      BY <1>a, <1>b, <2>1 DEF NoSocketAbandoned
    <2>. QED BY <2>1, <2>2 DEF Promise!Redial, Final
  <1>8. CASE RecreateFails
    <2>1. UNCHANGED <<session, link, conn>> /\ pc = "recreateSocket"
      BY <1>8 DEF RecreateFails, server, history
    <2>. QED BY <1>a, <1>b, <1>c, <2>1 DEF NoSocketAbandoned, Final
  <1>9. CASE ServerSends \/ ServerContinues
    <2>1. UNCHANGED <<session, link, conn, pc>>
      BY <1>9 DEF ServerSends, ServerContinues, bot, history
    <2>. QED BY <2>1
  <1>10. CASE ServerCloses
    <2>1. link = "up" /\ link' = "closed" /\ UNCHANGED <<session, conn, pc>>
      BY <1>10 DEF ServerCloses, bot, history
    <2>. QED BY <2>1 DEF Promise!Lose
  <1>11. CASE UNCHANGED vars
    BY <1>11 DEF vars, bot, server, history
  <1>. QED
    BY <1>1, <1>2, <1>3, <1>4, <1>5, <1>6, <1>7, <1>8, <1>9, <1>10, <1>11
    DEF Next, Run, Calls, Environment, Terminated

\* The safety part of SessionIsKept without --reconnect, for every line-up of plug-ins,
\* priority of PlugInDisconnect and server: run() and the plug-ins implement IRCSession.
THEOREM SessionIsImplemented ==
    ASSUME ~Reconnect
    PROVE  Spec => Promise!Safety
  <1>0. DisconnectsLast
    BY DEF DisconnectsLast
  <1>1. Init => Promise!Init
    BY DEF Init, Promise!Init, Final
  <1>2. KInv /\ KInv' /\ [Next]_vars => [Promise!Next]_(Promise!vars)
    BY SessionRefinement, ConstantsAssumption
  <1>. QED BY <1>0, <1>1, <1>2, SessionInvariance, PTL DEF Spec, Promise!Safety
=============================================================================
