--------------------------- MODULE AdminCommands ---------------------------
(***************************************************************************)
(* The texts of PlugInAdmin: CommandParser, which reads a command out of   *)
(* what somebody says, what the plug-in makes of it, and the nickname it   *)
(* has to know for that, which the server may change at any time.          *)
(*                                                                         *)
(* A text is a sequence of symbols, a symbol a run of characters the code  *)
(* does not look into; white space is one of them, "SP", since             *)
(* CommandParser treats all of it alike.  The server and the users are the *)
(* environment.                                                            *)
(*                                                                         *)
(* A definition named ...Mutant is the one after it with a plausible bug;  *)
(* nothing else uses it.                                                   *)
(***************************************************************************)
EXTENDS Naturals, Sequences, SequencesExt, SortedSets

CONSTANTS
    Symbols,        \* what texts are made of: "SP", ":", "!", "#", the commands, other words
    Nicknames,      \* nicknames there are, each of them a word
    OwnNickname,    \* the one PlugInConnect asks for
    AdminNickname,  \* the one PlugInAdmin obeys
    Users,          \* who else is there
    Bot,            \* the bot, among the clients of the server
    Channel,        \* the channel they are all in
    Texts,          \* what users may say
    MaxSaid,        \* bound: messages,
    MaxChanges,     \* bound: changes of nicknames and lost connections,
    MaxArguments    \* bound: channels that a command names

Words == Seq(Symbols \ {"SP"}) \ {<<>>}

ASSUME SymbolsAssumption ==
    /\ {"SP", ":", "!", "#", "quit", "join", "leave", "version"} \subseteq Symbols
    /\ Channel \in Words /\ Channel[1] = "#" /\ Len(Channel) > 1

ASSUME AdminCommandsAssumption ==
    /\ Nicknames \subseteq Words /\ {OwnNickname, AdminNickname} \subseteq Nicknames
    /\ \A nick \in Nicknames : nick[1] \notin {"!", "#"}  \* RFC 1459, 2.3.1
    /\ Bot \notin Users
    /\ Texts \subseteq Seq(Symbols)
    /\ MaxSaid \in Nat /\ MaxChanges \in Nat /\ MaxArguments \in Nat

Clients == Users \cup {Bot}

\* std::string(): the nickname before NICK is sent, and of a bot that is not registered.
NoNickname == <<>>

VARIABLES
    nickOf,      \* the nickname of each client
    inbox,       \* what the server has sent to the bot, in order
    count,       \* messages and changes so far
    nickname,    \* PlugInAdmin::nickname
    message,     \* the message onPacket() has just been called with, {} for none
    result       \* the PlugInResult it returned, {} for none

vars == <<nickOf, inbox, count, nickname, message, result>>

\* NICK and PRIVMSG, with the nickname the bot had when the server sent it.
NickMessage(nick, newNick) ==
    [type |-> "NICK", to |-> nickOf[Bot], nick |-> nick, newNick |-> newNick]
PrivMessage(nick, receiver, text) ==
    [type |-> "PRIVMSG", to |-> nickOf[Bot], nick |-> nick, receiver |-> receiver, text |-> text]

NickMessages == [type : {"NICK"}, to : Nicknames, nick : Nicknames, newNick : Nicknames]
PrivMessages == [type : {"PRIVMSG"}, to : Nicknames, nick : Nicknames,
                 receiver : Nicknames \cup {Channel}, text : Seq(Symbols)]
Message == NickMessages \cup PrivMessages

\* Whether the new state is DISCONNECTING, the channels of the new PlugInJoins, those of
\* the PARTs and the PlugInJoins to be unregistered, and who is told the version.
PlugInResult == [quit : BOOLEAN, join : Seq(Words), part : Seq(Words), version : SUBSET Nicknames]

TypeOK ==
    /\ nickOf \in [Clients -> Nicknames \cup {NoNickname}]
    /\ inbox \in Seq(Message) /\ message \subseteq Message
    /\ count \in [said : 0..MaxSaid, changes : 0..MaxChanges]
    /\ nickname \in Nicknames \cup {NoNickname}
    /\ result \subseteq PlugInResult

Init ==
    /\ nickOf \in {f \in [Clients -> Nicknames \cup {NoNickname}] :
                      /\ f[Bot] = NoNickname
                      /\ \A u \in Users : f[u] # NoNickname
                      /\ \A u, v \in Users : f[u] = f[v] => u = v}
    /\ inbox = <<>> /\ count = [said |-> 0, changes |-> 0]
    /\ nickname = NoNickname /\ message = {} /\ result = {}

-----------------------------------------------------------------------------
(* CommandParser.                                                          *)

trim(text) ==
    LET black == {i \in DOMAIN text : text[i] # "SP"}
    IN  IF black = {} THEN <<>> ELSE SubSeq(text, Min(black), Max(black))

\* Leaves the space to the next word.
extractWordsMutant(text) ==
    LET ends == {i \in 1..(Len(text) + 1) : i \in DOMAIN text => text[i] = "SP"}
        Start(i) == Max({1} \cup {j \in ends : j < i})
        in == Sorted({i \in ends : i > 1})
    IN  [k \in DOMAIN in |-> SubSeq(text, Start(in[k]), in[k] - 1)]

\* The words extractWord() yields until it yields an empty one.
extractWords(text) ==
    LET ends == {i \in 1..(Len(text) + 1) : i \in DOMAIN text => text[i] = "SP"}
        Start(i) == Max({0} \cup {j \in ends : j < i}) + 1
        empty == {i \in ends : Start(i) = i}
        in == Sorted({i \in ends : \A j \in empty : i < j})
    IN  [k \in DOMAIN in |-> SubSeq(text, Start(in[k]), in[k] - 1)]

\* Looks at the first word only for an address.
IsForeignMutant(words, k, nick) == k = 1 /\ Last(words[k]) = ":" /\ words[k] # Append(nick, ":")

\* Before the command a word with a colon at its end addresses somebody else.
IsForeign(words, k, nick) == Last(words[k]) = ":" /\ words[k] # Append(nick, ":")

IsCommand(word) == Head(word) = "!" /\ Len(word) > 1

\* The first word that decides; what was said to somebody else is a runtime_error.
parse(nick, text) ==
    LET words == extractWords(trim(text))
        at    == SelectInSeq([k \in DOMAIN words |-> k],
                             LAMBDA k : IsForeign(words, k, nick) \/ IsCommand(words[k]))
    IN  CASE at = 0 -> [is |-> "parsed", command |-> <<>>, arguments |-> <<>>]
          [] at # 0 /\ IsForeign(words, at, nick) -> [is |-> "runtime_error"]
          [] OTHER -> [is |-> "parsed", command |-> Tail(words[at]),
                       arguments |-> SubSeq(words, at + 1, Len(words))]

-----------------------------------------------------------------------------
(* PlugInAdmin::onPacket().                                                *)

checkForCommand(text) == IsPrefix(Append(nickname, ":"), text) \/ IsPrefix(<<"!">>, text)

IsChannel(receiver) == Len(receiver) > 1 /\ Head(receiver) = "#"

\* Leaves wherever the message came from.
LeaveMutant(m, arguments) == IF arguments # <<>> THEN arguments ELSE <<m.receiver>>

\* What !leave leaves.
Leave(m, arguments) ==
    IF arguments # <<>> THEN arguments
    ELSE IF IsChannel(m.receiver) THEN <<m.receiver>> ELSE <<>>

parseCommandMessage(m) ==
    LET parser   == parse(nickname, m.text)
        admin(c) == m.nick = AdminNickname /\ parser.command = <<c>>
    IN  IF parser.is = "runtime_error" THEN {}
        ELSE {[quit    |-> admin("quit"),
               join    |-> IF admin("join") THEN parser.arguments ELSE <<>>,
               part    |-> IF admin("leave") THEN Leave(m, parser.arguments) ELSE <<>>,
               version |-> IF parser.command = <<"version">> THEN {m.nick} ELSE {}]}

\* Takes any change of a nickname for its own.
TrackMutant(m) == IF nickname # NoNickname THEN m.newNick ELSE nickname

Track(m) == IF nickname # NoNickname /\ m.nick = nickname THEN m.newNick ELSE nickname

OnPacket ==
    /\ inbox # <<>>
    /\ LET m == Head(inbox) IN
       /\ message' = {m}
       /\ nickname' = IF m.type = "NICK" THEN Track(m) ELSE nickname
       /\ result' = IF m.type = "PRIVMSG" /\ checkForCommand(m.text) THEN parseCommandMessage(m) ELSE {}
    /\ inbox' = Tail(inbox)
    /\ UNCHANGED <<nickOf, count>>

\* PlugInConnect's NICK has been sent on a new connection; the server takes it or, when
\* somebody has that nickname, does not.
OnPacketSent ==
    /\ nickOf[Bot] = NoNickname
    /\ nickname' = OwnNickname
    /\ nickOf' = [nickOf EXCEPT ![Bot] = IF \E u \in Users : nickOf[u] = OwnNickname THEN NoNickname
                                                                                ELSE OwnNickname]
    /\ message' = {} /\ result' = {}
    /\ UNCHANGED <<inbox, count>>

-----------------------------------------------------------------------------
(* The server and the users.                                               *)

Change == count.changes < MaxChanges /\ count' = [count EXCEPT !.changes = @ + 1]

Registered == nickOf[Bot] # NoNickname

\* A user changes the nickname, or the server changes the bot's.
Rename ==
    /\ Change
    /\ \E c \in Clients, nick \in Nicknames :
         /\ nickOf[c] # NoNickname /\ \A d \in Clients : nickOf[d] # nick
         /\ nickOf' = [nickOf EXCEPT ![c] = nick]
         /\ inbox' = IF Registered THEN Append(inbox, NickMessage(nickOf[c], nick)) ELSE inbox
    /\ message' = {} /\ result' = {}
    /\ UNCHANGED nickname

Say ==
    /\ Registered /\ count.said < MaxSaid
    /\ \E u \in Users, receiver \in {Channel, nickOf[Bot]}, text \in Texts :
         inbox' = Append(inbox, PrivMessage(nickOf[u], receiver, text))
    /\ count' = [count EXCEPT !.said = @ + 1]
    /\ message' = {} /\ result' = {}
    /\ UNCHANGED <<nickOf, nickname>>

ConnectionLost ==
    /\ Change /\ Registered
    /\ nickOf' = [nickOf EXCEPT ![Bot] = NoNickname]
    /\ inbox' = <<>> /\ message' = {} /\ result' = {}
    /\ UNCHANGED nickname

Next == OnPacket \/ OnPacketSent \/ Rename \/ Say \/ ConnectionLost

Spec == Init /\ [][Next]_vars

-----------------------------------------------------------------------------
(* Properties.                                                             *)

\* After any changes of nicknames, on any connection: what PlugInAdmin takes for the
\* bot's nickname is the one the server had for it when it sent the next message.
NickIsTracked ==
    Registered => nickname = IF inbox = <<>> THEN nickOf[Bot] ELSE Head(inbox).to

Address(nick) == nick \o <<":">>

\* The commands that a result does.
Obeyed(r) ==
    {c \in {"quit", "join", "leave", "version"} :
        \/ c = "quit" /\ r.quit
        \/ c = "join" /\ r.join # <<>>
        \/ c = "leave" /\ r.part # <<>>
        \/ c = "version" /\ r.version # {}}

\* A command that is obeyed is a word of what was said, which begins with a command or
\* with the nickname the bot had then, and no word before it addresses anybody else; it
\* was the admin who said it, unless it asks for the version.
ObeyedIsMeant ==
    \A r \in result, m \in message : \A c \in Obeyed(r) :
        /\ c \in {"quit", "join", "leave"} => m.nick = AdminNickname
        /\ m.text[1] = "!" \/ IsPrefix(Address(m.to), m.text)
        /\ \E at \in 1..(Len(m.text) - 1) :
             /\ m.text[at] = "!" /\ m.text[at + 1] = c
             /\ at > 1 => m.text[at - 1] = "SP"
             /\ at + 1 < Len(m.text) => m.text[at + 2] = "SP"
             /\ \A i \in 2..(at - 1) : m.text[i] = "SP" /\ m.text[i - 1] = ":" =>
                  \E j \in 1..(i - 1) : /\ SubSeq(m.text, j, i - 1) = Address(m.to)
                                        /\ j > 1 => m.text[j - 1] = "SP"

\* The text of a command with its arguments, as one writes it.
Command(command, arguments) ==
    <<"!", command>> \o FlattenSeq([k \in DOMAIN arguments |-> <<"SP">> \o arguments[k]])

\* What the admin writes with one space between two words, alone or after the bot's
\* nickname, is done to the channels it names, all of them and no other; without a
\* name, to the channel it was said in, and to none when said to the bot alone.
NamedIsDone ==
    \A m \in message : m.type = "PRIVMSG" /\ m.nick = AdminNickname =>
        \A n \in 0..MaxArguments : \A arguments \in [1..n -> {Channel, <<"#">>}],
                                      address \in {<<>>, Address(m.to) \o <<"SP">>} :
            /\ m.text = address \o Command("leave", arguments) =>
                 \E r \in result : r.part = IF n > 0 THEN arguments
                                            ELSE IF m.receiver = Channel THEN <<Channel>> ELSE <<>>
            /\ m.text = address \o Command("join", arguments) =>
                 \E r \in result : r.join = arguments /\ r.part = <<>>
=============================================================================
