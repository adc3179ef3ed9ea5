----------------------------- MODULE ChannelLog -----------------------------
(***************************************************************************)
(* PlugInLog: who it takes to be in the channel it logs, and what the rows *)
(* it writes to its database tell about that.  The server knows who is in  *)
(* which channel and sends a message about a change to the bot when the    *)
(* bot can see it; the plug-in processes them later, in order.  A row may  *)
(* fail to be written, as when another process holds the database's lock:  *)
(* LogSQLite throws, and what the handler has left to do is not done.      *)
(*                                                                         *)
(* A definition named ...Mutant is the one after it with a plausible bug;  *)
(* nothing else uses it.                                                   *)
(***************************************************************************)
EXTENDS Naturals, Sequences, FiniteSets

CONSTANTS
    Nicks,      \* nicknames, the bot's among them
    BotNick,
    Channel,    \* PlugInLog::channelName
    Other,      \* a second channel the bot is in
    MaxInbox,   \* bound: messages on their way to the bot
    MaxEvents   \* bound: what happens on the server

ASSUME ChannelLogAssumption ==
    /\ BotNick \in Nicks /\ Channel # Other
    /\ MaxInbox \in Nat /\ MaxEvents \in Nat

VARIABLES
    in,           \* the server: who is in which channel
    inbox,        \* the messages on their way to the bot
    events,       \* bound: how much has happened
    channelUsers, \* PlugInLog::channelUsers
    told,         \* history: who is in the channel by the rows of this connection
    failed,       \* history: the types of messages whose rows failed to be written
    unseen,       \* history: who has left without the plug-in being told
    masked,       \* history: who is in the channel, but came to be listed with a mark
    strayed       \* history: who is in the channel, but has left another one

server  == <<in, events, unseen, masked, strayed>>
plugIn  == <<channelUsers, told, failed>>
vars    == <<server, inbox, plugIn>>

Places == {Channel, Other}

\* A word of the list of users: a nickname, with the mark RPL_NAMREPLY gives to an
\* operator ("@") or to who may speak ("+"), or without.  channelUsers is a list that
\* addChannelUser() keeps free of repetitions, and nothing depends on its order.
Users == [nick : Nicks, marked : BOOLEAN]
Bare(n)   == [nick |-> n, marked |-> FALSE]
Marked(n) == [nick |-> n, marked |-> TRUE]

\* The messages onPacket() does something about.
Message ==
    [type : {"NAMES"}, users : SUBSET Users]
        \cup [type : {"JOIN", "PART", "PRIVMSG"}, nick : Nicks, place : Places]
        \cup [type : {"QUIT"}, nick : Nicks]
        \cup [type : {"NICK"}, nick : Nicks, new : Nicks]

\* The list has one word an entry, a name of somebody (parseChannelUsers()).
TypeOK ==
    /\ in \in [Places -> SUBSET Nicks]
    /\ inbox \in Seq(Message)
    /\ events \in Nat
    /\ channelUsers \in SUBSET Users /\ told \in SUBSET Users
    /\ failed \in SUBSET {"NAMES", "NICK", "QUIT", "JOIN", "PRIVMSG", "PART"}
    /\ unseen \in SUBSET Nicks /\ masked \in SUBSET Nicks /\ strayed \in SUBSET Nicks

\* The bot joins the other channel first.
Memberships ==
    {f \in [Places -> SUBSET Nicks] : BotNick \notin f[Channel] /\ BotNick \in f[Other]}

Init ==
    /\ in \in Memberships
    /\ inbox = <<>> /\ events = 0
    /\ channelUsers = {} /\ told = {} /\ failed = {}
    /\ unseen = {} /\ masked = {} /\ strayed = {}

-----------------------------------------------------------------------------
(* The plug-in: onPacket(), by the type of the message.                    *)

\* One of LogSQLite's log...() functions: either the row is written, and tells this,
\* or it throws.
Write(type, telling) ==
    \/ told' = telling /\ failed' = failed
    \/ told' = told /\ failed' = failed \cup {type}

\* Takes each message for the whole list.
LogNamesAnewMutant(m) ==
    /\ m.type = "NAMES"
    /\ \/ told' = told \cup m.users /\ failed' = failed
          /\ channelUsers' = m.users
       \/ told' = told /\ failed' = failed \cup {"NAMES"}
          /\ channelUsers' = channelUsers

\* Lists the trailing part of the message as it is, all of its words as one.
LogNamesUnparsedMutant(m) ==
    /\ m.type = "NAMES"
    /\ \/ told' = told \cup m.users /\ failed' = failed
          /\ channelUsers' = channelUsers \cup
                 IF Cardinality(m.users) = 1 THEN m.users ELSE {Bare({u.nick : u \in m.users})}
       \/ told' = told /\ failed' = failed \cup {"NAMES"}
          /\ channelUsers' = channelUsers

\* RPL_NAMREPLY about the channel; parseChannelUsers() takes the list word by word.
\* The row comes first here: when it fails, the list is not parsed.
LogNames(m) ==
    /\ m.type = "NAMES"
    /\ \/ told' = told \cup m.users /\ failed' = failed
          /\ channelUsers' = channelUsers \cup m.users
       \/ told' = told /\ failed' = failed \cup {"NAMES"}
          /\ channelUsers' = channelUsers

LogNick(m) ==
    /\ m.type = "NICK"
    /\ IF Bare(m.nick) \in channelUsers
       THEN /\ channelUsers' = (channelUsers \ {Bare(m.nick)}) \cup {Bare(m.new)}
            /\ Write("NICK", (told \ {Bare(m.nick)}) \cup {Bare(m.new)})
       ELSE UNCHANGED plugIn

\* Writes the row before it changes the list.
LogQuitMutant(m) ==
    /\ m.type = "QUIT"
    /\ IF Bare(m.nick) \in channelUsers
       THEN \/ /\ channelUsers' = channelUsers \ {Bare(m.nick)}
               /\ told' = told \ {Bare(m.nick)} /\ failed' = failed
            \/ UNCHANGED <<channelUsers, told>> /\ failed' = failed \cup {"QUIT"}
       ELSE UNCHANGED plugIn

LogQuit(m) ==
    /\ m.type = "QUIT"
    /\ IF Bare(m.nick) \in channelUsers
       THEN /\ channelUsers' = channelUsers \ {Bare(m.nick)}
            /\ Write("QUIT", told \ {Bare(m.nick)})
       ELSE UNCHANGED plugIn

LogJoin(m) ==
    /\ m.type = "JOIN"
    /\ IF m.place = Channel
       THEN /\ channelUsers' = channelUsers \cup {Bare(m.nick)}
            /\ Write("JOIN", told \cup {Bare(m.nick)})
       ELSE UNCHANGED plugIn

LogPrivMsg(m) ==
    /\ m.type = "PRIVMSG"
    /\ channelUsers' = channelUsers
    /\ IF m.place = Channel THEN Write("PRIVMSG", told) ELSE UNCHANGED <<told, failed>>

\* Does not take the user off the list.
LogPartMutant(m) ==
    /\ m.type = "PART"
    /\ channelUsers' = channelUsers
    /\ IF Bare(m.nick) \in channelUsers
       THEN Write("PART", told \ {Bare(m.nick)})
       ELSE UNCHANGED <<told, failed>>

\* Whichever channel the PART is about.
LogPart(m) ==
    /\ m.type = "PART"
    /\ IF Bare(m.nick) \in channelUsers
       THEN /\ channelUsers' = channelUsers \ {Bare(m.nick)}
            /\ Write("PART", told \ {Bare(m.nick)})
       ELSE UNCHANGED plugIn

OnPacket ==
    /\ inbox # <<>>
    /\ inbox' = Tail(inbox)
    /\ LET m == Head(inbox)
       IN LogNames(m) \/ LogNick(m) \/ LogQuit(m) \/ LogJoin(m) \/ LogPrivMsg(m) \/ LogPart(m)
    /\ UNCHANGED server

Reset == channelUsers' = {}

\* The connection ends, at any time and with messages lost, and the plug-in is reset; on
\* the next one the channel may look different.
OnDisconnect ==
    /\ events < MaxEvents /\ events' = events + 1
    /\ Reset
    /\ told' = {} /\ failed' = {} /\ inbox' = <<>>
    /\ unseen' = {} /\ masked' = {} /\ strayed' = {}
    /\ in' \in Memberships

-----------------------------------------------------------------------------
(* The server: what happens in the two channels, and what the bot hears.   *)

Event == events < MaxEvents /\ events' = events + 1 /\ UNCHANGED plugIn

Hears(place) == BotNick \in in[place]

Sends(messages) ==
    /\ inbox' = inbox \o messages
    /\ Len(inbox') <= MaxInbox

About(type, n, place) == [type |-> type, nick |-> n, place |-> place]

\* Who is in the channel has not left it.
Left(names) == unseen' = names \ in'[Channel]

Joins(n, place) ==
    /\ Event
    /\ n # BotNick /\ n \notin in[place]
    /\ in' = [in EXCEPT ![place] = @ \cup {n}]
    /\ IF Hears(place) THEN Sends(<<About("JOIN", n, place)>>) ELSE inbox' = inbox
    /\ Left(unseen)
    /\ UNCHANGED <<masked, strayed>>

\* The bot hears its own JOIN and then the names, in one message or in two.
BotJoins ==
    /\ Event
    /\ ~Hears(Channel)
    /\ in' = [in EXCEPT ![Channel] = @ \cup {BotNick}]
    /\ \E marked \in SUBSET in'[Channel], split \in BOOLEAN :
         LET Words(s) == {Bare(n) : n \in s \ marked} \cup {Marked(n) : n \in s \cap marked}
             Names(s) == [type |-> "NAMES", users |-> Words(s)]
         IN /\ Sends(<<About("JOIN", BotNick, Channel)>> \o
                     IF split THEN <<Names({BotNick}), Names(in[Channel])>>
                              ELSE <<Names(in'[Channel])>>)
            /\ masked' = marked \ {BotNick}
    /\ strayed' = {}
    /\ Left(unseen)

\* The bot may leave the channel, by !leave; it stays in the other one.
Parts(n, place) ==
    /\ Event
    /\ n \in in[place] /\ <<n, place>> # <<BotNick, Other>>
    /\ in' = [in EXCEPT ![place] = @ \ {n}]
    /\ IF Hears(place) THEN Sends(<<About("PART", n, place)>>) ELSE inbox' = inbox
    /\ Left(IF Hears(place) THEN unseen \ {n} ELSE unseen \cup {n})
    /\ masked' = masked \cap in'[Channel]
    /\ strayed' = (strayed \cup {n}) \cap in'[Channel]

\* RFC 1459 has KICK; the parser has not.
IsKicked(n) ==
    /\ Event
    /\ n \in in[Channel]
    /\ in' = [in EXCEPT ![Channel] = @ \ {n}]
    /\ Left(unseen \cup {n})
    /\ masked' = masked \ {n} /\ strayed' = strayed \ {n}
    /\ UNCHANGED inbox

Sees(n) == \E place \in Places : Hears(place) /\ n \in in[place]

Quits(n) ==
    /\ Event
    /\ n # BotNick /\ \E place \in Places : n \in in[place]
    /\ in' = [place \in Places |-> in[place] \ {n}]
    /\ IF Sees(n) THEN Sends(<<[type |-> "QUIT", nick |-> n]>>) ELSE inbox' = inbox
    /\ Left(IF Sees(n) THEN unseen \ {n} ELSE unseen \cup {n})
    /\ masked' = masked \ {n} /\ strayed' = strayed \ {n}

Renamed(s, n, new) == IF n \in s THEN (s \ {n}) \cup {new} ELSE s

Renames(n, new) ==
    /\ Event
    /\ n # BotNick /\ \E place \in Places : n \in in[place]
    /\ \A place \in Places : new \notin in[place]
    /\ in' = [place \in Places |-> Renamed(in[place], n, new)]
    /\ IF Sees(n) THEN Sends(<<[type |-> "NICK", nick |-> n, new |-> new]>>) ELSE inbox' = inbox
    /\ Left(IF Sees(n) THEN Renamed(unseen, n, new) ELSE unseen \cup {n})
    /\ masked' = Renamed(masked, n, new) /\ strayed' = Renamed(strayed, n, new)

Says(n, place) ==
    /\ Event
    /\ n \in in[place] /\ n # BotNick /\ Hears(place)
    /\ Sends(<<About("PRIVMSG", n, place)>>)
    /\ UNCHANGED <<in, unseen, masked, strayed>>

Next ==
    \/ OnPacket \/ OnDisconnect \/ BotJoins
    \/ \E n \in Nicks :
         \/ \E place \in Places : Joins(n, place) \/ Parts(n, place) \/ Says(n, place)
         \/ IsKicked(n) \/ Quits(n)
         \/ \E new \in Nicks : Renames(n, new)

Spec == Init /\ [][Next]_vars

-----------------------------------------------------------------------------
(* Properties.                                                             *)

\* Whoever is listed by the bare name is in the channel, once the plug-in has been told
\* of everything, unless the departure is one it is not told of.  A row that failed to
\* be written does not matter: the list is changed first.
ListedAreHere ==
    inbox = <<>> =>
        \A n \in Nicks : Bare(n) \in channelUsers => n \in in[Channel] \cup unseen

\* While the bot is in the channel, whoever is in it is listed by the bare name, but for
\* those a list of names had with a mark, those who have left another channel, and the
\* names in a list that was skipped because its row failed.
MembersAreListed ==
    inbox = <<>> /\ Hears(Channel) /\ "NAMES" \notin failed =>
        \A n \in in[Channel] \ (masked \cup strayed) : Bare(n) \in channelUsers

\* As long as every row is written, the rows tell of the same users as the list.
RowsTellUsers == failed = {} => told = channelUsers
=============================================================================
