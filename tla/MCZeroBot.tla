------------------------------ MODULE MCZeroBot ------------------------------
(***************************************************************************)
(* ZeroBot for TLC: two users, two channels, and the lines the server may  *)
(* send, from which each .cfg takes a set.                                 *)
(***************************************************************************)
EXTENDS ZeroBot

CONSTANTS zero, alice, bob, c1, c2

MCNicks == {zero, alice, bob}
MCChannels == {c1, c2}

Line(type) == [Unparsable EXCEPT !.type = type]
Said(nick, command, arguments) ==
    [type |-> "PRIVMSG", from |-> nick, nick |-> NoNick, channel |-> c1,
     command |-> command, arguments |-> arguments]

Welcome  == Line("ENDOFMOTD")
Objects  == Line("NICKERROR")
Ping     == Line("PING")
Notice   == Line("OTHER")
Names(c) == [Line("CHANNELREPLY") EXCEPT !.channel = c]
Renamed  == [Line("NICK") EXCEPT !.from = zero, !.nick = bob]
QuitAs(nick) == [Said(alice, "quit", <<>>) EXCEPT !.nick = nick]

\* Everything, for a single short connection.
AllMessages == {Welcome, Objects, Ping, Notice, Names(c1), Renamed, QuitAs(NoNick),
                QuitAs(bob), Said(bob, "quit", <<>>), Said(alice, "join", <<c2>>),
                Said(alice, "leave", <<>>), Said(bob, "version", <<>>),
                Said(bob, "url", <<>>)}
\* A session from the greeting to the end.
SessionMessages == {Welcome, Ping, Names(c1), QuitAs(NoNick)}
\* The same, and a channel more or less.
JoinMessages ==
    SessionMessages \cup {Said(alice, "join", <<c2>>), Said(alice, "leave", <<c1>>)}

NoChannels == <<>>
OneChannel == <<c1>>

\* PlugInDisconnect's uninitialised priority: below every other plug-in's, equal
\* to PlugInConnect's as main() intends, among the rest, above every other's.
AnyPriority == {-30, -10, 0, 7}
IntendedPriority == {-10}
LowPriority == {-30}
=============================================================================
