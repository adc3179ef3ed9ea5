# zerobot in TLA+

zerobot is an IRC bot: one process, one thread, one connection to one server. `main()`
registers plug-ins in a container ordered by priority, and `ZeroBot::run()` loops over
them: `onConnect()` until the bot is registered with the server, `onPacket()` for each
line received, `onTimeTrigger()` once per iteration, `onDisconnect()` when the connection
ends. What a handler wants - messages to send, a new state of the bot, channels to
register or unregister a plug-in for - it returns in a `PlugInResult`, which
`processResult()` works off while the loop over the plug-ins is under way.

The code is sequential, and still hard to test: the order of the handlers of a pass is a
matter of numbers chosen in nine files, handlers act on a state that an earlier handler of
the same pass may have changed, TCP delivers lines in pieces and loses the connection
between any two calls, an exception may cut a pass short, and what is in a buffer or in a
plug-in's memory survives from one connection to the next. These modules are about that.

Paths below are relative to the repository.

## Inventory

| component | state | operations | what makes it correct |
|---|---|---|---|
| main loop, `src/zerobot.cpp` | `state` (CONNECTING, CONNECTED, DISCONNECTING, DISCONNECTED), `plugIns`, `socket`, `buffer` | `run`, `receiveMessages`, `receiveMessage`, `processMessage`, `processResult`, `sendMessage`, `timeTriggerPlugins`, `sleep`, `registerPlugIn`, `unregisterPlugIn` | a lost connection is acted on, a working one is not dropped, no line waits, each connection starts from scratch |
| start-up, `src/main.cpp` | the options | `main` | the plug-ins are in the order the loops need |
| container, `include/priority_queue.hpp` | a multimap | iteration both ways, `insert`, `erase` | an iterator stays valid while plug-ins come and go |
| plug-in interface, `plugins/base.*` | - | `PlugIn`, `PlugInResult`, `CommandParser` | a text is read as the command it is, and only by the bot it is meant for |
| connect, disconnect, join, nickserv, reconnect | a small enumeration each | the handlers | the order NICK, USER, JOIN, ..., QUIT on every socket |
| admin | the bot's nickname | `onPacket` (`!quit`, `!join`, `!leave`, `!version`), `onPacketSent` | only the admin's commands count, the nickname is the right one, what is named is done |
| pingpong | `lastPing`, `lastPong` | `onPacket`, `onTimeTrigger`, `onDisconnect` | a dead server is noticed, a living one is kept |
| log, `plugins/log.*`, `lib/irc/log_sqlite.*` | `channelUsers`, a database | `onPacket`, `onDisconnect`, the `log...` functions | the list is who is there, the rows tell the truth |
| urltitle, `plugins/urltitle.*` | the download's `buffer`, `resultDocument`, `title` | `onPacket`, libcurl's, libtidy's and expat's callbacks, `canonicalizeTitle` | the URL is a word of the message, the buffer the page's beginning, the title one clean line |
| messages and parser, `lib/irc/*` | - | `parseString`, `parseMessage`, `operator<<`, `operator RawMessage` | what the RFC has is parsed, what is said arrives as it was meant, a bad line harms nothing |
| client socket, `posix/socket.*`, `client_socket.*` | a descriptor | `receive`, `send`, the constructor, the destructor | errors are exceptions, a closed connection is told from a quiet one, no descriptor leaks |
| server sockets, `posix/server_socket.*` | the listening descriptor, `clientSockets` | the constructors, `process`, `accept`, `shutdownClient`, `sendAll`, the destructor | every client is heard, whoever is shut down is reported closed, the clients are the connections; part of the build, used by no plug-in |
| secret storage, random numbers, version, web viewer | | | |

How they interact: everything is a direct call in one thread. The main loop calls the
plug-ins, the plug-ins answer with results, `sendMessage()` tells every plug-in of every
message sent (`onPacketSent()`). The concurrency is with the world: the server and the
network act between any two calls of the bot, another process may hold the lock of the
log's database, the clock runs, a web server sends a page in pieces of its own, the peers
of a server socket write and leave while `process()` works through what `select()` said. `PROJECT.json` lists the hazards line by line.

## Modules

| module | models |
|---|---|
| `ZeroBot` | the main loop, the container, `main()`'s registration, every plug-in as far as the loop is concerned, the client socket; and a server |
| `IRCSession` | the abstract specification: what the server sees of the bot, socket by socket; `Safety` and, with fairness, `Spec` |
| `PingPong` | `PlugInPingPong` with its clock |
| `ChannelLog` | `PlugInLog` and the rows of `LogSQLite` |
| `IRCParser` | `RawParser`, `Parser::parseMessage`, `operator<<` and the conversions of messages to and from `RawMessage` |
| `AdminCommands` | `CommandParser` and `PlugInAdmin`, by texts and nicknames |
| `URLTitle` | `PlugInURLTitle` with its downloader, tidier and title parser |
| `SocketSetup` | the constructors of `ClientSocket` and `ServerSocket`, the destructor of `Socket` |
| `MultiSocket` | `ServerMultiSocket`; it extends `SocketSetup`, so that a behaviour goes from the constructor to the destructor |
| `SortedSets` | the elements of a set of numbers in their order, which the models of texts use for positions in a line |
| `ZeroBotProofs`, `PingPongProofs`, `ChannelLogProofs`, `IRCParserProofs`, `AdminCommandsProofs`, `URLTitleProofs`, `MultiSocketProofs` | theorems about the module each extends |
| `SequenceLemmas` | lemmas about `SortedSets` and the community modules' operators: induction over the naturals, least and greatest elements, sorted sets, induction over sequences, folds, pieces of sequences |
| `MCZeroBot`, `MCPingPong`, `MCChannelLog`, `MCIRCParser`, `MCAdminCommands`, `MCURLTitle`, `MCMultiSocket` | the constants for TLC |

An operator named `...Mutant` is the definition it precedes with a slip put in: a missing
reset, a wrong variable, a swapped order. No specification uses one. Put in the place of
the definition it makes TLC find the property it is listed with in `PROJECT.json`
violated, which shows that the property depends on that piece of code.

### ZeroBot

`pc` says where `run()` is: in one of the five passes over the plug-ins, receiving,
processing a line, sleeping, opening a socket, or over. `it` is the iterator of the pass,
`result` what `processResult()` still has to do. Each action is a piece of the code the
server cannot act in between:

| action | code |
|---|---|
| `CallOnConnect`, `CallOnPacket`, `CallOnTimeTrigger`, `CallOnDisconnect` | one call of a handler of the plug-in at `it` (an operator per plug-in and handler, such as `JoinOnTimeTrigger`, chosen by kind in `onTimeTrigger`) |
| `SendMessage`, `SendFails`, `SendKills` | one message of the result: sent, `send()` throws, SIGPIPE |
| `FinishResult` | the rest of `processResult()`, with the registrations |
| `PassDone` | the end of a loop over the plug-ins and the conditions of `run()` after it |
| `Receive`, `TakeLine` | one `recv()`; the first line of the buffer, or the end of `receiveMessages()` |
| `ProcessMessage`, `LogThrows` | a line that does not parse is dropped; an exception of a plug-in drops it half way |
| `Sleep`, `RecreateSocket`, `RecreateFails` | the rest of `run()` |
| `ServerSends`, `ServerContinues`, `ServerCloses` | the world: a line, its head only, its rest; the connection closed or reset |

Decisions of the model worth knowing:

* The plug-ins' kinds, priorities and registration order are `main()`'s. `PlugInDisconnect`
  passes its own uninitialised member as its priority (`plugins/disconnect.cpp:26`), so
  that priority is chosen from the constant `DisconnectPriorities`. The container compares
  priorities as `int`.
* A line is a record of what the plug-ins tell apart. Two lines run together (the old
  one's head, the new one's rest) may be read as either or as nothing that parses.
* A server sends replies only to a registered client, and before that PING, objections to
  the nickname, and lines the bot drops. Nothing else is assumed of it.
* A line that the parser crashes on does not occur here: `IRCParser` has those.
* `LogThrows` stands for any exception of `PlugInLog`; `PlugInPingPong` decides freely.
* Writing to a closed connection may succeed, fail or raise SIGPIPE. Reading does not
  block: the bot's socket is non-blocking, so that `receive()` asks `select()` with a
  timeout of 0 and returns nothing when nothing has come.
* `unregisterPlugIns` may erase any PlugInJoin, the one a loop is at included;
  `IteratorStaysValid` says that no result asks for that. `FinishResult` takes it for
  granted, as the code does, when it moves the iterator on.
* The 0.5 s of `sleep()` are left out, and so are the wordings.

### IRCSession

Per socket: NICK, USER, then anything (a stutter), QUIT last. A socket is given up only
after a QUIT or a loss; a lost one is followed by a new one or by the end of the bot.
`ZeroBot` implements it with `session`, `link` and `conn` as they are and
`alive <- pc \notin Final`; `SessionIsKept` is the refinement.

### PingPong

The clock `now` is `time( NULL )`; `Tick` may not pass the moment the bot's next
`onTimeTrigger()` or a due answer comes. The code's limits, 60 s and 125 s, and the pause
of the loop are constants, so that TLC can use small numbers and the theorem holds of all.

### ChannelLog

The server knows who is in two channels (`in`), one of them logged, and sends what the bot
can see. The plug-in keeps `channelUsers`, and `told` replays the rows of this connection.
A row may fail to be written at any time, and then what the handler has left to do is not
done: for a list of names that is the parsing of the list, for the rest nothing, as the
list is changed first. `unseen`, `masked` and `strayed` name the users the code cannot be
right about: who was kicked or left while the bot was not there; who came to be listed
with `@` or `+`; who left another channel.

### IRCParser

A line is a sequence of symbols, one per class the parser tells apart (a letter, `:`, a
space, `!`, a whole command, ...), built by `Next` symbol by symbol; the invariants are
about the functions at every line. Each parser function is an operator that yields what it
returns and what it leaves, with "no parse" (`std::runtime_error`) and "terminate" (any
other exception leaves a function declared `throw( std::runtime_error )`) as results of
their own. There are two kinds of white space, `"SP"` and `"TAB"` (which stands for all that
`isspace()` holds for but a space): `parsePrefix()` decides whether a prefix is a nickname's by what
comes before the first `' '` (`Spaceless`), all the rest of the parser looks for `isspace()`
(`Blanks`), and the RFC separates by spaces only (`RFCLine`). `Written` is `operator<<`, `ToRaw` the conversions. Where
the order in which constructor arguments are evaluated matters, it is g++'s, last to first.

### AdminCommands

A text is a sequence of symbols as in `IRCParser`: white space, `:`, `!`, `#`, the names of
the commands, other words. `parse` is `CommandParser` (its loop ends at the first empty
word, so two spaces in a row end the command), `parseCommandMessage` the plug-in. The
server knows the real nicknames (`nickOf`) and what it has sent to the bot but the bot has
not read (`inbox`); a message carries as `to` the nickname the bot had when it was sent,
which is what the plug-in's `nickname` is compared with. Nicknames change, connections are
lost with all that is under way, and the server refuses a NICK that is taken (`OnPacketSent`
remembers it nevertheless; the bot is then not registered, and nobody talks to it). The
server relays nicknames as they are: it does not shorten a NICK.

### URLTitle

A behaviour is one message after another: `OnPacket` finds the URL, `WriteData` is one call
of libcurl's write callback with a piece of any size, `TransferEnds` the end of
`curl_easy_perform()` for whatever reason (`perform()` ignores the error, so a failed
transfer goes the same way as a finished one), `Tidy` and
`Parse` the rest, each of which may throw. A page is a sequence of tags, words, spaces,
control characters and NUL bytes (at which `tidyParseString()` stops). libtidy is taken to
close an open title and to leave text alone, expat to hand over text as it is. `SendResult`
delivers the title: the reply to a private message goes to the message's receiver, which
is the bot, and comes back to it.

### SocketSetup and MultiSocket

What becomes of each address `getaddrinfo()` has found (`addresses`) is chosen at the
beginning; the constructor then walks along them as the code does, for a client or for a
server. A server's life goes on with its peers, who connect, write and leave at any
moment, between any two system calls of `process()`: `Select` is the call of `select()`,
the `Accept...` actions are the call of `accept()`, and each client in turn is `NotReady`, or
one of the `Receive...` actions, by what `receive()` finds. After `ShutDown` the iterator
starts over with the `fd_set` of before, as in the code, so that a client is received from
a second time; `receive()` then waits when the sockets block (no action is possible until
the peer does something), and finds nothing when they do not, for which the code shuts the
client down (`ReceiveNothing`). The kernel gives out the lowest free descriptor, so that a
descriptor is used again. `Dismiss`, `SendAllKills` and `Destroy` are what a caller may do
between two calls of `process()`; its own reading of the results is part of `Return`.

Any system call may fail for a reason of its own, as `EINTR`, up to `MaxErrors` times
(`Failing`):

* `select()` at the beginning (`SelectFails`), and in `accept()`, or `::accept()` itself
  (`AcceptFails`): the exception leaves `process()` before anybody is read;
* `select()` or `recv()` of one client (`ReceiveFails`): it is shut down, whether or not its
  peer is there;
* `close()` in `shutdownClient()` (`ShutDownFails`): it throws before the client is erased.
  Called inside the try block it throws twice, since the handler calls it again; what
  `process()` has read is lost, and the set keeps a descriptor that is closed, for which
  `select()` fails from then on (`Stale`). The descriptor is taken to be released even so, as
  Linux does; POSIX leaves it open.

A connection that is reset before `accept()` may leave the backlog. When the sockets do not
block, `accept()` then returns 0, which `process()` inserts as a client (`AcceptNobody`).
Descriptor 0 is the console at first: as soon as somebody types, `recv()` fails on it, since it is
no socket, and it is reported closed and closed; then 0 is the next descriptor the kernel
gives out.

## Runs

| run | what it asks | bounds |
|---|---|---|
| `session` | `TypeOK`, `NoLineStranded`, `LossIsNoticedAtOnce`, `NoSocketAbandoned`, `IteratorStaysValid` | every plug-in of `main()`, every kind of line, priorities of `PlugInDisconnect` below, equal to, among and above the others; 2 lines, each whole or in two pieces; 1 socket |
| `reconnect` | `HandshakeFirst`, `QuitIsLast`, `ConnectedIsWelcomed`, `PlugInsAreReset`, `ReconnectGoesOn` | `--reconnect --identify`; 3 lines, 2 sockets: a whole session and the next one's greeting |
| `promise` | `SessionIsKept` with its fairness, `QuitCompletes`, `ChannelsAreJoined` | `--reconnect`; a channel of `--join`, one of `!join`, `!leave`; 2 lines, 2 sockets |
| `pingpong` | `TypeOK`, `SilenceIsNoticed`, `AnsweringIsKept` | limits 6 and 14, pause 1, answers within 2 units; a server that PINGs every 3 units and need not answer, and one that answers and whose own PINGs are 11 apart; 36 units: three idle periods, and longer than the 22 that silence may last |
| `log` | `TypeOK`, `ListedAreHere`, `MembersAreListed`, `RowsTellUsers` | the bot and two users in two channels, 4 events on the server, 3 messages under way |
| `title` | `TypeOK`, `DownloadIsCut`, `URLIsAWord`, `TitleWasReceived` | messages of up to two symbols and some longer, pages of up to three symbols and titles of up to 3 to 5; a limit of 6 symbols, so that pages of 5, 6 and 7 fall below, on and above it, in pieces of any size; two messages, so that an answer may come back |
| `sockets` | `TypeOK`, `ClientsAreOpen`, `NothingLeaks`, `ReadIsHeard`, `ClosedIsReported`, `ClosedIsLast`, `FailedCloseIsFinal`, `EveryoneIsHeard` | up to three addresses; three peers and two descriptors besides the console's, so that one peer waits and a descriptor is used again; one peer writes twice, the others only come and leave; one system call fails, at any moment |
| `commands` | `TypeOK`, `NickIsTracked`, `ObeyedIsMeant`, `NamedIsDone` | two users and four nicknames, one a prefix of another; all texts of up to three symbols and all continuations of the beginnings of commands, with up to two channels named; one message and two changes under way, in any order, so that a change comes before and after the message |
| `parser` | `ParametersAreMiddles`, `RFCLinesWithoutTabsParse`, `WrittenParses`, `SaidIsRead` | lines of up to 5 symbols after each of four beginnings, which take the interesting cases as far as 8 or 9 |

Two lines are enough for a single connection because no handler remembers more than one
of them: the longest chain the properties of `session` depend on is a greeting and a
command. Two sockets are enough because what a socket inherits, it inherits from the one
before (a buffer, and memories that are reset). `reconnect` needs a third line: greeting,
`!quit`, and the unfinished one. In `reconnect` and `promise` the priority of
`PlugInDisconnect` is below all others, the one order in which `--reconnect` works at all
(see `quit_reconnect`).

Deadlock is checked in all runs of `ZeroBot` and `PingPong` (where the clock's bound is
followed by steps that remain possible, and a process that is gone stutters by
`Terminated`); in `ChannelLog`, `IRCParser`, `AdminCommands` and `URLTitle` the bounds end
the behaviour, and in `MultiSocket` a blocking `process()` may wait for peers that have
nothing more to say.

### Fairness

`FairSpec` is `WF_vars(Run)`: the bot is one running process, and it takes its next step.
Every step ends by itself: `receive()` does not wait, and `sleep()` is short. Nothing is assumed of the server. The two handlers that may block for good
(reading the password from a terminal, fetching a page) make it unjustified with
`--identify` and `--title`, so the runs with fairness have neither.
`IRCSession` has `WF(Recover)`: a lost connection is not left alone.
`MultiSocket`'s `FairSpec` is that the steps of `process()` are taken as long as they can be,
which is that its caller calls it again and again, as a server does; `EveryoneIsHeard`
assumes in addition that nobody leaves or is sent away, be it by a `recv()` that fails (a
blocking server waits for the slowest of its clients after somebody has left), and that
`accept()` finds a descriptor. A bounded number of failing calls does not keep it from holding.

### Where the code is not what it says

Three runs expect a violation; each shows the code doing something else than a comment, a
declaration, a text or the RFC the repository carries says.

| run | property | the code |
|---|---|---|
| `quit_reconnect` | `QuitIsLast` | with `PlugInDisconnect` at the priority `main()` intends, -10, `PlugInReconnect` at -20 comes after it in the same reverse pass and sets CONNECTING at once: NICK and USER follow QUIT on the old socket |
| `buffer` | `LinesAreWhole` | `run()` replaces the socket and keeps the buffer: the unfinished line of the old connection is the head of the new one's first line |
| `terminate` | `OnlyRuntimeErrors` | a line that ends within its prefix: `at( 0 )` throws `std::out_of_range` through `throw( std::runtime_error )` |

Met on the way and part of the models, without a run of their own:

* a send on a reset connection raises SIGPIPE, as `::send()` is called without
  `MSG_NOSIGNAL`, and ends the process (`SendKills`, `SendAllKills`);
* a known message without a prefix dereferences a null pointer (`Crash` of `IRCParser`);
* `PING :server` is rejected, though the RFC makes no difference between middle and
  trailing parameters (`parseRaw`);
* the parser ends the parts of a line at whatever `isspace()` holds for, while
  `rfc/rfc1459.txt:457-459` says that "TABULATION, and all other control characters are
  considered NON-WHITE-SPACE". So `:x!<TAB> x` has an empty user and is rejected, and
  `RFCLinesWithoutTabsParse` excepts lines with a tab in the prefix. So does `WrittenParses`:
  the prefix is told from a nickname's by what comes before the first `' '`, so that
  `:a<TAB>PING<TAB>.x` is parsed with the host `a`, written `:a PING .x`, and read with the
  nickname `a`;
* `perform()` goes on after any error of a transfer, although its comment
  (`plugins/urltitle.cpp:107-108`) says "We want to continue when we reached the buffer limit,
  but abort otherwise!": the bot says a title that was cut short. `TitleWasReceived`
  therefore speaks of what was received, not of the page;
* PINGs of the server set `lastPing` too and keep the bot from sending its own: a server
  that PINGs every 60 s and answers everything is left after 125 s (`OnPing` of `PingPong`;
  `AnsweringIsKept` therefore asks for rarer PINGs);
* `PlugInLog` takes a PART of any channel for one of its own (`strayed` of `ChannelLog`),
  and `@nick` of a list of names for a nickname, whose departure is neither noticed nor
  logged (`masked`);
* when `::socket()` fails for an address, both constructors `close( -1 )`, which fails and
  throws, and never "try next one" (`posix/server_socket.cpp:51`, `OpenSocket`);
* a non-blocking `ServerMultiSocket` ends the process when a client closes its connection
  (`ReceiveTerminates`: `std::invalid_argument` leaves a function declared
  `throw( std::runtime_error )`) and, when one client is shut down, also those it has read
  before in the same call (`ReceiveNothing`);
* the errors of `ServerMultiSocket` listed above: a client shut down for an `EINTR`, an
  `accept()` of nobody that becomes the client 0, a `close()` that fails and stops the
  server (`FailedCloseIsFinal`);
* `!leave  #x`, with two spaces, leaves the channel it is said in (`extractWords`).

## Proofs

TLC checks the instances above; the theorems hold for every value of the constants that
satisfies the assumption of the module (`ConstantsAssumption`, `PingPongAssumption`,
`ChannelLogAssumption`, `AdminCommandsAssumption`, `URLTitleAssumption`,
`SocketSetupAssumption`, `MultiSocketAssumption`: types of the constants, and
`BotNick \in Nicks` and the like; `ClassesAssumption`, `IRCParserAssumption` and
`SymbolsAssumption`: the classes of characters are what the code's comparisons make them, and
disjoint; in `AdminCommands` that a nickname does not begin with `!` or `#`, as in RFC 1459,
2.3.1 - no bound on the number of channels, plug-ins, lines,
sockets, users, peers, addresses or limits, nor on the length of a line, a text or a page). Three theorems
assume `~Reconnect` besides and one `Patience`, see below.

| theorem | states |
|---|---|
| `ZeroBotProofs!TypeCorrect` | `TypeOK` |
| `ZeroBotProofs!IteratorsStayValid` | `IteratorStaysValid`: no plug-in is erased while the iterator of a pass is at it |
| `ZeroBotProofs!SocketsAreKept` | `NoSocketAbandoned` |
| `ZeroBotProofs!LossIsNoticed` | `LossIsNoticedAtOnce` |
| `ZeroBotProofs!LinesAreProcessed` | `NoLineStranded` |
| `ZeroBotProofs!GreetingPrecedesConnected` | `ConnectedIsWelcomed` |
| `ZeroBotProofs!SocketsFindPlugInsReset` | `PlugInsAreReset` |
| `ZeroBotProofs!ReconnectNeverReturns` | `ReconnectGoesOn` |
| `ZeroBotProofs!HandshakeComesFirst`, `QuitComesLast` | without `--reconnect`, `HandshakeFirst` and `QuitIsLast` |
| `ZeroBotProofs!SessionIsImplemented` | without `--reconnect`, that `ZeroBot` implements the safety part of `IRCSession` |
| `PingPongProofs!TypeCorrect`, `DeadServerIsNoticed`, `LivingServerIsKept` | `TypeOK`, `SilenceIsNoticed`, and under `Patience` `AnsweringIsKept` |
| `ChannelLogProofs!TypeCorrect`, `RowsAreTrue` | `TypeOK`, `RowsTellUsers` |
| `ChannelLogProofs!ListIsOfThoseHere`, `ThoseHereAreListed` | `ListedAreHere`, `MembersAreListed` |
| `IRCParserProofs!ParametersNeedNoColon`, `RFCLinesAreParsed`, `WhatIsWrittenIsRead`, `WhatIsSaidIsRead` | `ParametersAreMiddles`, `RFCLinesWithoutTabsParse`, `WrittenParses`, `SaidIsRead` |
| `AdminCommandsProofs!TypeCorrect`, `NicknameIsKnown`, `CommandsAreMeant`, `NamedChannels` | `TypeOK`, `NickIsTracked`, `ObeyedIsMeant`, `NamedIsDone` |
| `URLTitleProofs!TypeCorrect`, `BufferIsABeginning`, `FetchedIsAWord`, `SaidWasReceived` | `TypeOK`, `DownloadIsCut`, `URLIsAWord`, `TitleWasReceived` |
| `MultiSocketProofs!TypeCorrect`, `ReadReachesTheCaller`, `ShutDownReachesTheCaller`, `OneFailedCloseIsTheEnd`, `ClientsAreConnections`, `NoDescriptorLeaks`, `ClosedComesLast` | `TypeOK`, `ReadIsHeard`, `ClosedIsReported`, `FailedCloseIsFinal`, `ClientsAreOpen`, `NothingLeaks`, `ClosedIsLast` |

**ZeroBot.** The inductive invariant `IInv` is `TypeOK` and one part per theorem, each
stating what the property leaves implicit about a moment it does not speak of:

* `ResultInv`: a result is under way only inside a pass, and one that disconnects belongs
  to a socket that is over or has its QUIT still to be sent;
* `DisconnectedInv`: a DISCONNECTED bot has said QUIT or lost the connection, and in the
  last pass nothing asks for CONNECTED or DISCONNECTING;
* `LossInv`: `recv()` has failed only if the connection is closed;
* `StreamInv`: a message is in hand only while messages are received;
* `GreetingInv`: a greeting that is written, buffered, in hand or turned into a result was
  sent on this socket, unless a line was left over.

The properties alone are not inductive: `NoSocketAbandoned` says nothing of a result that
will make the bot DISCONNECTED two actions later, `ConnectedIsWelcomed` nothing of a
greeting that is still on the wire. The lemmas `HandlersType` and `HandlersAsk` sum up the
handlers of all plug-ins, so that the steps of the loop do not look into them;
`ForemostType` and `RegistryType` do so for the container.

The rest is about whole passes. `ToCome( i )` says that the iterator has the plug-in at `i`
still before it, and the lemmas about it (`PassBegins`, `PassGoesOn`, `PassStays`)
that a step of a pass takes one plug-in from those to come and, whoever is registered or
unregistered meanwhile, no other. With it:

* `LineUpInv`: PlugInConnect is the first plug-in and PlugInDisconnect the second, there is
  no other of either kind, and with `--reconnect` a PlugInReconnect at -20. It holds of
  `Startup` and of everything `!join` and `!leave` do;
* `LastPassInv`: in the `onDisconnect()` pass after a loss each plug-in with a memory is reset or to
  come, and with `--reconnect` the bot is CONNECTING, about to be, or PlugInReconnect is to
  come. At the end of the pass nothing is to come: that is `PlugInsAreReset` and
  `ReconnectGoesOn`, for every priority of PlugInDisconnect;
* `DisconnectingInv`: in the pass of a bot that wants to leave, PlugInDisconnect is to come
  until it says QUIT, and then PlugInReconnect is not to come;
* `SessionInv`: what the server has seen of the socket fits the memory of PlugInConnect, the
  state of the bot and the messages of the result under way, of which at most one moves
  the session.

`DisconnectingInv` needs `DisconnectsLast`: if there is a PlugInReconnect, the priority of
PlugInDisconnect is -20 or below (an equal one comes later in the reverse pass, being
registered first). The code does not ensure this: the priority is an uninitialised member
(`plugins/disconnect.cpp:26`), and the -10 that `main()` passes would break it, as
`quit_reconnect` shows. So the three theorems are stated for a bot without `--reconnect`,
where `DisconnectsLast` is empty, and hold whatever the priority is. With `--reconnect`
the properties are only model-checked, in `reconnect` and `promise`, and only for a
priority below all others.

`IteratorsStayValid` has an invariant of its own, that a result with unregistrations
belongs to a plug-in that is no PlugInJoin (`IteratorInv`; `HandlersUnregister` sums up who
unregisters). `WhoIsLeft` shows that `unregisterPlugIns` erases none but PlugInJoins.

`SessionIsImplemented` uses the same invariants: each action of `ZeroBot` is a
step of `IRCSession` or leaves its variables alone.

**PingPong.** `SilenceInv` says that at the last `onTimeTrigger()` the last PING was at
most `PingAfter` old and the last PONG at most `TimeoutAfter + PingAfter + MaxPause`; since
`now` is at most `MaxPause` later, the property follows. Without the first part nothing
would bound `lastPing - lastPong` from below.

`LivingServerIsKept` assumes `Patience` of the constants: `2 * (PingAfter + MaxPause) <=
TimeoutAfter`, which 60, 125 and 2 satisfy, `MaxDelay <= PingAfter`, and of a server that
answers `interval > PingAfter + 2 * MaxPause + MaxDelay`. The PINGs of both sides set
`lastPing`, so `AnsweringIsKept` depends on how they interleave. The invariant `KeptUp` is a
diagram of seven situations (`Quiet`, `Pinged`, `Answered`, `PingedThenAnswered`,
`AnsweredThenPinged`, `Waiting`, `WaitingPinged`) by what is under way in either direction;
each bounds how far the last PING is ahead of the last PONG, and the two that the server's
next PING would spoil also say that the interval forbids it. Each lemma `KeepOn...` follows
the arrows of one action. Without the third assumption it is false: see "Met on the way".

**ChannelLog.** `RowsTellUsers` is inductive with the types; `HandleTells` has one step
per kind of message. `ListedAreHere` and `MembersAreListed` speak of the moment when no
message is under way. `ListInv` speaks of every moment: the messages under way (`Flow`)
lead from the list of now, or a longer one if a list of names was skipped, to a list that
`Fits` who is in the channel. Then an event on the server only has to be compared
with the message it puts at the end (`FlowAppend`), and a handler with the message it
takes from the front.

**IRCParser.** The properties are about what is computed of a line of any length, so the
proofs are inductions. The induction theorems of the prover's library take an operator as
a parameter, which its provers cannot instantiate; `SequenceLemmas` has `Induction` over sets
of numbers instead, from the well-foundedness of the subset order. From it come the least
element of a set, that `Sorted` is in order and the only sequence that is, and what is appended to
it. `ParametersAreMiddles` then follows from what begins a parameter (`StartsAreIndices`,
`ParametersAreWords`). For `RFCLinesWithoutTabsParse`, `RFCPrefixParses` follows the parser along the
prefix of the grammar. `WrittenParses` and `SaidIsRead` put a line together from its parts:
`WrittenParametersParse` reads the parameters, by induction on how many there are;
`TrailerParses` the trailing one; `NickIsRead` and `ServerIsRead` the prefix, `user` and
`host` included; `BodyIsRead` the command with what follows it. What makes the two inverse is that
a parameter has no space, a host no `!` and no `@`, and that a trailing parameter is the only
part that begins with a colon. Where the prefix has a tab neither is true.

**AdminCommands.** `NickIsTracked` speaks of the next message only. The invariant is about
all that are under way: the nickname of the bot they carry as `to` is followed from one to
the next, a NICK of the bot's own from the old to the new, and the last leads to the one
the server has now; and two clients never have one nickname, so that no other NICK is taken for the bot's.

`AnswerInv` says of the message that has just been handled what `onPacket()` made of it, and
that the nickname it used is the one in `to`; `TrackInv` gives that. What is left is about
`CommandParser` and texts of any length. `WordsAre` says where each word of a text begins and
ends, so that `CommandIsMeant` can go back from the word that decides to its place in the
text, and from an address before it to the word that `IsForeign` has looked at. The other way,
`WordAdded` shows that a word written after one space is one word more and leaves those
before it alone; by `Induction` over the arguments (`ArgumentsAdded`) the words of what
`Command` writes are the ones it was given, and `CommandDecides` that they are read so. Here
the assumption on nicknames is needed: a bot called `!x` would take its address for a command.

**URLTitle.** The downloader's invariant is `DownloadIsCut` with the types of `buffer`, `page`
and `received`, that it is all empty between two messages, and that as long as libcurl hands
over, everything it has handed over is in the buffer: what is cut off ends the transfer.

`URLIsAWord` and `TitleWasReceived` speak of the words of texts. `URLTitleInv` relates the
variables of the plug-in at each step of `onPacket()`, from the message to the URL, from
the buffer to the document and from the document to the title that is said. The functions
between them are taken apart one symbol at a time: `WordsOfAppend` says what one symbol more does
to the words of a text, `ParserAfterAppend` and `KeptAppend` what it does to expat's handlers and
to `canonicalizeTitle`. `ParserFinds` relates what the parser has kept of a document to the
words between its title tags; it holds of the empty document (`NothingIsFound`) and of
one symbol more (`OneMoreIsFound`), hence of all by `SequenceInduction`. That the first
`://` and the white space around it make a word, the first with a scheme, is `URLIsFirst`.

**MultiSocket.** `TypeInv` is `TypeOK` with `IteratorInv`, that there are no results between
two calls; `HeardInv`, that what is read of a peer is either heard or the last thing the
results tell of it; `DroppedInv`, that whoever was shut down is reported or about to be; and
`DeafInv`, that after a failed `close()` the client is in the set, its descriptor is closed and
`process()` gets no further than `select()`. With no results left the second is `ReadIsHeard` and the third
`ClosedIsReported`, as long as no `close()` has failed; the fourth gives
`FailedCloseIsFinal`. Then `ClientsAreOpen` with `SetupInv` and `NoClients`, which say what
is open at every step of a constructor. Then `ClosedAreNoClients`, that a socket reported
closed is no client's as long as the results are made, since `accept()` comes before the
loop: that makes `ClosedIsLast` inductive.

Only model-checked: liveness (`QuitCompletes`, `ChannelsAreJoined`, `EveryoneIsHeard`) and the
fairness of `SessionIsKept`, which the prover cannot do: `SessionIsImplemented` is the other
half, and like `HandshakeFirst` and `QuitIsLast` proved for a bot without `--reconnect`. Every
other property of the runs that are to pass is a theorem.

## Not modelled

* Of `posix/`: `receiveFrom()` and `sendTo()`, the single client of `ServerSocket`, what the
  peers of a server get to read, the resolution of names for messages.
* `lib/SecretStorage.*`, `lib/rand.*`, `lib/version.*`, `src/webviewer`, build files: no
  state worth exploring.
* `libcurl`, `libtidy`, `expat`, SQLite: libraries. The text of SQL statements and the
  schema are left out; that a statement may fail is in.
* `getopt` and the usage texts of `main()`.
* The characters of titles and commands one by one, character sets, and what libtidy does
  to text (entities, nested tags).

## Plan

Done, in this order: `ZeroBot` and its runs, `IRCSession`, `ZeroBotProofs`; `PingPong`;
`ChannelLog`; `IRCParser`; `URLTitle`; `SocketSetup` and `MultiSocket`; `AdminCommands`.

Proved, in this order: `ZeroBotProofs` up to the refinement, `PingPongProofs`,
`MultiSocketProofs`, `AdminCommandsProofs!NicknameIsKnown`, `ChannelLogProofs`,
`IRCParserProofs`, `URLTitleProofs`, the rest of `AdminCommandsProofs`.

To come: properties, and then theorems, for the hazards of `PROJECT.json` that have none and that the
models reach: ENDOFMOTD in one batch of lines with `!quit`, `!leave` of a channel with two
`PlugInJoin`s. `HandshakeFirst` and `QuitIsLast` could be proved with `--reconnect` too if
`PlugInDisconnect` were given a priority below -20.
