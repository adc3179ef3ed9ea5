----------------------------- MODULE IRCParser -----------------------------
(***************************************************************************)
(* The text of the protocol: RawParser and Parser, which take a line       *)
(* apart, and operator<<, which puts one together.                         *)
(*                                                                         *)
(* A line is a sequence of symbols.  A symbol is a run of characters of    *)
(* one class, so that "PING" counts as one letter and "353" as three       *)
(* digits: no function here looks inside a run except to compare a whole   *)
(* command.  "SP" is a space, "TAB" any other character for which          *)
(* isspace() holds; the CR LF at the end is left off.                      *)
(*                                                                         *)
(* A definition named ...Mutant is the one after it with a plausible bug;  *)
(* nothing else uses it.                                                   *)
(***************************************************************************)
EXTENDS Naturals, Sequences, SequencesExt, SortedSets

CONSTANTS
    Letters,       \* symbols of letters only
    Digits,        \* symbols of digits only
    ThreeDigits,   \* those of them that are three digits long
    Replies,       \* those of them that are reply_code_t's
    Specials,      \* symbols a nickname may have besides letters and digits
    Others,        \* symbols of any other printable character
    Beginnings,    \* what lines may begin with,
    MaxLength      \* bound: and how many symbols may follow

\* The commands parseMessage() knows; letters like others.
Commands == {"PING", "PONG", "NICK", "QUIT", "JOIN", "PRIVMSG", "PART"}

Alphabetic == Letters \cup Commands

\* What isspace() holds for, and what else separates the parts of a line.
Blanks == {"SP", "TAB"}

Separators == Blanks \cup {":", "!", "@", "."}

Symbols == Alphabetic \cup Digits \cup Specials \cup Others \cup Separators

ASSUME ClassesAssumption ==
    /\ "x" \in Letters
    /\ ThreeDigits \subseteq Digits /\ Replies \subseteq ThreeDigits
    /\ Alphabetic \cap Digits = {}
    /\ (Alphabetic \cup Digits \cup Specials \cup Others) \cap Separators = {}

ASSUME IRCParserAssumption == Beginnings \subseteq Seq(Symbols) /\ MaxLength \in Nat

VARIABLE line

-----------------------------------------------------------------------------
(* Words.                                                                  *)

Take(s, n) == SubSeq(s, 1, n)
Drop(s, n) == SubSeq(s, n + 1, Len(s))

\* How many symbols come before the first of the stops.
Until(s, stops) ==
    LET i == SelectInSeq(s, LAMBDA c : c \in stops) IN IF i = 0 THEN Len(s) ELSE i - 1

First(s, c) == s # <<>> /\ Head(s) = c

skipSpace(s) ==
    LET i == SelectInSeq(s, LAMBDA c : c \notin Blanks) IN IF i = 0 THEN <<>> ELSE Drop(s, i - 1)

\* Where the words of s begin.
Starts(s) == {i \in DOMAIN s : s[i] \notin Blanks /\ (i > 1 => s[i - 1] \in Blanks)}

WordAt(s, i) == Take(Drop(s, i - 1), Until(Drop(s, i - 1), Blanks))

\* The colon that begins the trailing parameter, or the end.
Colon(s) ==
    LET colons == {i \in Starts(s) : s[i] = ":"}
    IN IF colons = {} THEN Len(s) + 1 ELSE CHOOSE i \in colons : \A j \in colons : i <= j

-----------------------------------------------------------------------------
(* RawParser::parseString().  Each function has the type of its result in  *)
(* the field "is"; an error of the line is a std::runtime_error, and any   *)
(* other exception ends the process, since it breaks the exception         *)
(* specification of the function it leaves.                                *)

Error     == [is |-> "runtime_error"]
Terminate == [is |-> "terminate"]

NoPrefix == [nick |-> <<>>, user |-> <<>>, host |-> <<>>, present |-> FALSE]
Prefix(nick, user, host) == [nick |-> nick, user |-> user, host |-> host, present |-> TRUE]

\* No server's name has to be told from a nickname.
IsNickMutant(s) == TRUE

\* What comes before the first ' ', whatever else it is made of.
Spaceless(s) == Take(s, Until(s, {"SP"}))

\* The prefix is a nickname's unless it looks like a server's name.  It is looked at up
\* to the first ' ', and read up to the first blank.
IsNick(s) ==
    LET word == ToSet(Spaceless(s)) IN word \cap {"!", "@"} # {} \/ "." \notin word

\* Where the nickname, the user and the host end; s is what follows the colon.
NickEnd(s) == Until(s, Blanks \cup {"!", "@"})
UserEnd(s) ==
    IF s[NickEnd(s) + 1] = "!" THEN NickEnd(s) + 1 + Until(Drop(s, NickEnd(s) + 1), Blanks \cup {"@"})
                               ELSE NickEnd(s)
HostEnd(s) == Until(s, Blanks)

parsePrefix(s) ==
    IF ~IsNick(s) THEN [is |-> "prefix", rest |-> Drop(s, HostEnd(s)),
                        prefix |-> Prefix(<<>>, <<>>, Take(s, HostEnd(s)))]
    ELSE IF \/ NickEnd(s) = 0
            \/ ~(ToSet(Take(s, NickEnd(s))) \subseteq Alphabetic \cup Digits \cup Specials)
         THEN Error
    ELSE IF NickEnd(s) = Len(s) THEN Terminate              \* parseUser()'s at( 0 )
    ELSE IF s[NickEnd(s) + 1] = "!" /\ UserEnd(s) = NickEnd(s) + 1 THEN Error
    ELSE IF UserEnd(s) = Len(s) THEN Terminate              \* parseHost()'s at( 0 )
    ELSE LET user == SubSeq(s, NickEnd(s) + 2, UserEnd(s))
             rest == Drop(s, UserEnd(s))
             host == IF First(rest, "@") THEN Tail(rest) ELSE rest
         IN [is |-> "prefix", rest |-> Drop(s, HostEnd(s)),
             prefix |-> Prefix(Take(s, NickEnd(s)), user, Take(host, Until(host, Blanks)))]

\* A command is one of letters or of three digits.
IsCommand(word) ==
    /\ word # <<>>
    /\ \/ ToSet(word) \subseteq Alphabetic
       \/ /\ ToSet(word) \subseteq Digits
          /\ \/ Len(word) = 1 /\ word[1] \in ThreeDigits
             \/ Len(word) = 3 /\ ToSet(word) \cap ThreeDigits = {}

\* Goes on where the trailing parameter begins.
parseParametersMutant(s) ==
    LET in == Sorted(Starts(s)) IN [k \in DOMAIN in |-> WordAt(s, in[k])]

parseParameters(s) ==
    LET starts == {i \in Starts(s) : i < Colon(s)}
        in == Sorted(starts)
    IN [k \in DOMAIN in |-> WordAt(s, in[k])]

\* The trailing parameter up to its first space.
parseTrailingMutant(s) == WordAt(Drop(s, Colon(s)), 1)

parseTrailing(s) == Drop(s, Colon(s))

RawMessage(prefix, command, parameters, trailing) ==
    [is |-> "message", prefix |-> prefix, command |-> command,
     parameters |-> parameters, trailing |-> trailing]

\* What follows the prefix.
parseCommand(prefix, s) ==
    LET command == WordAt(s, 1)
        rest    == Drop(s, Len(command))
    IN IF ~IsCommand(command) THEN Error
       ELSE RawMessage(prefix, command, parseParameters(rest), parseTrailing(rest))

parseString(s) ==
    IF ~First(s, ":") THEN parseCommand(NoPrefix, skipSpace(s))
    ELSE LET p == parsePrefix(Tail(s))
         IN IF p.is # "prefix" THEN p ELSE parseCommand(p.prefix, skipSpace(p.rest))

-----------------------------------------------------------------------------
(* operator<<, for a Prefix and a RawMessage.                              *)

WrittenPrefix(p) ==
    IF p.nick # <<>>
    THEN <<":">> \o p.nick \o (IF p.user # <<>> THEN <<"!">> \o p.user ELSE <<>>)
                           \o (IF p.host # <<>> THEN <<"@">> \o p.host ELSE <<>>)
    ELSE <<":">> \o p.host

\* Marks the trailing parameter only when it has a space to protect.
WrittenMutant(raw) ==
    (IF raw.prefix.present THEN WrittenPrefix(raw.prefix) \o <<"SP">> ELSE <<>>)
    \o raw.command
    \o FlattenSeq([i \in DOMAIN raw.parameters |-> <<"SP">> \o raw.parameters[i]])
    \o (IF raw.trailing = <<>> THEN <<>>
        ELSE IF "SP" \in ToSet(raw.trailing) THEN <<"SP", ":">> \o raw.trailing
        ELSE <<"SP">> \o raw.trailing)

Written(raw) ==
    (IF raw.prefix.present THEN WrittenPrefix(raw.prefix) \o <<"SP">> ELSE <<>>)
    \o raw.command
    \o FlattenSeq([i \in DOMAIN raw.parameters |-> <<"SP">> \o raw.parameters[i]])
    \o (IF raw.trailing # <<>> THEN <<"SP", ":">> \o raw.trailing ELSE <<>>)

-----------------------------------------------------------------------------
(* Parser::parseMessage(), and the conversion of a Message to a RawMessage.*)

\* type is the subclass, by its command or reply code, words what it keeps of the
\* parameters, text the reply's trailing or the user's message.
Message(type, words, text) == [is |-> "message", type |-> type, words |-> words, text |-> text]

\* RawMessage::getPrefix() copies *prefix, and there is none: undefined behaviour, a crash
\* in every build.
Crash == [is |-> "crash"]

\* The parameter may be the trailing one only for NICK and JOIN.  The arguments of the
\* constructors are evaluated from the last to the first, as g++ does.
parseRaw(raw) ==
    LET type     == raw.command[1]
        words    == raw.parameters
        first    == SubSeq(words, 1, 1)
        Build(w, text) == IF raw.prefix.present THEN Message(type, w, text) ELSE Crash
    IN IF Len(raw.command) # 1 THEN Error
       ELSE IF type \in Replies THEN Build(words, raw.trailing)
       ELSE IF type \in {"PING", "PONG"} THEN
            IF words = <<>> THEN Error ELSE Build(first, <<>>)
       ELSE IF type \in {"NICK", "JOIN"} THEN
            IF words # <<>> THEN Build(first, <<>>)
            ELSE IF raw.trailing # <<>> THEN Build(<<raw.trailing>>, <<>>)
            ELSE Error
       ELSE IF type = "QUIT" THEN Build(<<>>, raw.trailing)
       ELSE IF type \in {"PRIVMSG", "PART"} THEN
            IF words = <<>> THEN Error ELSE Build(first, raw.trailing)
       ELSE Error

parseMessage(s) ==
    LET raw == parseString(s) IN IF raw.is # "message" THEN raw ELSE parseRaw(raw)

\* Message::operator RawMessage(); the prefix is lost.
ToRaw(m) == RawMessage(NoPrefix, <<m.type>>, m.words, m.text)

-----------------------------------------------------------------------------
(* The lines, symbol by symbol.                                            *)

Growth == Letters \cup Digits \cup Specials \cup Others \cup Separators

Init == line \in Beginnings

Next ==
    /\ \E b \in Beginnings : IsPrefix(b, line) /\ Len(line) < Len(b) + MaxLength
    /\ \E c \in Growth : line' = Append(line, c)

Spec == Init /\ [][Next]_line

\* The lines RFC 1459 has (rfc/rfc1459.txt:435-444), but for the words of a nickname,
\* of which the RFC requires more.  A tab is like any other character.
RFCPrefix(s) ==
    \/ "." \in ToSet(s) /\ ToSet(s) \cap {"!", "@", "TAB"} = {}
    \/ \E n \in 1..Len(s) :
         /\ s[1] \in Alphabetic
         /\ ToSet(Take(s, n)) \subseteq Alphabetic \cup Digits \cup Specials
         /\ \E u \in n..Len(s) :
              /\ u > n => s[n + 1] = "!" /\ u > n + 1 /\ "@" \notin ToSet(SubSeq(s, n + 2, u))
              /\ u < Len(s) => s[u + 1] = "@" /\ u + 1 < Len(s) /\ "TAB" \notin ToSet(Drop(s, u))

RFCLine(s) ==
    \/ IsCommand(Spaceless(s))
    \/ /\ First(s, ":")
       /\ RFCPrefix(Tail(Spaceless(s)))
       /\ \E n \in Len(Spaceless(s)) + 1..Len(s) :
            /\ ToSet(SubSeq(s, Len(Spaceless(s)) + 1, n)) = {"SP"}
            /\ IsCommand(Spaceless(Drop(s, n)))

TabInPrefix(s) == First(s, ":") /\ "TAB" \in ToSet(Spaceless(s))

-----------------------------------------------------------------------------
(* Properties.                                                             *)

Sayable(word) == word # <<>> /\ Blanks \cap ToSet(word) = {} /\ Head(word) # ":"

\* What RawParser takes for a parameter is a <middle> of the RFC (rfc1459.txt:441), so
\* that operator<< can write it without a colon.
ParametersAreMiddles ==
    LET raw == parseString(line)
    IN raw.is = "message" => \A i \in DOMAIN raw.parameters : Sayable(raw.parameters[i])

\* RawParser takes every line the RFC has, but for those with a tab in the prefix: a tab
\* is not white space for the RFC (rfc1459.txt:457-459), and RawParser ends a nickname, a
\* user or a host there, and rejects ":x!<TAB> x".
RFCLinesWithoutTabsParse ==
    RFCLine(line) /\ ~TabInPrefix(line) => parseString(line).is = "message"

\* What operator<< writes of a message that was parsed, parses as the same message,
\* unless there was a tab in the prefix, whose host may then be read as a nickname.
WrittenParses ==
    LET raw == parseString(line)
    IN raw.is = "message" /\ ~TabInPrefix(line) => parseString(Written(raw)) = raw

\* Whatever text the bot says, and to whatever channel or nickname, another zerobot
\* would read the same: neither spaces nor colons change it.
SaidIsRead ==
    \A type \in {"PRIVMSG", "PART"}, n \in 1..Len(line) :
        Sayable(Take(line, n)) =>
            LET m == Message(type, <<Take(line, n)>>, Drop(line, n))
                prefix == <<":", "x", "SP">>
            IN parseMessage(prefix \o Written(ToRaw(m))) = m

\* No line makes the parser throw what its callers do not catch: it is declared to throw
\* std::runtime_error only (parser.hpp:34).
OnlyRuntimeErrors == parseString(line).is # "terminate"
=============================================================================
