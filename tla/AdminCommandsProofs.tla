------------------------- MODULE AdminCommandsProofs -------------------------
(***************************************************************************)
(* What TLAPS proves about AdminCommands, for any nicknames, users and     *)
(* texts, and any number of changes: PlugInAdmin knows the bot's nickname; *)
(* what it obeys is meant for the bot, and what the admin says to do is    *)
(* done.                                                                   *)
(*                                                                         *)
(* Two invariants do it: TrackInv follows the bot's nickname through the   *)
(* messages on their way, AnswerInv says what has just been answered and   *)
(* with which nickname.  The rest is about CommandParser: what the words   *)
(* of a text are, and which of them decides.                               *)
(***************************************************************************)
EXTENDS AdminCommands, SequenceLemmas

(* The nickname.                                                           *)

\* The bot's nickname after a message, for a bot that had m.to before it.
After(m) == IF m.type = "NICK" /\ m.nick = m.to THEN m.newNick ELSE m.to

Types ==
    /\ nickOf \in [Clients -> Nicknames \cup {NoNickname}]
    /\ inbox \in Seq(Message)

\* Two clients have two nicknames.
Unique ==
    /\ \A u \in Users : nickOf[u] # NoNickname
    /\ \A c, d \in Clients : nickOf[c] = nickOf[d] => c = d

\* The messages on their way tell of every change, each from where the one before it
\* left the nickname: from PlugInAdmin's to the one the server has.
Chain ==
    /\ ~Registered => inbox = <<>>
    /\ Registered /\ inbox = <<>> => nickname = nickOf[Bot]
    /\ inbox # <<>> => nickname = inbox[1].to /\ nickOf[Bot] = After(inbox[Len(inbox)])
    /\ \A i \in 1..(Len(inbox) - 1) : inbox[i + 1].to = After(inbox[i])

TrackInv == Types /\ Unique /\ Chain

\* A nickname is not empty.
LEMMA NicknamesAreWords ==
    ASSUME AdminCommandsAssumption
    PROVE  NoNickname \notin Nicknames
BY DEF AdminCommandsAssumption, Words, NoNickname

\* The fields of a message by its type.
LEMMA MessageFields ==
    ASSUME NEW m \in Message
    PROVE  /\ m.to \in Nicknames /\ m.type \in {"NICK", "PRIVMSG"}
           /\ m.type = "NICK" => m.nick \in Nicknames /\ m.newNick \in Nicknames
BY DEF Message, NickMessages, PrivMessages

\* Before the first NICK nothing is known.
LEMMA InitTracks ==
    ASSUME AdminCommandsAssumption, Init
    PROVE  TrackInv
<1>1. Types
    BY DEF Init, Types
<1>2. Unique
    BY DEF Init, Unique, Clients, AdminCommandsAssumption
<1>3. Chain
    BY DEF Init, Chain, Registered
<1>. QED BY <1>1, <1>2, <1>3 DEF TrackInv

\* onPacket() takes the first message off and follows it.
LEMMA OnPacketTracks ==
    ASSUME AdminCommandsAssumption, TrackInv, OnPacket
    PROVE  TrackInv'
<1>. USE DEF TrackInv
<1>1. /\ inbox # <<>> /\ inbox' = Tail(inbox) /\ nickOf' = nickOf
      /\ nickname' = IF inbox[1].type = "NICK" THEN Track(inbox[1]) ELSE nickname
    <2>1. inbox # <<>> => Head(inbox) = inbox[1]
        BY DEF Types
    <2>. QED BY <2>1 DEF OnPacket
<1>2. Types' /\ Unique'
    BY <1>1 DEF Types, Unique
<1>3. inbox[1] \in Message /\ Len(inbox) \in Nat \ {0}
    BY <1>1 DEF Types
<1>4. nickname = inbox[1].to /\ nickname # NoNickname
    BY <1>1, <1>3, MessageFields, NicknamesAreWords DEF Chain
<1>5. nickname' = After(inbox[1])
    BY <1>1, <1>3, <1>4, MessageFields DEF Track, After
<1>6. Registered'
    BY <1>1 DEF Registered, Chain
<1>7. /\ Len(inbox') = Len(inbox) - 1
      /\ \A i \in 1..Len(inbox') : inbox'[i] = inbox[i + 1]
    BY <1>1, <1>3 DEF Types
<1>8. CASE Len(inbox) = 1
    <2>1. inbox' = <<>>
        BY <1>1, <1>8 DEF Types
    <2>2. nickOf[Bot] = After(inbox[1])
        BY <1>1, <1>8 DEF Chain
    <2>. QED BY <1>1, <1>2, <1>5, <1>6, <2>1, <2>2 DEF Chain
<1>9. CASE Len(inbox) > 1
    <2>1. inbox' # <<>> /\ inbox'[1] = inbox[2] /\ inbox'[Len(inbox')] = inbox[Len(inbox)]
        BY <1>3, <1>7, <1>9
    <2>2. inbox[2].to = After(inbox[1])
        <3>1. 1 \in 1..(Len(inbox) - 1)
            BY <1>3, <1>9
        <3>. QED BY <3>1 DEF Chain
    <2>3. \A i \in 1..(Len(inbox') - 1) : inbox'[i + 1].to = After(inbox'[i])
        <3>. SUFFICES ASSUME NEW i \in 1..(Len(inbox') - 1)
                      PROVE  inbox'[i + 1].to = After(inbox'[i])
            OBVIOUS
        <3>1. inbox'[i] = inbox[i + 1] /\ inbox'[i + 1] = inbox[i + 1 + 1]
            BY <1>3, <1>7
        <3>2. i + 1 \in 1..(Len(inbox) - 1)
            BY <1>3, <1>7
        <3>. QED BY <3>1, <3>2 DEF Chain
    <2>4. nickOf'[Bot] = After(inbox'[Len(inbox')])
        BY <1>1, <2>1 DEF Chain
    <2>. QED BY <1>2, <1>5, <1>6, <2>1, <2>2, <2>3, <2>4 DEF Chain
<1>10. Len(inbox) = 1 \/ Len(inbox) > 1
    <2>1. \A n \in Nat \ {0} : n = 1 \/ n > 1
        OBVIOUS
    <2>. QED BY <1>3, <2>1
<1>. QED BY <1>8, <1>9, <1>10

\* A message that is added starts from the nickname the bot has and ends with the one
\* it has then.
LEMMA SendingTracks ==
    ASSUME AdminCommandsAssumption, TrackInv, Registered, NEW m \in Message,
           inbox' = Append(inbox, m), m.to = nickOf[Bot], nickOf'[Bot] = After(m),
           nickname' = nickname
    PROVE  Chain'
<1>. USE DEF TrackInv
<1>1. /\ Len(inbox') = Len(inbox) + 1 /\ inbox' # <<>> /\ Len(inbox) \in Nat
      /\ inbox'[Len(inbox')] = m /\ \A i \in 1..Len(inbox) : inbox'[i] = inbox[i]
    BY DEF Types
<1>2. m.to # NoNickname /\ Registered'
    BY MessageFields, NicknamesAreWords DEF After, Registered
<1>3. nickname' = inbox'[1].to
    <2>1. CASE inbox = <<>>
        BY <1>1, <2>1 DEF Chain
    <2>2. CASE inbox # <<>>
        <3>1. 1 \in 1..Len(inbox)
            BY <1>1, <2>2 DEF Types
        <3>. QED BY <1>1, <2>2, <3>1 DEF Chain
    <2>. QED BY <2>1, <2>2
<1>4. \A i \in 1..(Len(inbox') - 1) : inbox'[i + 1].to = After(inbox'[i])
    <2>. SUFFICES ASSUME NEW i \in 1..Len(inbox)
                  PROVE  inbox'[i + 1].to = After(inbox'[i])
        BY <1>1
    <2>1. CASE i = Len(inbox)
        <3>1. inbox # <<>> /\ nickOf[Bot] = After(inbox[i])
            BY <1>1, <2>1 DEF Chain
        <3>. QED BY <1>1, <2>1, <3>1
    <2>2. CASE i < Len(inbox)
        <3>1. i \in 1..(Len(inbox) - 1) /\ i + 1 \in 1..Len(inbox)
            BY <1>1, <2>2
        <3>. QED BY <1>1, <3>1 DEF Chain
    <2>. QED BY <1>1, <2>1, <2>2
<1>. QED BY <1>1, <1>2, <1>3, <1>4 DEF Chain

\* The message about a change is the last of the chain.
LEMMA RenameTracks ==
    ASSUME AdminCommandsAssumption, TrackInv, Rename
    PROVE  TrackInv'
<1>. USE DEF TrackInv
<1>1. PICK c \in Clients, nick \in Nicknames :
         /\ nickOf[c] # NoNickname /\ \A d \in Clients : nickOf[d] # nick
         /\ nickOf' = [nickOf EXCEPT ![c] = nick]
         /\ inbox' = IF Registered THEN Append(inbox, NickMessage(nickOf[c], nick)) ELSE inbox
    BY DEF Rename
<1>2. nickname' = nickname /\ Bot \in Clients
    BY DEF Rename, Clients
<1>3. \A d \in Clients : nickOf'[d] = IF d = c THEN nick ELSE nickOf[d]
    BY <1>1 DEF Types
<1>4. Unique'
    BY <1>1, <1>3, NicknamesAreWords DEF Unique, Clients
<1>5. nickOf' \in [Clients -> Nicknames \cup {NoNickname}]
    BY <1>1 DEF Types
<1>6. CASE Registered
    <2>. DEFINE m == NickMessage(nickOf[c], nick)
    <2>1. m \in Message
        <3>1. nickOf[Bot] \in Nicknames /\ nickOf[c] \in Nicknames
            BY <1>1, <1>2, <1>6 DEF Types, Registered
        <3>. QED BY <3>1 DEF NickMessage, Message, NickMessages
    <2>2. m.to = nickOf[Bot] /\ nickOf'[Bot] = After(m)
        BY <1>2, <1>3 DEF NickMessage, After, Unique
    <2>3. inbox' = Append(inbox, m) /\ inbox' \in Seq(Message)
        BY <1>1, <1>6, <2>1 DEF Types
    <2>4. Chain'
        BY <1>2, <1>6, <2>1, <2>2, <2>3, SendingTracks
    <2>. QED BY <1>4, <1>5, <2>3, <2>4 DEF Types
<1>7. CASE ~Registered
    <2>1. ~Registered' /\ inbox' = inbox
        BY <1>1, <1>2, <1>3, <1>7 DEF Registered
    <2>2. inbox' = <<>>
        BY <1>7, <2>1 DEF Chain
    <2>. QED BY <1>4, <1>5, <2>1, <2>2 DEF Types, Chain
<1>. QED BY <1>6, <1>7

\* What is said comes with the nickname the bot has.
LEMMA SayTracks ==
    ASSUME AdminCommandsAssumption, TrackInv, Say
    PROVE  TrackInv'
<1>. USE DEF TrackInv
<1>1. PICK u \in Users, receiver \in {Channel, nickOf[Bot]}, text \in Texts :
         inbox' = Append(inbox, PrivMessage(nickOf[u], receiver, text))
    BY DEF Say
<1>2. Registered /\ nickOf' = nickOf /\ nickname' = nickname
    BY DEF Say
<1>. DEFINE m == PrivMessage(nickOf[u], receiver, text)
<1>3. nickOf[Bot] \in Nicknames /\ nickOf[u] \in Nicknames /\ text \in Seq(Symbols)
    BY <1>2 DEF Types, Unique, Registered, Clients, AdminCommandsAssumption
<1>4. m \in Message
    BY <1>3 DEF PrivMessage, Message, PrivMessages
<1>5. m.to = nickOf[Bot] /\ nickOf'[Bot] = After(m)
    BY <1>2 DEF PrivMessage, After
<1>6. Chain'
    BY <1>1, <1>2, <1>4, <1>5, SendingTracks
<1>7. Types' /\ Unique'
    BY <1>1, <1>2, <1>4 DEF Types, Unique
<1>. QED BY <1>6, <1>7

\* A new connection begins with the nickname PlugInConnect asks for.
LEMMA ConnectionTracks ==
    ASSUME AdminCommandsAssumption, TrackInv, OnPacketSent \/ ConnectionLost
    PROVE  TrackInv'
<1>. USE DEF TrackInv
<1>1. CASE OnPacketSent
    <2>1. ~Registered /\ inbox = <<>> /\ inbox' = inbox /\ nickname' = OwnNickname
        BY <1>1 DEF OnPacketSent, Registered, Chain
    <2>2. CASE \E u \in Users : nickOf[u] = OwnNickname
        <3>1. nickOf' = nickOf
            BY <1>1, <2>2 DEF OnPacketSent, Types
        <3>. QED BY <2>1, <3>1 DEF Types, Unique, Chain, Registered
    <2>3. CASE \A u \in Users : nickOf[u] # OwnNickname
        <3>1. nickOf' = [nickOf EXCEPT ![Bot] = OwnNickname]
            BY <1>1, <2>3 DEF OnPacketSent
        <3>2. OwnNickname \in Nicknames /\ Bot \in Clients /\ Bot \notin Users
            BY DEF Clients, AdminCommandsAssumption
        <3>3. \A d \in Clients : nickOf'[d] = IF d = Bot THEN OwnNickname ELSE nickOf[d]
            BY <3>1 DEF Types
        <3>4. Types' /\ Unique'
            BY <2>1, <2>3, <3>1, <3>2, <3>3 DEF Types, Unique, Clients
        <3>. QED BY <2>1, <3>2, <3>3, <3>4, NicknamesAreWords DEF Chain, Registered
    <2>. QED BY <2>2, <2>3
<1>2. CASE ConnectionLost
    <2>1. nickOf' = [nickOf EXCEPT ![Bot] = NoNickname] /\ inbox' = <<>>
        BY <1>2 DEF ConnectionLost
    <2>2. Bot \in Clients /\ Bot \notin Users
        BY DEF Clients, AdminCommandsAssumption
    <2>3. \A d \in Clients : nickOf'[d] = IF d = Bot THEN NoNickname ELSE nickOf[d]
        BY <2>1 DEF Types
    <2>4. Types' /\ Unique'
        BY <2>1, <2>2, <2>3 DEF Types, Unique, Clients
    <2>. QED BY <2>1, <2>2, <2>3, <2>4 DEF Chain, Registered
<1>. QED BY <1>1, <1>2

\* TrackInv is inductive.
LEMMA TrackInvariance == Spec => []TrackInv
<1>1. Init => TrackInv
    BY InitTracks, AdminCommandsAssumption
<1>2. ASSUME TrackInv, [Next]_vars
      PROVE  TrackInv'
    <2>1. CASE UNCHANGED vars
        BY <1>2, <2>1 DEF TrackInv, Types, Unique, Chain, Registered, vars
    <2>. QED BY <1>2, <2>1, OnPacketTracks, RenameTracks, SayTracks, ConnectionTracks,
                AdminCommandsAssumption DEF Next
<1>. QED BY <1>1, <1>2, PTL DEF Spec

\* Whoever changes whose nickname, and however many messages are on their way: the
\* plug-in reads each message with the nickname the bot had when the server sent it.
THEOREM NicknameIsKnown == Spec => []NickIsTracked
<1>1. TrackInv => NickIsTracked
    <2>1. TrackInv /\ inbox # <<>> => Head(inbox) = inbox[1]
        BY DEF TrackInv, Types
    <2>. QED BY <2>1 DEF TrackInv, Chain, NickIsTracked
<1>. QED BY <1>1, TrackInvariance, PTL

-----------------------------------------------------------------------------
(* The words of a text.                                                    *)

\* The places of the spaces, and the end of the text.
Ends(t) == {i \in 1..(Len(t) + 1) : i \in DOMAIN t => t[i] = "SP"}

\* Where the word that ends before i begins.
Start(t, i) == Max({0} \cup {j \in Ends(t) : j < i}) + 1

\* The ends that are come to before an empty word.
Ended(t) == {i \in Ends(t) : \A j \in {e \in Ends(t) : Start(t, e) = e} : i < j}

\* Between where a word begins and where it ends there is no space.
LEMMA StartIs ==
    ASSUME NEW t \in Seq(Symbols), NEW i \in 1..(Len(t) + 1)
    PROVE  /\ Start(t, i) \in 1..i
           /\ Start(t, i) > 1 => Start(t, i) - 1 \in Ends(t)
           /\ \A j \in Ends(t) : j < i => j < Start(t, i)
           /\ \A x \in Start(t, i)..(i - 1) : x \in 1..Len(t) /\ t[x] # "SP"
<1>. DEFINE B == {0} \cup {j \in Ends(t) : j < i}
            b == Max(B)
<1>1. Len(t) \in Nat /\ DOMAIN t = 1..Len(t)
    BY LenProperties
<1>2. B \subseteq Nat /\ B # {} /\ i \in Nat /\ \A j \in B : j <= i
    BY <1>1 DEF Ends
<1>3. b \in B /\ \A j \in B : j <= b
    <2>. HIDE DEF B
    <2>. QED BY <1>2, MaxIsGreatest
<1>4. Start(t, i) = b + 1
    BY DEF Start
<1>. HIDE DEF b
<1>5. b \in 0..(i - 1) /\ (b > 0 => b \in Ends(t))
    BY <1>1, <1>3 DEF Ends
<1>6. \A j \in Ends(t) : j < i => j <= b
    BY <1>3
<1>7. \A x \in (b + 1)..(i - 1) : x \in 1..Len(t) /\ t[x] # "SP"
    <2>1. ASSUME NEW x \in (b + 1)..(i - 1)
          PROVE  x \in 1..Len(t) /\ t[x] # "SP"
        <3>1. x \in 1..Len(t) /\ x < i /\ ~(x <= b) /\ x \in 1..(Len(t) + 1)
            BY <1>1, <1>5
        <3>2. x \notin Ends(t)
            BY <1>6, <3>1
        <3>. QED BY <1>1, <3>1, <3>2 DEF Ends
    <2>. QED BY <2>1
<1>. HIDE DEF B
<1>8. \A j \in Ends(t) : j \in Nat
    BY <1>1 DEF Ends
<1>. QED BY <1>1, <1>4, <1>5, <1>6, <1>7, <1>8

\* The words are what is between the ends.
WordsAre(t) ==
    LET in == Sorted(Ended(t)) IN
    /\ Ended(t) \subseteq Nat /\ IsFiniteSet(Ended(t)) /\ Ended(t) \subseteq Ends(t)
    /\ in \in Seq(Ended(t)) /\ DOMAIN in = 1..Len(in) /\ Len(in) \in Nat
    /\ \A i \in Ended(t) : i \in 1..(Len(t) + 1) /\ Start(t, i) < i
    /\ \A i \in Ended(t), j \in Ends(t) : j < i => j \in Ended(t)
    /\ extractWords(t) \in Seq(Words) /\ Len(extractWords(t)) = Len(in)
    /\ \A k \in 1..Len(in) : extractWords(t)[k] = SubSeq(t, Start(t, in[k]), in[k] - 1)

Associates(p, q, r) == (p \o q) \o r = p \o (q \o r)

\* ConcatAssociative, for a leaf that has little time.
LEMMA Associative ==
    ASSUME NEW S, NEW p \in Seq(S), NEW q \in Seq(S), NEW r \in Seq(S)
    PROVE  Associates(p, q, r)
<1>1. \A s, t, u \in Seq(S) : (s \o t) \o u = s \o (t \o u)
    BY ConcatAssociative, SMTT(60)
<1>2. (p \o q) \o r = p \o (q \o r)
    BY <1>1
<1>. QED BY <1>2 DEF Associates

\* A part without a space is a word.
LEMMA PieceIsAWord ==
    ASSUME NEW t \in Seq(Symbols), NEW m \in 1..Len(t), NEW n \in m..Len(t), \A x \in m..n : t[x] # "SP"
    PROVE  /\ SubSeq(t, m, n) \in Words /\ Len(SubSeq(t, m, n)) = n - m + 1
           /\ \A i \in 1..(n - m + 1) : SubSeq(t, m, n)[i] = t[m + i - 1]
<1>. DEFINE u == SubSeq(t, m, n)
<1>1. Len(t) \in Nat /\ m \in 1..(Len(t) + 1) /\ n \in (m - 1)..Len(t)
    BY LenProperties
<1>2. u \in Seq(Symbols) /\ Len(u) = n - m + 1 /\ \A i \in 1..(n - m + 1) : u[i] = t[m + i - 1]
    BY <1>1, Piece
<1>3. \A i \in 1..(n - m + 1) : m + i - 1 \in m..n /\ m + i - 1 \in 1..Len(t)
    BY <1>1
<1>. HIDE DEF u
<1>4. ASSUME NEW i \in 1..Len(u)
      PROVE  u[i] \in Symbols \ {"SP"}
    <2>1. i \in 1..(n - m + 1) /\ m + i - 1 \in m..n
        BY <1>2, <1>3
    <2>2. u[i] # "SP"
        BY <1>2, <2>1
    <2>3. u[i] \in Symbols
        BY <1>2, ElementOfSeq
    <2>. QED BY <2>2, <2>3
<1>5. u \in Seq(Symbols \ {"SP"})
    <2>. DEFINE T == Symbols \ {"SP"}
    <2>1. \A i \in 1..Len(u) : u[i] \in T
        BY <1>4
    <2>. HIDE DEF T
    <2>2. u \in Seq(T)
        BY <1>2, <2>1, SeqOfTheirs
    <2>. QED BY <2>2 DEF T
<1>6. u # <<>>
    BY <1>1, <1>2, EmptySeq
<1>. QED BY <1>2, <1>5, <1>6 DEF Words, u

\* extractWords() yields words, each from its beginning to its end.
LEMMA WordsOfText ==
    ASSUME NEW t \in Seq(Symbols)
    PROVE  WordsAre(t)
<1>. DEFINE E == Ends(t)
            F == Ended(t)
            in == Sorted(F)
            empty == {e \in E : Start(t, e) = e}
<1>1. Len(t) \in Nat /\ E \subseteq 1..(Len(t) + 1)
    BY LenProperties DEF Ends
<1>2. F \subseteq E /\ F \subseteq Nat
    BY <1>1 DEF Ended
<1>3. IsFiniteSet(F)
    <2>1. IsFiniteSet(1..(Len(t) + 1))
        BY <1>1, FS_Interval
    <2>. QED BY <1>1, <1>2, <2>1, FS_Subset
<1>4. \A i \in F : i \in E /\ \A j \in empty : i < j
    BY DEF Ended
<1>5. \A i \in E : (\A j \in empty : i < j) => i \in F
    BY DEF Ended
<1>6. extractWords(t) = [k \in DOMAIN in |-> SubSeq(t, Start(t, in[k]), in[k] - 1)]
    BY DEF extractWords, Ended, Start, Ends
<1>7. in \in Seq(F) /\ DOMAIN in = 1..Len(in)
    BY <1>2, <1>3, SortedIsInOrder
<1>8. \A i \in F : i \in 1..(Len(t) + 1) /\ Start(t, i) < i
    <2>1. ASSUME NEW i \in F
          PROVE  i \in 1..(Len(t) + 1) /\ Start(t, i) < i
        <3>1. i \in E /\ i \in 1..(Len(t) + 1)
            BY <1>1, <1>2
        <3>2. Start(t, i) \in 1..i
            BY <3>1, StartIs
        <3>3. i \notin empty
            BY <1>4, <3>1
        <3>4. Start(t, i) # i
            BY <3>1, <3>3
        <3>. QED BY <3>1, <3>2, <3>4
    <2>. QED BY <2>1
<1>9. \A i \in F, j \in E : j < i => j \in F
    <2>1. ASSUME NEW i \in F, NEW j \in E, j < i
          PROVE  j \in F
        <3>1. \A e \in empty : e \in Nat
            BY <1>1
        <3>2. \A e \in empty : j < e
            BY <1>1, <1>2, <1>4, <2>1, <3>1
        <3>. QED BY <1>5, <3>2
    <2>. QED BY <2>1
<1>. HIDE DEF E, F, in, empty
<1>10. \A k \in 1..Len(in) : in[k] \in F
    BY <1>7, ElementOfSeq
<1>11. ASSUME NEW k \in 1..Len(in)
       PROVE  SubSeq(t, Start(t, in[k]), in[k] - 1) \in Words
    <2>. DEFINE i == in[k]
                m == Start(t, i)
                n == i - 1
    <2>1. i \in 1..(Len(t) + 1) /\ m < i
        BY <1>8, <1>10
    <2>2. m \in 1..i /\ \A x \in m..n : x \in 1..Len(t) /\ t[x] # "SP"
        BY <2>1, StartIs
    <2>. HIDE DEF i, m
    <2>3. m \in 1..Len(t) /\ n \in m..Len(t)
        BY <1>1, <2>1, <2>2
    <2>. HIDE DEF n
    <2>4. SubSeq(t, m, n) \in Words
        BY <2>2, <2>3, PieceIsAWord
    <2>. QED BY <2>4 DEF m, n, i
<1>12. Len(in) \in Nat
    BY <1>7, LenProperties
<1>13. extractWords(t) \in [1..Len(in) -> Words]
    BY <1>6, <1>7, <1>11
<1>14. extractWords(t) \in Seq(Words) /\ Len(extractWords(t)) = Len(in)
    BY <1>12, <1>13, FunctionIsSeq
<1>15. \A k \in 1..Len(in) : extractWords(t)[k] = SubSeq(t, Start(t, in[k]), in[k] - 1)
    BY <1>6, <1>7
<1>. QED BY <1>2, <1>3, <1>7, <1>8, <1>9, <1>12, <1>14, <1>15 DEF WordsAre, E, F, in

-----------------------------------------------------------------------------
(* What parse() makes of a text.                                           *)

\* trim() of a text that does not begin with a space.
LEMMA TrimIs ==
    ASSUME NEW text \in Seq(Symbols), text # <<>>, text[1] # "SP"
    PROVE  \E z \in 1..Len(text) : /\ trim(text) = SubSeq(text, 1, z) /\ text[z] # "SP"
                                   /\ \A i \in (z + 1)..Len(text) : text[i] = "SP"
<1>. DEFINE B == {i \in DOMAIN text : text[i] # "SP"}
<1>1. Len(text) \in Nat \ {0} /\ DOMAIN text = 1..Len(text)
    BY LenProperties, EmptySeq
<1>2. B \subseteq Nat /\ 1 \in B /\ \A i \in B : i <= Len(text)
    BY <1>1
<1>3. \A i \in B : i \in 1..Len(text) /\ text[i] # "SP"
    BY <1>1
<1>4. \A i \in 1..Len(text) : text[i] # "SP" => i \in B
    BY <1>1
<1>5. trim(text) = SubSeq(text, Min(B), Max(B))
    <2>1. trim(text) = IF B = {} THEN <<>> ELSE SubSeq(text, Min(B), Max(B))
        BY DEF trim
    <2>. QED BY <1>2, <2>1
<1>. HIDE DEF B
<1>6. Min(B) \in B /\ \A i \in B : Min(B) <= i
    BY <1>2, MinIsLeast
<1>7. Max(B) \in B /\ \A i \in B : i <= Max(B)
    BY <1>1, <1>2, MaxIsGreatest
<1>. DEFINE z == Max(B)
<1>8. Min(B) = 1
    <2>1. Min(B) <= 1 /\ Min(B) \in 1..Len(text)
        BY <1>2, <1>3, <1>6
    <2>. QED BY <1>1, <2>1
<1>9. z \in 1..Len(text) /\ text[z] # "SP"
    BY <1>3, <1>7
<1>10. \A i \in (z + 1)..Len(text) : text[i] = "SP"
    BY <1>1, <1>4, <1>7, <1>9
<1>. HIDE DEF z
<1>11. trim(text) = SubSeq(text, 1, z)
    BY <1>5, <1>8 DEF z
<1>. QED BY <1>9, <1>10, <1>11

\* The word that decides, 0 for none.
Deciding(words, nick) ==
    SelectInSeq([k \in DOMAIN words |-> k], LAMBDA k : IsForeign(words, k, nick) \/ IsCommand(words[k]))

Decides(words, k, nick) == IsForeign(words, k, nick) \/ IsCommand(words[k])

\* The word that decides is the first that can.
LEMMA DecidingIs ==
    ASSUME NEW words \in Seq(Words), NEW nick
    PROVE  /\ Deciding(words, nick) \in 0..Len(words)
           /\ Deciding(words, nick) # 0 => Decides(words, Deciding(words, nick), nick)
           /\ \A k \in 1..Len(words) : Decides(words, k, nick) =>
                  Deciding(words, nick) # 0 /\ Deciding(words, nick) <= k
<1>. DEFINE ks == [k \in DOMAIN words |-> k]
            I == {i \in 1..Len(ks) : Decides(words, ks[i], nick)}
<1>1. Len(words) \in Nat /\ DOMAIN words = 1..Len(words)
    BY LenProperties
<1>2. Len(ks) = Len(words) /\ \A i \in 1..Len(words) : ks[i] = i
    <2>. DEFINE n == Len(words)
    <2>1. ks \in [1..n -> Nat] /\ n \in Nat
        BY <1>1
    <2>2. Len(ks) = n
        <3>. HIDE DEF ks, n
        <3>. QED BY <2>1, FunctionIsSeq
    <2>. QED BY <1>1, <2>2
<1>3. Deciding(words, nick) = IF I # {} THEN Min(I) ELSE 0
    BY DEF Deciding, SelectInSeq, Decides
<1>. HIDE DEF ks
<1>4. I \subseteq Nat /\ \A i \in I : i \in 1..Len(words) /\ Decides(words, i, nick)
    BY <1>1, <1>2
<1>5. \A i \in 1..Len(words) : Decides(words, i, nick) => i \in I
    BY <1>2
<1>. HIDE DEF I
<1>6. I # {} => Min(I) \in I /\ \A i \in I : Min(I) <= i
    BY <1>4, MinIsLeast
<1>. DEFINE at == Deciding(words, nick)
<1>7. CASE I = {}
    BY <1>1, <1>3, <1>5, <1>7
<1>8. CASE I # {}
    <2>1. at \in I /\ \A i \in I : at <= i
        BY <1>3, <1>6, <1>8
    <2>. HIDE DEF at
    <2>2. at \in 1..Len(words) /\ Decides(words, at, nick)
        BY <1>4, <2>1
    <2>3. at \in 0..Len(words) /\ at # 0
        BY <1>1, <2>2
    <2>. QED BY <1>5, <2>1, <2>2, <2>3 DEF at
<1>. QED BY <1>7, <1>8

\* parse() by the word that decides.
LEMMA ParseIs ==
    ASSUME NEW nick, NEW text
    PROVE  LET words == extractWords(trim(text))
               at == Deciding(words, nick)
           IN  parse(nick, text) =
                   IF at = 0 THEN [is |-> "parsed", command |-> <<>>, arguments |-> <<>>]
                   ELSE IF IsForeign(words, at, nick) THEN [is |-> "runtime_error"]
                   ELSE [is |-> "parsed", command |-> Tail(words[at]), arguments |-> SubSeq(words, at + 1, Len(words))]
BY DEF parse, Deciding

\* A text that is not empty and does not begin with a space is cut into words.
LEMMA WordsOfTrimmed ==
    ASSUME NEW text \in Seq(Symbols), text # <<>>, text[1] # "SP"
    PROVE  extractWords(trim(text)) \in Seq(Words)
<1>1. PICK z \in 1..Len(text) : trim(text) = SubSeq(text, 1, z)
    BY TrimIs
<1>2. 1 \in 1..(Len(text) + 1) /\ z \in (1 - 1)..Len(text)
    BY LenProperties
<1>3. trim(text) \in Seq(Symbols)
    BY <1>1, <1>2, Piece
<1>. QED BY <1>3, WordsOfText DEF WordsAre

\* The arguments are words.
LEMMA ArgumentsAreWords ==
    ASSUME NEW nick, NEW text \in Seq(Symbols), text # <<>>, text[1] # "SP", parse(nick, text).is = "parsed"
    PROVE  parse(nick, text).arguments \in Seq(Words)
<1>. DEFINE words == extractWords(trim(text))
            at == Deciding(words, nick)
<1>1. words \in Seq(Words) /\ Len(words) \in Nat
    BY WordsOfTrimmed, LenProperties
<1>. HIDE DEF words
<1>2. at \in 0..Len(words)
    BY <1>1, DecidingIs
<1>3. parse(nick, text) =
                   IF at = 0 THEN [is |-> "parsed", command |-> <<>>, arguments |-> <<>>]
                   ELSE IF IsForeign(words, at, nick) THEN [is |-> "runtime_error"]
                   ELSE [is |-> "parsed", command |-> Tail(words[at]), arguments |-> SubSeq(words, at + 1, Len(words))]
    BY ParseIs DEF words
<1>. HIDE DEF at
<1>4. SubSeq(words, at + 1, Len(words)) \in Seq(Words)
    <2>. DEFINE m == at + 1
                n == Len(words)
    <2>1. m \in 1..(Len(words) + 1) /\ n \in (m - 1)..Len(words)
        BY <1>1, <1>2
    <2>. HIDE DEF m, n
    <2>2. SubSeq(words, m, n) \in Seq(Words)
        BY <1>1, <2>1, Piece
    <2>. QED BY <2>2 DEF m, n
<1>5. <<>> \in Seq(Words)
    BY EmptySeq
<1>. QED BY <1>3, <1>4, <1>5

\* Where a command stands in a text.
MeantAt(text, nick, c, at) ==
    /\ text[at] = "!" /\ text[at + 1] = c
    /\ at > 1 => text[at - 1] = "SP"
    /\ at + 1 < Len(text) => text[at + 2] = "SP"
    /\ \A i \in 2..(at - 1) : text[i] = "SP" /\ text[i - 1] = ":" =>
         \E j \in 1..(i - 1) : /\ SubSeq(text, j, i - 1) = Address(nick)
                               /\ j > 1 => text[j - 1] = "SP"

\* A command that parse() finds is a word of the text, and what was addressed before it
\* was the bot.
LEMMA CommandIsMeant ==
    ASSUME NEW nick \in Words, NEW text \in Seq(Symbols), text # <<>>, text[1] # "SP", NEW c,
           parse(nick, text).is = "parsed", parse(nick, text).command = <<c>>
    PROVE  \E at \in 1..(Len(text) - 1) : MeantAt(text, nick, c, at)
<1>1. PICK z \in 1..Len(text) : /\ trim(text) = SubSeq(text, 1, z)
                                /\ \A i \in (z + 1)..Len(text) : text[i] = "SP"
    BY TrimIs
<1>2. Len(text) \in Nat
    BY LenProperties
<1>. DEFINE t == SubSeq(text, 1, z)
<1>3. t \in Seq(Symbols) /\ Len(t) = z /\ DOMAIN t = 1..z /\ \A i \in 1..z : t[i] = text[i]
    <2>1. 1 \in 1..(Len(text) + 1) /\ z \in (1 - 1)..Len(text) /\ z - 1 + 1 = z /\ \A i \in 1..z : 1 + i - 1 = i
        BY <1>2
    <2>2. /\ t \in Seq(Symbols) /\ Len(t) = z - 1 + 1
          /\ \A i \in 1..(z - 1 + 1) : t[i] = text[1 + i - 1]
        BY <2>1, Piece
    <2>. HIDE DEF t
    <2>. QED BY <2>1, <2>2, LenProperties
\* A part of what is trimmed is a part of the text.
<1>4. \A m \in 1..z, n \in 1..z : SubSeq(t, m, n) = SubSeq(text, m, n)
    <2>. SUFFICES ASSUME NEW m \in 1..z, NEW n \in 1..z
                  PROVE  SubSeq(t, m, n) = SubSeq(text, m, n)
        OBVIOUS
    <2>1. 1 \in 1..Len(text) /\ z \in 1..Len(text) /\ m \in 1..(z - 1 + 1) /\ n \in 1..(z - 1 + 1)
        BY <1>2
    <2>2. 1 + m - 1 = m /\ 1 + n - 1 = n
        OBVIOUS
    <2>3. SubSeq(SubSeq(text, 1, z), m, n) = SubSeq(text, 1 + m - 1, 1 + n - 1)
        BY <2>1, SubSeqOfSubSeq
    <2>. QED BY <2>2, <2>3
<1>. DEFINE words == extractWords(t)
            in == Sorted(Ended(t))
            at == Deciding(words, nick)
<1>5. WordsAre(t)
    BY <1>3, WordsOfText
<1>. HIDE DEF t
<1>6. /\ Ended(t) \subseteq Ends(t)
      /\ DOMAIN in = 1..Len(in) /\ Len(in) \in Nat
      /\ \A i \in Ended(t) : i \in 1..(Len(t) + 1) /\ Start(t, i) < i
      /\ \A i \in Ended(t), j \in Ends(t) : j < i => j \in Ended(t)
      /\ words \in Seq(Words) /\ Len(words) = Len(in)
      /\ \A k \in 1..Len(in) : words[k] = SubSeq(t, Start(t, in[k]), in[k] - 1)
      /\ \A k \in 1..Len(in) : in[k] \in Ended(t)
    BY <1>5, ElementOfSeq DEF WordsAre
<1>7. /\ \A k, l \in DOMAIN in : k < l <=> in[k] < in[l]
      /\ \A i \in Ended(t) : \E k \in DOMAIN in : in[k] = i
    BY <1>5, SortedIsInOrder DEF WordsAre
<1>. HIDE DEF in, words
<1>8. /\ at \in 0..Len(words) /\ (at # 0 => Decides(words, at, nick))
      /\ \A k \in 1..Len(words) : Decides(words, k, nick) => at # 0 /\ at <= k
    BY <1>6, DecidingIs
<1>9. parse(nick, text) =
                   IF at = 0 THEN [is |-> "parsed", command |-> <<>>, arguments |-> <<>>]
                   ELSE IF IsForeign(words, at, nick) THEN [is |-> "runtime_error"]
                   ELSE [is |-> "parsed", command |-> Tail(words[at]), arguments |-> SubSeq(words, at + 1, Len(words))]
    BY <1>1, ParseIs DEF words, t
<1>. HIDE DEF at
<1>10. at \in 1..Len(in) /\ ~IsForeign(words, at, nick) /\ Tail(words[at]) = <<c>>
    <2>1. at # 0
        BY <1>9
    <2>2. ~IsForeign(words, at, nick)
        BY <1>9, <2>1
    <2>3. Tail(words[at]) = <<c>>
        BY <1>9, <2>1, <2>2
    <2>. QED BY <1>6, <1>8, <2>1, <2>2, <2>3
<1>11. words[at] \in Words /\ IsCommand(words[at])
    <2>1. at # 0 /\ at \in 1..Len(words)
        BY <1>6, <1>10
    <2>. QED BY <1>6, <1>8, <1>10, <2>1, ElementOfSeq DEF Decides
<1>12. Len(words[at]) = 2 /\ words[at][1] = "!" /\ words[at][2] = c
    <2>. DEFINE w == words[at]
    <2>1. w \in Seq(Symbols \ {"SP"}) /\ w # <<>>
        BY <1>11 DEF Words
    <2>2. Len(w) \in Nat /\ Head(w) = "!" /\ Tail(w) = <<c>>
        BY <1>10, <1>11, <2>1, LenProperties DEF IsCommand
    <2>. HIDE DEF w
    <2>3. Len(Tail(w)) = Len(w) - 1 /\ \A i \in 1..Len(Tail(w)) : Tail(w)[i] = w[i + 1]
        BY <2>1, HeadTailProperties
    <2>4. Len(w) = 2 /\ w[2] = c
        <3>1. Len(<<c>>) = 1 /\ <<c>>[1] = c
            OBVIOUS
        <3>2. Len(w) - 1 = 1
            BY <2>2, <2>3, <3>1
        <3>3. Len(w) = 2
            BY <2>2, <3>2
        <3>4. 1 + 1 = 2 /\ 1 \in 1..1
            OBVIOUS
        <3>5. Len(Tail(w)) = 1
            BY <2>3, <3>2
        <3>6. Tail(w)[1] = w[1 + 1]
            BY <2>3, <3>4, <3>5
        <3>. QED BY <2>2, <3>1, <3>3, <3>4, <3>6
    <2>5. w[1] = "!"
        BY <2>1, <2>2
    <2>. QED BY <2>4, <2>5 DEF w
<1>. DEFINE e == in[at]
            a == Start(t, e)
<1>13. e \in Ended(t) /\ e \in Ends(t) /\ e \in 1..(z + 1) /\ a < e /\ words[at] = SubSeq(t, a, e - 1)
    BY <1>3, <1>6, <1>10
<1>14. /\ a \in 1..e /\ (a > 1 => a - 1 \in Ends(t))
       /\ \A x \in a..(e - 1) : x \in 1..z /\ t[x] # "SP"
    BY <1>3, <1>13, StartIs
<1>. HIDE DEF e, a
<1>15. e = a + 2 /\ t[a] = "!" /\ t[a + 1] = c
    <2>. DEFINE n == e - 1
    <2>1. a \in 1..Len(t) /\ n \in a..Len(t) /\ \A x \in a..n : t[x] # "SP"
        <3>1. e \in Nat /\ e <= z + 1 /\ a \in Nat /\ a >= 1 /\ a < e
            BY <1>13, <1>14
        <3>2. a \in 1..z /\ n \in a..z
            BY <3>1
        <3>. QED BY <1>3, <1>14, <3>2
    <2>2. words[at] = SubSeq(t, a, n)
        BY <1>13
    <2>. HIDE DEF n
    <2>3. /\ Len(SubSeq(t, a, n)) = n - a + 1
          /\ \A i \in 1..(n - a + 1) : SubSeq(t, a, n)[i] = t[a + i - 1]
        BY <1>3, <2>1, PieceIsAWord
    <2>4. n - a + 1 = 2 /\ a + 1 - 1 = a /\ a + 2 - 1 = a + 1
        BY <1>12, <2>1, <2>2, <2>3
    <2>5. t[a] = "!" /\ t[a + 1] = c
        <3>1. 1 \in 1..(n - a + 1) /\ 2 \in 1..(n - a + 1)
            BY <2>4
        <3>2. SubSeq(t, a, n)[1] = t[a + 1 - 1] /\ SubSeq(t, a, n)[2] = t[a + 2 - 1]
            BY <2>3, <3>1
        <3>. QED BY <1>12, <2>2, <2>4, <3>2
    <2>. QED BY <1>13, <1>14, <2>4, <2>5 DEF n
<1>16. \A i \in 1..z : i \in Ends(t) <=> t[i] = "SP"
    BY <1>2, <1>3 DEF Ends
<1>17. a \in 1..(Len(text) - 1) /\ a + 1 \in 1..z /\ text[a] = "!" /\ text[a + 1] = c
    BY <1>2, <1>3, <1>13, <1>14, <1>15
<1>18. a > 1 => text[a - 1] = "SP"
    BY <1>2, <1>3, <1>14, <1>16, <1>17
<1>19. a + 1 < Len(text) => text[a + 2] = "SP"
    <2>1. CASE a + 2 <= z
        BY <1>2, <1>3, <1>13, <1>15, <1>16, <1>17, <2>1
    <2>2. CASE a + 2 > z
        BY <1>1, <1>2, <1>17, <2>2
    <2>. QED BY <1>2, <1>17, <2>1, <2>2
<1>20. ASSUME NEW i \in 2..(a - 1), text[i] = "SP", text[i - 1] = ":"
       PROVE  \E j \in 1..(i - 1) : SubSeq(text, j, i - 1) = Address(nick) /\ (j > 1 => text[j - 1] = "SP")
    <2>1. i \in 1..z /\ i - 1 \in 1..z /\ t[i] = "SP" /\ t[i - 1] = ":" /\ i < e
        <3>1. i \in 1..z /\ i - 1 \in 1..z
            BY <1>2, <1>17, <1>20
        <3>2. i < e
            BY <1>2, <1>15, <1>17, <1>20
        <3>. QED BY <1>3, <1>20, <3>1, <3>2
    <2>2. i \in Ended(t)
        BY <1>6, <1>13, <1>16, <2>1
    <2>3. PICK k \in DOMAIN in : in[k] = i
        BY <1>7, <2>2
    <2>4. k < at /\ k \in 1..Len(in) /\ k \in 1..Len(words)
        BY <1>6, <1>7, <1>10, <2>1, <2>3 DEF e
    <2>5. ~Decides(words, k, nick)
        BY <1>6, <1>8, <1>10, <2>4
    <2>. DEFINE j == Start(t, i)
                n == i - 1
    <2>6. words[k] = SubSeq(t, j, n) /\ j < i
        BY <1>6, <2>2, <2>3, <2>4
    <2>7. /\ j \in 1..i /\ (j > 1 => j - 1 \in Ends(t))
          /\ \A x \in j..n : x \in 1..Len(t) /\ t[x] # "SP"
        BY <1>3, <2>1, StartIs
    <2>. HIDE DEF j
    <2>8. j \in 1..Len(t) /\ n \in j..Len(t) /\ j \in 1..z /\ n \in 1..z
        BY <1>3, <2>1, <2>6, <2>7
    <2>. HIDE DEF n
    <2>9. /\ Len(SubSeq(t, j, n)) = n - j + 1
          /\ \A x \in 1..(n - j + 1) : SubSeq(t, j, n)[x] = t[j + x - 1]
        BY <1>3, <2>7, <2>8, PieceIsAWord
    <2>10. Last(words[k]) = ":"
        <3>1. n - j + 1 \in 1..(n - j + 1) /\ j + (n - j + 1) - 1 = n
            BY <2>8
        <3>2. SubSeq(t, j, n)[n - j + 1] = t[n]
            BY <2>9, <3>1
        <3>3. t[n] = ":"
            BY <2>1 DEF n
        <3>. QED BY <2>6, <2>9, <3>2, <3>3 DEF Last
    <2>11. words[k] = Append(nick, ":")
        BY <2>5, <2>10 DEF Decides, IsForeign
    <2>12. Append(nick, ":") = Address(nick)
        <3>1. nick \in Seq(Symbols \ {"SP"}) /\ ":" \in Symbols \ {"SP"}
            BY SymbolsAssumption DEF Words, SymbolsAssumption
        <3>. QED BY <3>1, AppendIsConcat DEF Address
    <2>13. SubSeq(text, j, n) = Address(nick)
        BY <1>4, <2>6, <2>8, <2>11, <2>12
    <2>14. j > 1 => text[j - 1] = "SP"
        BY <1>2, <1>3, <1>16, <2>7, <2>8
    <2>15. j \in 1..(i - 1) /\ n = i - 1
        BY <2>6, <2>7 DEF n
    <2>. QED BY <2>13, <2>14, <2>15
<1>. QED BY <1>17, <1>18, <1>19, <1>20 DEF MeantAt

-----------------------------------------------------------------------------
(* What onPacket() has answered.                                           *)

\* The types the texts do not have a part in.
CountTypes ==
    /\ count \in [said : 0..MaxSaid, changes : 0..MaxChanges]
    /\ nickname \in Nicknames \cup {NoNickname}

\* What onPacket() has just returned, with the nickname it had when it did.
AnswerInv ==
    /\ CountTypes
    /\ message = {} => result = {}
    /\ \A m \in message :
         /\ m \in Message /\ message = {m}
         /\ m.type = "NICK" => result = {}
         /\ m.type = "PRIVMSG" =>
              /\ nickname = m.to
              /\ result = IF checkForCommand(m.text) THEN parseCommandMessage(m) ELSE {}

\* The fields of something said.
LEMMA MessageIs ==
    ASSUME NEW m \in Message, m.type = "PRIVMSG"
    PROVE  /\ m.to \in Nicknames /\ m.nick \in Nicknames
           /\ m.receiver \in Nicknames \cup {Channel} /\ m.text \in Seq(Symbols)
<1>1. m \in PrivMessages
    BY DEF Message, NickMessages
<1>. QED BY <1>1 DEF PrivMessages

\* onPacket() reads a message with the nickname the bot had.
LEMMA OnPacketAnswers ==
    ASSUME AdminCommandsAssumption, TrackInv, CountTypes, OnPacket
    PROVE  AnswerInv'
<1>1. PICK m \in Message : m = Head(inbox) /\ m = inbox[1]
    BY DEF OnPacket, TrackInv, Types
<1>2. nickname = m.to
    BY <1>1 DEF OnPacket, TrackInv, Chain
<1>3. m.to \in Nicknames /\ m.type \in {"NICK", "PRIVMSG"} /\ (m.type = "NICK" => m.newNick \in Nicknames)
    BY <1>1, MessageFields
<1>4. /\ message' = {m} /\ count' = count
      /\ nickname' = IF m.type = "NICK" THEN Track(m) ELSE nickname
      /\ result' = IF m.type = "PRIVMSG" /\ checkForCommand(m.text) THEN parseCommandMessage(m) ELSE {}
    BY <1>1 DEF OnPacket
<1>5. CountTypes'
    BY <1>3, <1>4 DEF CountTypes, Track
<1>6. ASSUME m.type = "PRIVMSG"
      PROVE  /\ nickname' = m.to
             /\ result' = (IF checkForCommand(m.text) THEN parseCommandMessage(m) ELSE {})'
    <2>1. nickname' = nickname
        BY <1>3, <1>4, <1>6
    <2>. QED BY <1>2, <1>4, <1>6, <2>1 DEF checkForCommand, parseCommandMessage
<1>. QED BY <1>1, <1>3, <1>4, <1>5, <1>6 DEF AnswerInv

\* AnswerInv is inductive, together with TrackInv.
LEMMA AnswerInvariance == Spec => []AnswerInv
<1>1. Init => AnswerInv
    BY AdminCommandsAssumption DEF Init, AnswerInv, CountTypes, AdminCommandsAssumption
<1>2. ASSUME TrackInv, AnswerInv, [Next]_vars
      PROVE  AnswerInv'
    <2>1. CASE OnPacket
        BY <1>2, <2>1, OnPacketAnswers, AdminCommandsAssumption DEF AnswerInv
    <2>2. ASSUME OnPacketSent \/ Rename \/ Say \/ ConnectionLost
          PROVE  AnswerInv'
        <3>1. message' = {} /\ result' = {}
            BY <2>2 DEF OnPacketSent, Rename, Say, ConnectionLost
        <3>2. count' \in [said : 0..MaxSaid, changes : 0..MaxChanges]
            <4>1. count \in [said : 0..MaxSaid, changes : 0..MaxChanges]
                BY <1>2 DEF AnswerInv, CountTypes
            <4>2. CASE OnPacketSent
                BY <4>1, <4>2 DEF OnPacketSent
            <4>3. CASE Say
                BY <4>1, <4>3, AdminCommandsAssumption DEF Say, AdminCommandsAssumption
            <4>4. CASE Rename \/ ConnectionLost
                <5>1. Change
                    BY <4>4 DEF Rename, ConnectionLost
                <5>. QED BY <4>1, <5>1, AdminCommandsAssumption DEF Change, AdminCommandsAssumption
            <4>. QED BY <2>2, <4>2, <4>3, <4>4
        <3>3. nickname' \in Nicknames \cup {NoNickname}
            BY <1>2, <2>2, AdminCommandsAssumption
               DEF AnswerInv, CountTypes, OnPacketSent, Rename, Say, ConnectionLost, AdminCommandsAssumption
        <3>. QED BY <3>1, <3>2, <3>3 DEF AnswerInv, CountTypes
    <2>3. CASE UNCHANGED vars
        <3>1. /\ count' = count /\ nickname' = nickname /\ message' = message /\ result' = result
            BY <2>3 DEF vars
        <3>2. CountTypes'
            BY <1>2, <3>1 DEF AnswerInv, CountTypes
        <3>3. ASSUME NEW m \in message, m.type = "PRIVMSG"
              PROVE  /\ nickname' = m.to
                     /\ result' = (IF checkForCommand(m.text) THEN parseCommandMessage(m) ELSE {})'
            <4>1. /\ nickname = m.to
                  /\ result = IF checkForCommand(m.text) THEN parseCommandMessage(m) ELSE {}
                BY <1>2, <3>3 DEF AnswerInv
            <4>2. checkForCommand(m.text)' = checkForCommand(m.text)
                BY <3>1 DEF checkForCommand
            <4>3. parseCommandMessage(m)' = parseCommandMessage(m)
                BY <3>1 DEF parseCommandMessage
            <4>. QED BY <3>1, <4>1, <4>2, <4>3
        <3>. QED BY <1>2, <3>1, <3>2, <3>3 DEF AnswerInv
    <2>. QED BY <1>2, <2>1, <2>2, <2>3 DEF Next
<1>. QED BY <1>1, <1>2, TrackInvariance, PTL DEF Spec

\* A sequence of one.
LEMMA OneElement ==
    ASSUME NEW S, NEW x \in S
    PROVE  <<x>> \in Seq(S) /\ Len(<<x>>) = 1 /\ <<x>>[1] = x
OBVIOUS

\* A text that onPacket() looks into does not begin with a space.
LEMMA CheckedText ==
    ASSUME NEW text \in Seq(Symbols), nickname \in Words, checkForCommand(text)
    PROVE  /\ text # <<>> /\ text[1] # "SP"
           /\ text[1] = "!" \/ IsPrefix(Address(nickname), text)
<1>1. Len(text) \in Nat
    BY LenProperties
<1>2. CASE IsPrefix(<<"!">>, text)
    <2>1. Len(<<"!">>) = 1 /\ <<"!">>[1] = "!" /\ <<"!">> \in Seq({"!"})
        BY OneElement
    <2>2. 1 <= Len(text) /\ SubSeq(<<"!">>, 1, 1) = SubSeq(text, 1, 1)
        BY <1>2, <2>1 DEF IsPrefix
    <2>3. SubSeq(<<"!">>, 1, 1) = <<"!">>
        BY <2>1, SubSeqFull
    <2>4. text[1] = "!"
        <3>1. 1 \in 1..(Len(text) + 1) /\ 1 \in (1 - 1)..Len(text) /\ 1 \in 1..(1 - 1 + 1) /\ 1 + 1 - 1 = 1
            BY <1>1, <2>2
        <3>2. SubSeq(text, 1, 1)[1] = text[1]
            BY <3>1, Piece, SMTT(20)
        <3>. QED BY <2>1, <2>2, <2>3, <3>2
    <2>. QED BY <2>2, <2>4, EmptySeq
<1>3. CASE IsPrefix(Append(nickname, ":"), text)
    <2>. DEFINE a == Append(nickname, ":")
    <2>1. nickname \in Seq(Symbols \ {"SP"}) /\ nickname # <<>> /\ ":" \in Symbols \ {"SP"}
        BY SymbolsAssumption DEF Words, SymbolsAssumption
    <2>2. a = Address(nickname)
        BY <2>1, AppendIsConcat DEF Address
    <2>3. a \in Seq(Symbols \ {"SP"}) /\ Len(a) \in Nat \ {0}
        BY <2>1, AppendProperties, EmptySeq
    <2>4. Len(a) <= Len(text) /\ SubSeq(a, 1, Len(a)) = SubSeq(text, 1, Len(a))
        BY <1>3 DEF IsPrefix
    <2>. HIDE DEF a
    <2>5. SubSeq(a, 1, Len(a)) = a
        BY <2>3, SubSeqFull
    <2>6. text[1] = a[1]
        <3>. DEFINE n == Len(a)
        <3>1. 1 \in 1..(Len(text) + 1) /\ n \in (1 - 1)..Len(text) /\ 1 \in 1..(n - 1 + 1) /\ 1 + 1 - 1 = 1
            BY <1>1, <2>3, <2>4
        <3>. HIDE DEF n
        <3>2. \A i \in 1..(n - 1 + 1) : SubSeq(text, 1, n)[i] = text[1 + i - 1]
            BY <3>1, Piece
        <3>3. SubSeq(text, 1, n)[1] = text[1]
            BY <3>1, <3>2
        <3>. QED BY <2>4, <2>5, <3>3 DEF n
    <2>7. a[1] \in Symbols \ {"SP"}
        BY <2>3, ElementOfSeq
    <2>8. text # <<>>
        BY <2>3, <2>4, EmptySeq
    <2>. QED BY <1>3, <2>2, <2>6, <2>7, <2>8 DEF a
<1>. QED BY <1>2, <1>3 DEF checkForCommand

\* What a command was that something was done for.
LEMMA ResultIs ==
    ASSUME AnswerInv, AdminCommandsAssumption, NEW m \in message, NEW r \in result
    PROVE  /\ m \in Message /\ m.type = "PRIVMSG" /\ nickname = m.to /\ checkForCommand(m.text)
           /\ LET parser == parse(m.to, m.text)
                  admin(c) == m.nick = AdminNickname /\ parser.command = <<c>>
              IN  /\ parser.is = "parsed"
                  /\ r = [quit    |-> admin("quit"),
                          join    |-> IF admin("join") THEN parser.arguments ELSE <<>>,
                          part    |-> IF admin("leave") THEN Leave(m, parser.arguments) ELSE <<>>,
                          version |-> IF parser.command = <<"version">> THEN {m.nick} ELSE {}]
<1>1. m \in Message /\ m.type = "PRIVMSG" /\ nickname = m.to /\ checkForCommand(m.text)
    BY MessageFields DEF AnswerInv
<1>2. result = parseCommandMessage(m)
    BY <1>1 DEF AnswerInv
<1>. DEFINE parser == parse(m.to, m.text)
<1>3. parser.is # "runtime_error"
    BY <1>1, <1>2 DEF parseCommandMessage
<1>4. parser.is \in {"parsed", "runtime_error"}
    BY ParseIs
<1>5. parser.is = "parsed"
    BY <1>3, <1>4
<1>. QED BY <1>1, <1>2, <1>3, <1>5 DEF parseCommandMessage

\* A nickname is a word.
LEMMA NicknameIsAWord ==
    ASSUME AdminCommandsAssumption, NEW nick \in Nicknames
    PROVE  nick \in Words
BY DEF AdminCommandsAssumption

\* Whatever is said, PlugInAdmin makes something of it that the main loop can use.
THEOREM TypeCorrect == Spec => []TypeOK
<1>1. ASSUME TrackInv, AnswerInv
      PROVE  TypeOK
    <2>1. ASSUME NEW r \in result
          PROVE  r \in PlugInResult
        <3>1. PICK m \in message : TRUE
            BY <1>1, <2>1 DEF AnswerInv
        <3>. DEFINE parser == parse(m.to, m.text)
                    admin(c) == m.nick = AdminNickname /\ parser.command = <<c>>
        <3>2. /\ m \in Message /\ m.type = "PRIVMSG" /\ nickname = m.to /\ checkForCommand(m.text)
              /\ parser.is = "parsed"
              /\ r = [quit    |-> admin("quit"),
                      join    |-> IF admin("join") THEN parser.arguments ELSE <<>>,
                      part    |-> IF admin("leave") THEN Leave(m, parser.arguments) ELSE <<>>,
                      version |-> IF parser.command = <<"version">> THEN {m.nick} ELSE {}]
            BY <1>1, <2>1, ResultIs, AdminCommandsAssumption
        <3>3. /\ m.to \in Words /\ m.nick \in Nicknames /\ m.text \in Seq(Symbols)
              /\ m.receiver \in Words
            BY <3>2, MessageIs, NicknameIsAWord, AdminCommandsAssumption, SymbolsAssumption DEF SymbolsAssumption
        <3>4. m.text # <<>> /\ m.text[1] # "SP"
            BY <3>2, <3>3, CheckedText
        <3>5. parser.arguments \in Seq(Words)
            BY <3>2, <3>3, <3>4, ArgumentsAreWords
        <3>6. Leave(m, parser.arguments) \in Seq(Words) /\ <<>> \in Seq(Words)
            <4>1. <<m.receiver>> \in Seq(Words)
                BY <3>3
            <4>. QED BY <3>5, <4>1, EmptySeq DEF Leave
        <3>. HIDE DEF parser
        <3>. QED BY <3>2, <3>3, <3>5, <3>6 DEF PlugInResult
    <2>. QED BY <1>1, <2>1 DEF TypeOK, TrackInv, Types, AnswerInv, CountTypes
<1>. QED BY <1>1, TrackInvariance, AnswerInvariance, PTL

\* Nothing that is said makes the bot quit, join, leave or answer but a word of it that
\* is that command, before which nobody else is addressed, and with it a text that
\* begins with a command or with the nickname the bot had.  Nobody but the admin makes
\* it quit, join or leave.
THEOREM CommandsAreMeant == Spec => []ObeyedIsMeant
<1>1. ASSUME AnswerInv
      PROVE  ObeyedIsMeant
    <2>1. ASSUME NEW r \in result, NEW m \in message, NEW c \in Obeyed(r)
          PROVE  /\ c \in {"quit", "join", "leave"} => m.nick = AdminNickname
                 /\ m.text[1] = "!" \/ IsPrefix(Address(m.to), m.text)
                 /\ \E at \in 1..(Len(m.text) - 1) : MeantAt(m.text, m.to, c, at)
        <3>. DEFINE parser == parse(m.to, m.text)
                    admin(d) == m.nick = AdminNickname /\ parser.command = <<d>>
        <3>1. /\ m \in Message /\ m.type = "PRIVMSG" /\ nickname = m.to /\ checkForCommand(m.text)
              /\ parser.is = "parsed"
              /\ r = [quit    |-> admin("quit"),
                      join    |-> IF admin("join") THEN parser.arguments ELSE <<>>,
                      part    |-> IF admin("leave") THEN Leave(m, parser.arguments) ELSE <<>>,
                      version |-> IF parser.command = <<"version">> THEN {m.nick} ELSE {}]
            BY <1>1, <2>1, ResultIs, AdminCommandsAssumption
        <3>2. m.to \in Words /\ m.text \in Seq(Symbols)
            BY <3>1, MessageIs, NicknameIsAWord, AdminCommandsAssumption
        <3>3. /\ m.text # <<>> /\ m.text[1] # "SP"
              /\ m.text[1] = "!" \/ IsPrefix(Address(m.to), m.text)
            BY <3>1, <3>2, CheckedText
        <3>4. /\ parser.command = <<c>>
              /\ c \in {"quit", "join", "leave"} => m.nick = AdminNickname
            <4>. HIDE DEF parser
            <4>. QED BY <2>1, <3>1 DEF Obeyed
        <3>5. \E at \in 1..(Len(m.text) - 1) : MeantAt(m.text, m.to, c, at)
            BY <3>1, <3>2, <3>3, <3>4, CommandIsMeant
        <3>. QED BY <3>3, <3>4, <3>5
    <2>. QED BY <2>1 DEF ObeyedIsMeant, MeantAt
<1>. QED BY <1>1, AnswerInvariance, PTL

-----------------------------------------------------------------------------
(* What is said is done.                                                   *)

\* ws are the words of t, with one space between two of them.
WordsOf(t, ws) ==
    /\ t \in Seq(Symbols) /\ t # <<>> /\ t[1] # "SP" /\ t[Len(t)] # "SP"
    /\ \A e \in Ends(t) : Start(t, e) < e
    /\ ws \in Seq(Words) /\ extractWords(t) = ws

\* Where no word is empty every end counts.
LEMMA AllEnded ==
    ASSUME NEW t \in Seq(Symbols), \A e \in Ends(t) : Start(t, e) < e
    PROVE  Ended(t) = Ends(t)
<1>1. \A e \in Ends(t) : e \in Nat /\ Start(t, e) # e
    <2>1. ASSUME NEW e \in Ends(t)
          PROVE  e \in Nat /\ Start(t, e) # e
        <3>1. Len(t) \in Nat /\ e \in 1..(Len(t) + 1)
            BY LenProperties DEF Ends
        <3>2. Start(t, e) \in 1..e
            BY <3>1, StartIs
        <3>. QED BY <3>1, <3>2
    <2>. QED BY <2>1
<1>2. {e \in Ends(t) : Start(t, e) = e} = {}
    BY <1>1
<1>. QED BY <1>2 DEF Ended

\* A word is the only word of itself.
LEMMA WordAlone ==
    ASSUME NEW w \in Words
    PROVE  WordsOf(w, <<w>>)
<1>. DEFINE z == Len(w) + 1
            E == Ends(w)
            in == Sorted(E)
<1>1. w \in Seq(Symbols \ {"SP"}) /\ w \in Seq(Symbols) /\ w # <<>>
    BY SeqMonotonic DEF Words
<1>2. Len(w) \in Nat \ {0} /\ DOMAIN w = 1..Len(w) /\ \A i \in 1..Len(w) : w[i] # "SP"
    BY <1>1, LenProperties, EmptySeq, ElementOfSeq
<1>3. E = {z} /\ z \in Nat
    <2>1. \A i : i \in E <=> i = z
        BY <1>2 DEF Ends
    <2>. HIDE DEF E
    <2>. QED BY <1>2, <2>1
<1>4. Start(w, z) = 1
    <2>1. /\ z \in 1..z /\ Start(w, z) \in 1..z
          /\ Start(w, z) > 1 => Start(w, z) - 1 \in Ends(w)
        BY <1>1, <1>2, StartIs
    <2>. HIDE DEF z
    <2>. QED BY <1>3, <2>1
<1>. HIDE DEF E, z
<1>5. in = <<z>>
    <2>1. <<z>> \in Seq({z}) /\ Len(<<z>>) = 1 /\ <<z>>[1] = z
        BY OneElement
    <2>. DEFINE q == <<z>>
    <2>. HIDE DEF q
    <2>2. \A k, l \in 1..Len(q) : k < l => q[k] < q[l]
        BY <2>1 DEF q
    <2>3. \A i \in {z} : \E k \in 1..Len(q) : q[k] = i
        BY <2>1 DEF q
    <2>4. IsFiniteSet({z}) /\ {z} \subseteq Nat
        BY <1>3, FS_Singleton
    <2>5. Sorted({z}) = q
        BY <2>1, <2>2, <2>3, <2>4, SortedIsUnique DEF q
    <2>. QED BY <1>3, <2>5 DEF q
<1>6. \A e \in Ends(w) : Start(w, e) < e
    BY <1>2, <1>3, <1>4 DEF E, z
<1>7. extractWords(w) = <<w>>
    <2>1. Ended(w) = Ends(w)
        BY <1>1, <1>6, AllEnded
    <2>2. WordsAre(w)
        BY <1>1, WordsOfText
    <2>3. /\ extractWords(w) \in Seq(Words) /\ Len(extractWords(w)) = Len(in)
          /\ \A k \in 1..Len(in) : extractWords(w)[k] = SubSeq(w, Start(w, in[k]), in[k] - 1)
        BY <2>1, <2>2 DEF WordsAre, E
    <2>4. Len(in) = 1 /\ in[1] = z
        BY <1>5, OneElement
    <2>5. 1 \in 1..1 /\ z - 1 = Len(w)
        BY <1>2 DEF z
    <2>6. extractWords(w)[1] = SubSeq(w, 1, Len(w))
        BY <1>4, <2>3, <2>4, <2>5
    <2>7. extractWords(w)[1] = w
        BY <1>1, <2>6, SubSeqFull
    <2>8. <<w>> \in Seq(Words) /\ Len(<<w>>) = 1 /\ <<w>>[1] = w
        BY OneElement
    <2>9. Len(extractWords(w)) = Len(<<w>>) /\ \A k \in 1..Len(extractWords(w)) : extractWords(w)[k] = <<w>>[k]
        BY <2>3, <2>4, <2>7, <2>8
    <2>. QED BY <2>3, <2>8, <2>9, SeqEqual
<1>8. <<w>> \in Seq(Words) /\ 1 \in 1..Len(w) /\ Len(w) \in 1..Len(w)
    BY <1>2, OneElement
<1>. QED BY <1>1, <1>2, <1>6, <1>7, <1>8 DEF WordsOf

\* The elements of one sequence and then those of another.
IsJoined(u, p, q) ==
    /\ Len(u) = Len(p) + Len(q)
    /\ \A i \in 1..Len(p) : u[i] = p[i]
    /\ \A i \in 1..Len(q) : u[Len(p) + i] = q[i]

LEMMA Joined ==
    ASSUME NEW S, NEW p \in Seq(S), NEW q \in Seq(S)
    PROVE  p \o q \in Seq(S) /\ IsJoined(p \o q, p, q)
<1>. DEFINE u == p \o q
<1>1. Len(p) \in Nat /\ Len(q) \in Nat
    BY LenProperties
<1>2. /\ u \in Seq(S) /\ Len(u) = Len(p) + Len(q)
      /\ \A i \in 1..(Len(p) + Len(q)) : u[i] = IF i <= Len(p) THEN p[i] ELSE q[i - Len(p)]
    BY ConcatProperties
<1>. HIDE DEF u
<1>3. ASSUME NEW i \in 1..Len(p)
      PROVE  u[i] = p[i]
    <2>1. i \in 1..(Len(p) + Len(q)) /\ i <= Len(p)
        BY <1>1
    <2>. QED BY <1>2, <2>1
<1>4. ASSUME NEW i \in 1..Len(q)
      PROVE  u[Len(p) + i] = q[i]
    <2>. DEFINE j == Len(p) + i
    <2>1. j \in 1..(Len(p) + Len(q)) /\ ~(j <= Len(p)) /\ j - Len(p) = i
        BY <1>1
    <2>. HIDE DEF j
    <2>2. u[j] = q[j - Len(p)]
        BY <1>2, <2>1
    <2>3. u[j] = q[i]
        BY <2>1, <2>2
    <2>. QED BY <2>3 DEF j
<1>. QED BY <1>2, <1>3, <1>4 DEF u, IsJoined

\* What is added after a space is one word more.
LEMMA WordAdded ==
    ASSUME NEW t, NEW ws, WordsOf(t, ws), NEW w \in Words
    PROVE  WordsOf(t \o (<<"SP">> \o w), Append(ws, w))
<1>. DEFINE v == <<"SP">> \o w
            u == t \o v
            z == Len(u) + 1
<1>1. t \in Seq(Symbols) /\ Len(t) \in Nat \ {0} /\ DOMAIN t = 1..Len(t) /\ t[1] # "SP"
    BY LenProperties, EmptySeq DEF WordsOf
<1>2. /\ w \in Seq(Symbols) /\ Len(w) \in Nat \ {0} /\ \A i \in 1..Len(w) : w[i] # "SP"
    <2>1. w \in Seq(Symbols \ {"SP"}) /\ w \in Seq(Symbols) /\ w # <<>>
        BY SeqMonotonic DEF Words
    <2>. QED BY <2>1, LenProperties, EmptySeq, ElementOfSeq
<1>3. <<"SP">> \in Seq(Symbols) /\ Len(<<"SP">>) = 1 /\ <<"SP">>[1] = "SP"
    BY OneElement, SymbolsAssumption DEF SymbolsAssumption
<1>4. /\ v \in Seq(Symbols) /\ Len(v) = 1 + Len(w)
      /\ v[1] = "SP" /\ \A i \in 1..Len(w) : v[1 + i] = w[i]
    <2>. DEFINE s == <<"SP">>
    <2>1. s \in Seq(Symbols) /\ Len(s) = 1 /\ s[1] = "SP"
        BY <1>3
    <2>. HIDE DEF s
    <2>2. s \o w \in Seq(Symbols) /\ IsJoined(s \o w, s, w)
        BY <1>2, <2>1, Joined
    <2>3. 1 \in 1..Len(s)
        BY <2>1
    <2>4. v = s \o w
        BY DEF s
    <2>. HIDE DEF v
    <2>. QED BY <2>1, <2>2, <2>3, <2>4 DEF IsJoined
<1>. HIDE DEF v
<1>5. /\ u \in Seq(Symbols) /\ Len(u) = Len(t) + 1 + Len(w) /\ DOMAIN u = 1..Len(u)
      /\ \A i \in 1..Len(t) : u[i] = t[i]
      /\ \A i \in 1..Len(v) : u[Len(t) + i] = v[i]
    <2>1. u \in Seq(Symbols) /\ IsJoined(u, t, v)
        BY <1>1, <1>4, Joined
    <2>. HIDE DEF u
    <2>2. Len(t) + Len(v) = Len(t) + 1 + Len(w)
        BY <1>1, <1>2, <1>4
    <2>3. DOMAIN u = 1..Len(u)
        BY <2>1, LenProperties
    <2>. QED BY <2>1, <2>2, <2>3 DEF IsJoined
<1>6. u[Len(t) + 1] = "SP" /\ \A i \in (Len(t) + 2)..Len(u) : u[i] # "SP"
    <2>1. 1 \in 1..Len(v)
        BY <1>2, <1>4
    <2>2. ASSUME NEW i \in (Len(t) + 2)..Len(u)
          PROVE  u[i] # "SP"
        <3>. DEFINE j == i - Len(t) - 1
        <3>1. j \in 1..Len(w) /\ 1 + j \in 1..Len(v) /\ Len(t) + (1 + j) = i
            BY <1>1, <1>2, <1>4, <1>5
        <3>. HIDE DEF j
        <3>2. u[Len(t) + (1 + j)] = w[j]
            BY <1>4, <1>5, <3>1
        <3>. QED BY <1>2, <3>1, <3>2
    <2>. QED BY <1>4, <1>5, <2>1, <2>2
<1>. HIDE DEF u, z
<1>7. z \in Nat /\ z = Len(t) + 2 + Len(w) /\ \A e \in Ends(t) : e \in 1..(Len(t) + 1)
    BY <1>1, <1>2, <1>5 DEF z, Ends
<1>8. \A i : i \in Ends(u) <=> i \in Ends(t) \/ i = z
    <2>1. ASSUME NEW i \in 1..z
          PROVE  i \in Ends(u) <=> i \in Ends(t) \/ i = z
        <3>1. CASE i \in 1..Len(t)
            BY <1>1, <1>2, <1>5, <1>7, <3>1 DEF Ends, z
        <3>2. CASE i = Len(t) + 1
            BY <1>1, <1>2, <1>5, <1>6, <1>7, <3>2 DEF Ends, z
        <3>3. CASE i \in (Len(t) + 2)..Len(u)
            BY <1>1, <1>2, <1>5, <1>6, <1>7, <3>3 DEF Ends, z
        <3>4. CASE i = z
            BY <1>1, <1>2, <1>5, <1>7, <3>4 DEF Ends, z
        <3>. QED BY <1>1, <1>2, <1>5, <1>7, <3>1, <3>2, <3>3, <3>4
    <2>2. \A i : i \in Ends(u) \/ i \in Ends(t) \/ i = z => i \in 1..z
        BY <1>1, <1>2, <1>5, <1>7 DEF Ends, z
    <2>. QED BY <2>1, <2>2
<1>9. Ends(u) = Ends(t) \cup {z} /\ \A e \in Ends(t) : e < z
    BY <1>1, <1>2, <1>7, <1>8
<1>10. \A e \in Ends(t) : Start(u, e) = Start(t, e) /\ Start(t, e) < e
    <2>1. ASSUME NEW e \in Ends(t)
          PROVE  Start(u, e) = Start(t, e)
        <3>1. \A j : j \in {i \in Ends(u) : i < e} <=> j \in {i \in Ends(t) : i < e}
            <4>1. ~(z < e)
                BY <1>1, <1>2, <1>7
            <4>. QED BY <1>8, <4>1
        <3>2. {i \in Ends(u) : i < e} = {i \in Ends(t) : i < e}
            BY <3>1
        <3>. QED BY <3>2 DEF Start
    <2>. QED BY <2>1 DEF WordsOf
<1>11. Start(u, z) = Len(t) + 2
    <2>1. z \in 1..(Len(u) + 1) /\ Len(t) + 1 \in Ends(t)
        BY <1>1, <1>2, <1>5, <1>7 DEF Ends
    <2>2. /\ Start(u, z) \in 1..z
          /\ Start(u, z) > 1 => Start(u, z) - 1 \in Ends(u)
          /\ \A j \in Ends(u) : j < z => j < Start(u, z)
        BY <1>5, <2>1, StartIs
    <2>3. Len(t) + 1 < Start(u, z)
        BY <1>9, <2>1, <2>2
    <2>4. Start(u, z) - 1 \in Ends(u) /\ Start(u, z) - 1 # z
        BY <1>1, <1>7, <2>2, <2>3
    <2>5. Start(u, z) - 1 <= Len(t) + 1
        BY <1>7, <1>8, <2>4
    <2>. QED BY <1>1, <1>7, <2>2, <2>3, <2>5
<1>12. \A e \in Ends(u) : Start(u, e) < e
    BY <1>1, <1>2, <1>7, <1>8, <1>10, <1>11
<1>. DEFINE in == Sorted(Ends(t))
            out == Sorted(Ends(u))
<1>13. /\ Ended(t) = Ends(t) /\ WordsAre(t) /\ Ended(u) = Ends(u) /\ WordsAre(u)
    BY <1>1, <1>5, <1>12, AllEnded, WordsOfText DEF WordsOf
<1>14. /\ Ends(t) \subseteq Nat /\ IsFiniteSet(Ends(t))
       /\ in \in Seq(Ends(t)) /\ Len(in) \in Nat
       /\ Len(extractWords(t)) = Len(in)
       /\ \A k \in 1..Len(in) : extractWords(t)[k] = SubSeq(t, Start(t, in[k]), in[k] - 1)
    BY <1>13 DEF WordsAre
<1>15. /\ extractWords(u) \in Seq(Words) /\ Len(extractWords(u)) = Len(out)
       /\ \A k \in 1..Len(out) : extractWords(u)[k] = SubSeq(u, Start(u, out[k]), out[k] - 1)
    BY <1>13 DEF WordsAre
<1>16. out = Append(in, z)
    BY <1>7, <1>9, <1>14, SortedAppend
<1>. HIDE DEF in, out
<1>17. /\ Len(out) = Len(in) + 1 /\ out[Len(in) + 1] = z
       /\ \A k \in 1..Len(in) : out[k] = in[k] /\ in[k] \in Ends(t)
    <2>1. in \in Seq(Nat)
        BY <1>14, SeqMonotonic
    <2>. QED BY <1>7, <1>14, <1>16, <2>1, AppendProperties, ElementOfSeq
<1>18. ws = extractWords(t) /\ ws \in Seq(Words) /\ Len(ws) = Len(in)
    BY <1>14 DEF WordsOf
<1>. DEFINE r == Append(ws, w)
<1>19. /\ r \in Seq(Words) /\ Len(r) = Len(ws) + 1
       /\ \A k \in 1..Len(ws) : r[k] = ws[k]
       /\ r[Len(ws) + 1] = w
    BY <1>18, AppendProperties
<1>. HIDE DEF r
<1>20. ASSUME NEW k \in 1..Len(in)
       PROVE  extractWords(u)[k] = r[k]
    <2>. DEFINE e == in[k]
                m == Start(t, e)
                n == e - 1
    <2>1. e \in Ends(t) /\ e \in 1..(Len(t) + 1) /\ m < e
        BY <1>7, <1>10, <1>17
    <2>2. m \in 1..e
        BY <1>1, <2>1, StartIs
    <2>3. k \in 1..Len(out) /\ out[k] = e /\ Start(u, e) = m
        BY <1>10, <1>14, <1>17, <2>1
    <2>. HIDE DEF e, m
    <2>4. m \in 1..Len(t) /\ n \in 1..Len(t)
        BY <1>1, <2>1, <2>2
    <2>5. extractWords(u)[k] = SubSeq(u, m, n)
        BY <1>15, <2>3
    <2>6. ws[k] = SubSeq(t, m, n)
        BY <1>14, <1>18 DEF e, m
    <2>. HIDE DEF n
    <2>7. SubSeq(t \o v, m, n) = SubSeq(t, m, n)
        BY <1>1, <1>4, <2>4, SubSeqOfConcat1
    <2>. QED BY <1>18, <1>19, <2>5, <2>6, <2>7 DEF u
<1>21. extractWords(u)[Len(in) + 1] = w
    <2>1. Len(in) + 1 \in 1..Len(out)
        BY <1>14, <1>17
    <2>2. extractWords(u)[Len(in) + 1] = SubSeq(u, Len(t) + 2, z - 1)
        BY <1>11, <1>15, <1>17, <2>1
    <2>. DEFINE s == SubSeq(u, Len(t) + 2, z - 1)
    <2>3. s \in Seq(Symbols) /\ Len(s) = Len(w) /\ \A i \in 1..Len(w) : s[i] = u[Len(t) + (1 + i)]
        <3>. DEFINE m == Len(t) + 2
                    n == z - 1
        <3>1. m \in 1..(Len(u) + 1) /\ n \in (m - 1)..Len(u) /\ n - m + 1 = Len(w)
            BY <1>1, <1>2, <1>5, <1>7
        <3>2. \A i \in 1..Len(w) : m + i - 1 = Len(t) + (1 + i)
            BY <1>1, <1>2
        <3>. HIDE DEF m, n
        <3>3. /\ SubSeq(u, m, n) \in Seq(Symbols) /\ Len(SubSeq(u, m, n)) = n - m + 1
              /\ \A i \in 1..(n - m + 1) : SubSeq(u, m, n)[i] = u[m + i - 1]
            <4>1. u \in Seq(Symbols)
                BY <1>5
            <4>. QED BY <3>1, <4>1, Piece
        <3>. QED BY <3>1, <3>2, <3>3 DEF m, n
    <2>. HIDE DEF s
    <2>4. \A i \in 1..Len(w) : 1 + i \in 1..Len(v)
        BY <1>2, <1>4
    <2>5. \A i \in 1..Len(s) : s[i] = w[i]
        BY <1>4, <1>5, <2>3, <2>4
    <2>6. s = w
        BY <1>2, <2>3, <2>5, SeqEqual
    <2>. QED BY <2>2, <2>6 DEF s
<1>22. extractWords(u) = r
    <2>1. Len(extractWords(u)) = Len(r)
        BY <1>15, <1>17, <1>18, <1>19
    <2>2. ASSUME NEW k \in 1..Len(extractWords(u))
          PROVE  extractWords(u)[k] = r[k]
        <3>1. k \in 1..Len(in) \/ k = Len(in) + 1
            BY <1>14, <1>15, <1>17
        <3>. QED BY <1>18, <1>19, <1>20, <1>21, <3>1
    <2>. QED BY <1>15, <1>19, <2>1, <2>2, SeqEqual
<1>23. u # <<>> /\ u[1] # "SP" /\ u[Len(u)] # "SP"
    <2>1. 1 \in 1..Len(t) /\ Len(u) \in (Len(t) + 2)..Len(u) /\ Len(u) # 0
        BY <1>1, <1>2, <1>5
    <2>. QED BY <1>1, <1>5, <1>6, <2>1, EmptySeq
<1>. QED BY <1>5, <1>12, <1>19, <1>22, <1>23 DEF WordsOf, u, v, r

\* trim() has nothing to trim.
LEMMA TrimmedAlready ==
    ASSUME NEW t, NEW ws, WordsOf(t, ws)
    PROVE  trim(t) = t
<1>1. t \in Seq(Symbols) /\ t # <<>> /\ t[1] # "SP" /\ t[Len(t)] # "SP"
    BY DEF WordsOf
<1>2. PICK z \in 1..Len(t) : trim(t) = SubSeq(t, 1, z) /\ \A i \in (z + 1)..Len(t) : t[i] = "SP"
    BY <1>1, TrimIs
<1>3. Len(t) \in Nat
    BY <1>1, LenProperties
<1>4. z = Len(t)
    <2>1. z < Len(t) => Len(t) \in (z + 1)..Len(t)
        BY <1>3
    <2>. QED BY <1>1, <1>2, <1>3, <2>1
<1>. QED BY <1>1, <1>2, <1>4, SubSeqFull

\* The arguments as Command() writes them.
Written(arguments) == [k \in DOMAIN arguments |-> <<"SP">> \o arguments[k]]

\* After words come the arguments.
LEMMA ArgumentsAdded ==
    ASSUME NEW t, NEW ws, WordsOf(t, ws), NEW n \in Nat, NEW arguments \in [1..n -> Words]
    PROVE  /\ WordsOf(t \o FlattenSeq(Written(arguments)), ws \o arguments)
           /\ FlattenSeq(Written(arguments)) \in Seq(Symbols)
<1>. DEFINE q == Written(arguments)
<1>1. <<"SP">> \in Seq(Symbols)
    BY OneElement, SymbolsAssumption DEF SymbolsAssumption
<1>2. \A w \in Words : w \in Seq(Symbols)
    BY SeqMonotonic DEF Words
<1>3. /\ arguments \in Seq(Words) /\ Len(arguments) = n /\ DOMAIN arguments = 1..n
    BY FunctionIsSeq
<1>4. /\ q \in Seq(Seq(Symbols)) /\ Len(q) = n
      /\ \A i \in 1..n : q[i] = <<"SP">> \o arguments[i] /\ q[i] \in Seq(Symbols)
    <2>1. \A i \in 1..n : arguments[i] \in Words
        OBVIOUS
    <2>2. \A i \in 1..n : <<"SP">> \o arguments[i] \in Seq(Symbols)
        <3>1. ASSUME NEW i \in 1..n
              PROVE  <<"SP">> \o arguments[i] \in Seq(Symbols)
            <4>1. arguments[i] \in Seq(Symbols)
                BY <1>2, <2>1
            <4>. QED BY <1>1, <4>1, ConcatProperties
        <3>. QED BY <3>1
    <2>3. q \in [1..n -> Seq(Symbols)] /\ \A i \in 1..n : q[i] = <<"SP">> \o arguments[i]
        BY <1>3, <2>2 DEF Written
    <2>. HIDE DEF q
    <2>4. q \in Seq(Seq(Symbols)) /\ Len(q) = n
        BY <2>3, FunctionIsSeq
    <2>. QED BY <2>3, <2>4
<1>. HIDE DEF q
<1>5. PICK f \in [0..Len(q) -> Seq(Symbols)] :
         /\ f[0] = <<>> /\ \A i \in 1..Len(q) : f[i] = f[i - 1] \o q[i]
         /\ FlattenSeq(q) = f[Len(q)]
    BY <1>4, FlattenSeqJoins
<1>6. t \in Seq(Symbols) /\ ws \in Seq(Words)
    BY DEF WordsOf
<1>. DEFINE N == {i \in Nat : i <= n => WordsOf(t \o f[i], ws \o SubSeq(arguments, 1, i))}
<1>7. 0 \in N
    <2>1. t \o f[0] = t
        BY <1>5, <1>6, ConcatEmptySeq
    <2>2. SubSeq(arguments, 1, 0) = <<>>
        BY SubSeqEmpty
    <2>3. ws \o SubSeq(arguments, 1, 0) = ws
        BY <1>6, <2>2, ConcatEmptySeq
    <2>. QED BY <2>1, <2>3
<1>8. ASSUME NEW i \in Nat, i \in N
      PROVE  i + 1 \in N
    <2>. SUFFICES ASSUME i + 1 <= n
                  PROVE  WordsOf(t \o f[i + 1], ws \o SubSeq(arguments, 1, i + 1))
        OBVIOUS
    <2>. DEFINE j == i + 1
                w == arguments[j]
                a == SubSeq(arguments, 1, i)
    <2>1. j \in 1..n /\ j - 1 = i /\ i \in 0..n
        BY <1>8
    <2>2. w \in Words /\ WordsOf(t \o f[i], ws \o a)
        BY <1>8, <2>1
    <2>3. f[j] = f[i] \o (<<"SP">> \o w) /\ f[i] \in Seq(Symbols)
        BY <1>4, <1>5, <2>1
    <2>4. <<"SP">> \o w \in Seq(Symbols)
        BY <1>4, <2>1
    <2>5. WordsOf((t \o f[i]) \o (<<"SP">> \o w), Append(ws \o a, w))
        BY <2>2, WordAdded
    <2>6. (t \o f[i]) \o (<<"SP">> \o w) = t \o (f[i] \o (<<"SP">> \o w))
        <3>. DEFINE g == f[i]
                    v == <<"SP">> \o w
        <3>1. t \in Seq(Symbols) /\ g \in Seq(Symbols) /\ v \in Seq(Symbols)
            BY <1>6, <2>3, <2>4
        <3>. HIDE DEF g, v
        <3>2. Associates(t, g, v)
            BY <3>1, Associative
        <3>. QED BY <3>2 DEF g, v, Associates
    <2>7. a \in Seq(Words)
        <3>1. 1 \in 1..(Len(arguments) + 1) /\ i \in (1 - 1)..Len(arguments)
            BY <1>3, <2>1
        <3>. QED BY <1>3, <3>1, Piece
    <2>8. Append(ws \o a, w) = (ws \o a) \o <<w>>
        <3>1. ws \o a \in Seq(Words)
            BY <1>6, <2>7, ConcatProperties
        <3>. QED BY <2>2, <3>1, AppendIsConcat
    <2>9. (ws \o a) \o <<w>> = ws \o (a \o <<w>>)
        <3>1. <<w>> \in Seq(Words)
            BY <2>2, OneElement
        <3>. DEFINE v == <<w>>
        <3>2. v \in Seq(Words)
            BY <3>1
        <3>. HIDE DEF a, v
        <3>3. Associates(ws, a, v)
            BY <1>6, <2>7, <3>2, Associative
        <3>. QED BY <3>3 DEF v, Associates
    <2>10. SubSeq(arguments, 1, j) = a \o <<w>>
        <3>1. 1 \in 1..Len(arguments) /\ j \in 1..Len(arguments) /\ j - 1 = i
            BY <1>3, <2>1
        <3>2. SubSeq(arguments, 1, j) = SubSeq(arguments, 1, j - 1) \o <<arguments[j]>>
            BY <1>3, <3>1, SubSeqRecursiveSecond
        <3>. QED BY <3>1, <3>2
    <2>. HIDE DEF a, w
    <2>. QED BY <2>3, <2>5, <2>6, <2>8, <2>9, <2>10
<1>9. \A i \in Nat : i \in N
    <2>. HIDE DEF N
    <2>. QED BY <1>7, <1>8, Induction
<1>10. WordsOf(t \o f[n], ws \o SubSeq(arguments, 1, n))
    BY <1>9
<1>11. SubSeq(arguments, 1, n) = arguments
    BY <1>3, SubSeqFull
<1>12. FlattenSeq(q) = f[n] /\ f[n] \in Seq(Symbols)
    BY <1>4, <1>5
<1>. QED BY <1>10, <1>11, <1>12 DEF q

\* No word decides.
Undecided(words, nick) ==
    \A k \in 1..Len(words) : ~IsCommand(words[k]) /\ ~(Last(words[k]) = ":" /\ words[k] # Append(nick, ":"))

ReadAs(nick, text, c, arguments) ==
    parse(nick, text) = [is |-> "parsed", command |-> <<c>>, arguments |-> arguments]

\* A command as it is read after words that do not decide.
LEMMA CommandDecides ==
    ASSUME NEW ws \in Seq(Words), NEW nick, NEW c \in Symbols \ {":", "SP"}, Undecided(ws, nick),
           NEW w, w = <<"!", c>>, NEW arguments \in Seq(Words),
           NEW text, WordsOf(text, Append(ws, w) \o arguments)
    PROVE  ReadAs(nick, text, c, arguments)
<1>. DEFINE words == Append(ws, w) \o arguments
            n == Len(ws) + 1
            at == Deciding(words, nick)
<1>1. Len(ws) \in Nat /\ Len(arguments) \in Nat
    BY LenProperties
<1>2. w \in Words /\ IsCommand(w) /\ Last(w) # ":" /\ Tail(w) = <<c>>
    BY SymbolsAssumption DEF Words, IsCommand, Last, SymbolsAssumption
<1>3. /\ Append(ws, w) \in Seq(Words) /\ Len(Append(ws, w)) = n
      /\ \A k \in 1..Len(ws) : Append(ws, w)[k] = ws[k]
      /\ Append(ws, w)[n] = w
    BY <1>2, AppendProperties
<1>4. words \in Seq(Words) /\ IsJoined(words, Append(ws, w), arguments)
    BY <1>3, Joined
<1>. HIDE DEF words
<1>5. /\ Len(words) = n + Len(arguments) /\ n \in 1..Len(words)
      /\ \A k \in 1..Len(ws) : words[k] = ws[k]
      /\ words[n] = w
      /\ \A i \in 1..Len(arguments) : words[n + i] = arguments[i]
    <2>1. \A k \in 1..Len(ws) : k \in 1..n
        BY <1>1
    <2>2. n \in 1..n
        BY <1>1
    <2>3. Len(words) = n + Len(arguments) /\ n \in Nat
        BY <1>1, <1>3, <1>4 DEF IsJoined
    <2>. HIDE DEF n
    <2>4. n \in 1..Len(words)
        BY <1>1, <2>2, <2>3
    <2>. QED BY <1>3, <1>4, <2>1, <2>2, <2>3, <2>4 DEF IsJoined
<1>6. /\ at \in 0..Len(words)
      /\ at # 0 => Decides(words, at, nick)
      /\ \A k \in 1..Len(words) : Decides(words, k, nick) => at # 0 /\ at <= k
    BY <1>4, DecidingIs
<1>. HIDE DEF at
<1>7. at = n
    <2>1. \A k \in 1..Len(ws) : ~Decides(words, k, nick)
        BY <1>5 DEF Decides, IsForeign, Undecided
    <2>2. Decides(words, n, nick)
        BY <1>2, <1>5 DEF Decides
    <2>3. at # 0 /\ at <= n
        BY <1>5, <1>6, <2>2
    <2>4. at \notin 1..Len(ws)
        BY <1>6, <2>1, <2>3
    <2>. QED BY <1>1, <1>6, <2>3, <2>4
<1>8. ~IsForeign(words, at, nick) /\ Tail(words[at]) = <<c>>
    BY <1>2, <1>5, <1>7 DEF IsForeign
<1>9. SubSeq(words, at + 1, Len(words)) = arguments
    <2>. DEFINE m == at + 1
                l == Len(words)
                s == SubSeq(words, m, l)
    <2>1. m \in 1..(Len(words) + 1) /\ l \in (m - 1)..Len(words) /\ l - m + 1 = Len(arguments)
        BY <1>1, <1>5, <1>7
    <2>2. \A i \in 1..Len(arguments) : m + i - 1 = n + i
        BY <1>1, <1>7
    <2>. HIDE DEF m, l, n
    <2>3. /\ s \in Seq(Words) /\ Len(s) = l - m + 1
          /\ \A i \in 1..(l - m + 1) : s[i] = words[m + i - 1]
        BY <1>4, <2>1, Piece
    <2>. HIDE DEF s
    <2>4. Len(s) = Len(arguments) /\ \A i \in 1..Len(s) : s[i] = arguments[i]
        <3>1. ASSUME NEW i \in 1..Len(arguments)
              PROVE  s[i] = arguments[i]
            <4>1. s[i] = words[m + i - 1] /\ m + i - 1 = n + i
                BY <2>1, <2>2, <2>3
            <4>. QED BY <1>5, <4>1
        <3>. QED BY <2>1, <2>3, <3>1
    <2>5. s = arguments
        BY <2>3, <2>4, SeqEqual
    <2>. QED BY <2>5 DEF s, m, l
<1>10. extractWords(trim(text)) = words
    BY TrimmedAlready DEF WordsOf, words
<1>11. parse(nick, text) =
                   IF at = 0 THEN [is |-> "parsed", command |-> <<>>, arguments |-> <<>>]
                   ELSE IF IsForeign(words, at, nick) THEN [is |-> "runtime_error"]
                   ELSE [is |-> "parsed", command |-> Tail(words[at]), arguments |-> SubSeq(words, at + 1, Len(words))]
    BY <1>10, ParseIs DEF at
<1>12. at # 0
    BY <1>1, <1>7
<1>. QED BY <1>8, <1>9, <1>11, <1>12 DEF ReadAs

\* What a text begins with is a prefix of it.
LEMMA BeginningIsPrefix ==
    ASSUME NEW S, NEW p \in Seq(S), NEW q \in Seq(S), p # <<>>
    PROVE  IsPrefix(p, p \o q)
<1>1. p \o q \in Seq(S) /\ IsJoined(p \o q, p, q)
    BY Joined
<1>2. Len(p) \in Nat \ {0} /\ Len(q) \in Nat
    BY LenProperties, EmptySeq
<1>3. Len(p) <= Len(p \o q)
    BY <1>1, <1>2 DEF IsJoined
<1>4. SubSeq(p \o q, 1, Len(p)) = SubSeq(p, 1, Len(p))
    <2>1. 1 \in 1..Len(p) /\ Len(p) \in 1..Len(p)
        BY <1>2
    <2>. QED BY <2>1, SubSeqOfConcat1
<1>. QED BY <1>3, <1>4 DEF IsPrefix

\* The bot's nickname as one addresses it is a word, and not a command.
LEMMA AddressIs ==
    ASSUME AdminCommandsAssumption, NEW nick \in Nicknames
    PROVE  /\ Address(nick) \in Words /\ Address(nick) = Append(nick, ":")
           /\ ~IsCommand(Address(nick))
<1>. DEFINE a == Append(nick, ":")
<1>1. nick \in Seq(Symbols \ {"SP"}) /\ nick # <<>> /\ nick[1] \notin {"!", "#"}
    BY DEF AdminCommandsAssumption, Words
<1>2. ":" \in Symbols \ {"SP"}
    BY SymbolsAssumption DEF SymbolsAssumption
<1>3. a = Address(nick)
    BY <1>1, <1>2, AppendIsConcat DEF Address
<1>4. /\ a \in Seq(Symbols \ {"SP"}) /\ a # <<>>
      /\ \A i \in 1..Len(nick) : a[i] = nick[i]
    BY <1>1, <1>2, AppendProperties
<1>5. 1 \in 1..Len(nick)
    BY <1>1, EmptySeq
<1>. HIDE DEF a
<1>6. Head(a) = a[1]
    BY <1>4
<1>7. Head(a) # "!"
    BY <1>1, <1>4, <1>5, <1>6
<1>. QED BY <1>3, <1>4, <1>7 DEF Words, IsCommand, a

\* Four texts, joined in three orders.
Regrouped(p, q, r, s) ==
    (p \o q) \o (r \o s) = (p \o (q \o r)) \o s /\ (p \o q) \o (r \o s) = p \o (q \o (r \o s))

LEMMA Associative4 ==
    ASSUME NEW S, NEW p \in Seq(S), NEW q \in Seq(S), NEW r \in Seq(S), NEW s \in Seq(S)
    PROVE  Regrouped(p, q, r, s)
<1>1. p \o q \in Seq(S) /\ r \o s \in Seq(S) /\ q \o r \in Seq(S)
    BY ConcatProperties
<1>2. Associates(p \o q, r, s)
    BY <1>1, Associative
<1>3. Associates(p, q, r)
    BY Associative
<1>4. Associates(p, q, r \o s)
    BY <1>1, Associative
<1>5. (p \o q) \o (r \o s) = (p \o (q \o r)) \o s
    BY <1>2, <1>3 DEF Associates
<1>. QED BY <1>4, <1>5 DEF Regrouped, Associates

\* What Command() writes, alone or after the bot's nickname, is read as that command.
LEMMA CommandIsRead ==
    ASSUME AdminCommandsAssumption, NEW nick \in Nicknames, NEW c \in Symbols \ {":", "SP"},
           NEW n \in Nat, NEW arguments \in [1..n -> Words],
           NEW address \in {<<>>, Address(nick) \o <<"SP">>}, NEW text,
           text = address \o Command(c, arguments)
    PROVE  /\ ReadAs(nick, text, c, arguments)
           /\ IsPrefix(Append(nick, ":"), text) \/ IsPrefix(<<"!">>, text)
<1>. DEFINE w == <<"!", c>>
            F == FlattenSeq(Written(arguments))
            a == Address(nick)
<1>1. w \in Words /\ w \in Seq(Symbols) /\ "!" \in Symbols /\ "SP" \in Symbols
    BY SymbolsAssumption DEF Words, SymbolsAssumption
<1>2. Command(c, arguments) = w \o F
    BY DEF Command, Written
<1>3. arguments \in Seq(Words)
    BY FunctionIsSeq
<1>4. WordsOf(w, <<w>>) /\ F \in Seq(Symbols)
    BY <1>1, WordAlone, ArgumentsAdded
<1>5. CASE address = <<>>
    <2>1. text = w \o F
        <3>. HIDE DEF w, F
        <3>1. w \o F \in Seq(Symbols)
            BY <1>1, <1>4, ConcatProperties
        <3>. QED BY <1>2, <1>5, <3>1, ConcatEmptySeq
    <2>2. WordsOf(text, <<w>> \o arguments)
        BY <1>4, <2>1, ArgumentsAdded
    <2>3. <<w>> = Append(<<>>, w) /\ <<>> \in Seq(Words) /\ Len(<<>>) = 0
        BY <1>1, EmptySeq
    <2>4. ReadAs(nick, text, c, arguments)
        <3>. DEFINE ws == <<>>
        <3>1. ws \in Seq(Words) /\ WordsOf(text, Append(ws, w) \o arguments) /\ w = <<"!", c>>
            BY <2>2, <2>3
        <3>2. Undecided(ws, nick)
            BY <2>3 DEF Undecided
        <3>. HIDE DEF ws, w
        <3>. QED BY <1>3, <3>1, <3>2, CommandDecides
    <2>5. IsPrefix(<<"!">>, text)
        <3>. DEFINE p == <<"!">>
                    q == <<c>>
        <3>1. p \in Seq(Symbols) /\ q \in Seq(Symbols) /\ p # <<>> /\ w = p \o q
            BY <1>1
        <3>. HIDE DEF w, F, p, q
        <3>5. Associates(p, q, F)
            BY <1>4, <3>1, Associative
        <3>2. text = p \o (q \o F)
            BY <2>1, <3>1, <3>5 DEF Associates
        <3>3. q \o F \in Seq(Symbols)
            BY <1>4, <3>1, ConcatProperties
        <3>4. IsPrefix(p, p \o (q \o F))
            BY <3>1, <3>3, BeginningIsPrefix
        <3>. QED BY <3>2, <3>4 DEF p
    <2>. QED BY <2>4, <2>5
<1>6. CASE address = Address(nick) \o <<"SP">>
    <2>1. a \in Words /\ a \in Seq(Symbols) /\ a = Append(nick, ":") /\ ~IsCommand(a) /\ a # <<>>
        BY AddressIs, SeqMonotonic DEF Words
    <2>. DEFINE s == <<"SP">>
    <2>2. s \in Seq(Symbols)
        BY <1>1
    <2>. HIDE DEF a
    <2>3. WordsOf(a, <<a>>)
        BY <2>1, WordAlone
    <2>4. WordsOf(a \o (s \o w), Append(<<a>>, w))
        BY <1>1, <2>3, WordAdded
    <2>5. WordsOf((a \o (s \o w)) \o F, Append(<<a>>, w) \o arguments)
        BY <2>4, ArgumentsAdded
    <2>6. text = (a \o s) \o (w \o F)
        BY <1>2, <1>6 DEF a
    <2>7. text = (a \o (s \o w)) \o F /\ text = a \o (s \o (w \o F))
        <3>. HIDE DEF s, w, F
        <3>1. a \in Seq(Symbols) /\ s \in Seq(Symbols) /\ w \in Seq(Symbols) /\ F \in Seq(Symbols)
            BY <1>1, <1>4, <2>1, <2>2
        <3>2. Regrouped(a, s, w, F)
            BY <3>1, Associative4
        <3>. QED BY <2>6, <3>2 DEF Regrouped
    <2>8. ReadAs(nick, text, c, arguments)
        <3>. DEFINE ws == <<a>>
        <3>1. ws \in Seq(Words) /\ Len(ws) = 1 /\ ws[1] = a
            BY <2>1, OneElement
        <3>2. WordsOf(text, Append(ws, w) \o arguments) /\ w = <<"!", c>>
            BY <2>5, <2>7
        <3>. HIDE DEF ws, w
        <3>3. Undecided(ws, nick)
            <4>1. \A k \in 1..Len(ws) : ws[k] = a
                BY <3>1
            <4>. QED BY <2>1, <4>1 DEF Undecided
        <3>. QED BY <1>3, <3>1, <3>2, <3>3, CommandDecides
    <2>9. IsPrefix(a, text)
        <3>. HIDE DEF s, w, F
        <3>1. s \o (w \o F) \in Seq(Symbols)
            <4>1. w \o F \in Seq(Symbols)
                BY <1>1, <1>4, ConcatProperties
            <4>. QED BY <2>2, <4>1, ConcatProperties
        <3>. QED BY <2>1, <2>7, <3>1, BeginningIsPrefix
    <2>. QED BY <2>1, <2>8, <2>9
<1>. QED BY <1>5, <1>6

\* A nickname is not the name of a channel, Channel is.
LEMMA ReceiverIs ==
    ASSUME AdminCommandsAssumption, NEW receiver \in Nicknames \cup {Channel}
    PROVE  IsChannel(receiver) <=> receiver = Channel
<1>1. receiver \in Nicknames => receiver \in Seq(Symbols \ {"SP"}) /\ receiver # <<>> /\ receiver[1] # "#"
    BY DEF AdminCommandsAssumption, Words
<1>2. Channel \in Seq(Symbols \ {"SP"}) /\ Channel # <<>> /\ Channel[1] = "#" /\ Len(Channel) > 1
    BY SymbolsAssumption DEF SymbolsAssumption, Words
<1>3. \A s \in Seq(Symbols \ {"SP"}) : s # <<>> => Head(s) = s[1]
    OBVIOUS
<1>. QED BY <1>1, <1>2, <1>3 DEF IsChannel

\* What a command with n arguments is to do.
DoneAs(m, c, n, arguments) ==
    \E r \in result :
       /\ r.join = IF c = "join" THEN arguments ELSE <<>>
       /\ r.part = IF c = "join" THEN <<>>
                   ELSE IF n > 0 THEN arguments
                   ELSE IF m.receiver = Channel THEN <<Channel>> ELSE <<>>

\* What the admin says to do is done: to the channels that are named, all of them and
\* no other, or to the one it is said in; however the nicknames have changed.
THEOREM NamedChannels == Spec => []NamedIsDone
<1>1. ASSUME AnswerInv
      PROVE  NamedIsDone
    <2>1. ASSUME NEW m \in message, m.type = "PRIVMSG", m.nick = AdminNickname, NEW n \in 0..MaxArguments,
                 NEW arguments \in [1..n -> {Channel, <<"#">>}],
                 NEW address \in {<<>>, Address(m.to) \o <<"SP">>}, NEW c \in {"leave", "join"},
                 m.text = address \o Command(c, arguments)
          PROVE  DoneAs(m, c, n, arguments)
        <3>1. /\ m \in Message /\ nickname = m.to
              /\ result = IF checkForCommand(m.text) THEN parseCommandMessage(m) ELSE {}
            BY <1>1, <2>1 DEF AnswerInv
        <3>2. m.to \in Nicknames /\ m.receiver \in Nicknames \cup {Channel}
            BY <2>1, <3>1, MessageIs
        <3>3. arguments \in [1..n -> Words] /\ n \in Nat
            <4>1. <<"#">> \in Words /\ Channel \in Words
                BY SymbolsAssumption DEF SymbolsAssumption, Words
            <4>. QED BY <4>1, AdminCommandsAssumption DEF AdminCommandsAssumption
        <3>4. c \in Symbols \ {":", "SP"}
            BY SymbolsAssumption DEF SymbolsAssumption
        <3>. DEFINE text == m.text
        <3>5. text = address \o Command(c, arguments)
            BY <2>1
        <3>. HIDE DEF text
        <3>. DEFINE nick == m.to
        <3>13. nick \in Nicknames /\ address \in {<<>>, Address(nick) \o <<"SP">>}
            BY <3>2
        <3>. HIDE DEF nick
        <3>6. /\ ReadAs(nick, text, c, arguments)
              /\ IsPrefix(Append(nick, ":"), text) \/ IsPrefix(<<"!">>, text)
            BY <3>13, <3>3, <3>4, <3>5, CommandIsRead, AdminCommandsAssumption
        <3>7. checkForCommand(m.text)
            BY <3>1, <3>6 DEF checkForCommand, text, nick
        <3>. DEFINE parser == parse(nickname, m.text)
        <3>8. parser.is = "parsed" /\ parser.command = <<c>> /\ parser.arguments = arguments
            BY <3>1, <3>6 DEF ReadAs, text, nick
        <3>9. PICK r \in result :
                 /\ r.join = IF parser.command = <<"join">> THEN parser.arguments ELSE <<>>
                 /\ r.part = IF parser.command = <<"leave">> THEN Leave(m, parser.arguments) ELSE <<>>
            BY <2>1, <3>1, <3>7, <3>8 DEF parseCommandMessage
        <3>. HIDE DEF parser
        <3>10. <<c>> = <<"join">> <=> c = "join"
            OBVIOUS
        <3>11. <<c>> = <<"leave">> <=> c = "leave"
            OBVIOUS
        <3>12. Leave(m, arguments) = IF n > 0 THEN arguments
                                     ELSE IF m.receiver = Channel THEN <<Channel>> ELSE <<>>
            <4>1. arguments \in Seq(Words) /\ Len(arguments) = n
                BY <3>3, FunctionIsSeq
            <4>2. arguments # <<>> <=> n > 0
                BY <3>3, <4>1, EmptySeq
            <4>3. IsChannel(m.receiver) <=> m.receiver = Channel
                BY <3>2, ReceiverIs, AdminCommandsAssumption
            <4>. QED BY <4>2, <4>3 DEF Leave
        <3>. QED BY <3>8, <3>9, <3>10, <3>11, <3>12 DEF DoneAs
    <2>2. ASSUME NEW m \in message, m.type = "PRIVMSG", m.nick = AdminNickname, NEW n \in 0..MaxArguments,
                 NEW arguments \in [1..n -> {Channel, <<"#">>}],
                 NEW address \in {<<>>, Address(m.to) \o <<"SP">>}
          PROVE  /\ m.text = address \o Command("leave", arguments) =>
                       \E r \in result : r.part = IF n > 0 THEN arguments
                                                  ELSE IF m.receiver = Channel THEN <<Channel>> ELSE <<>>
                 /\ m.text = address \o Command("join", arguments) =>
                       \E r \in result : r.join = arguments /\ r.part = <<>>
        <3>1. ASSUME m.text = address \o Command("leave", arguments)
              PROVE  \E r \in result : r.part = IF n > 0 THEN arguments
                                                ELSE IF m.receiver = Channel THEN <<Channel>> ELSE <<>>
            <4>1. DoneAs(m, "leave", n, arguments)
                BY <2>1, <2>2, <3>1
            <4>. QED BY <4>1 DEF DoneAs
        <3>2. ASSUME m.text = address \o Command("join", arguments)
              PROVE  \E r \in result : r.join = arguments /\ r.part = <<>>
            <4>1. DoneAs(m, "join", n, arguments)
                BY <2>1, <2>2, <3>2
            <4>. QED BY <4>1 DEF DoneAs
        <3>. QED BY <3>1, <3>2
    <2>. QED BY <2>2 DEF NamedIsDone
<1>. QED BY <1>1, AnswerInvariance, PTL
=============================================================================
