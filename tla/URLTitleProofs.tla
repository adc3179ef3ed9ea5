--------------------------- MODULE URLTitleProofs ---------------------------
(***************************************************************************)
(* What TLAPS proves about URLTitle: the download buffer holds what the    *)
(* page begins with and nothing else, for any limit, any page and any      *)
(* division of it into pieces; what is fetched is the first word of the    *)
(* message that looks like a URL; and what is said are the words of the    *)
(* page's title, with one space between two of them.                       *)
(***************************************************************************)
EXTENDS URLTitle, SequenceLemmas

DownloadTypes ==
    /\ page \in Seq(Symbols) /\ received \in 0..Len(page)
    /\ transfer \in {"running", "done", "write_error", "failed"}

NoDownload == page = <<>> /\ received = 0 /\ buffer = <<>> /\ transfer = "running"

\* As long as libcurl hands over, everything it has handed over is in the buffer: what
\* is cut off ends the transfer.
DownloadInv ==
    /\ DownloadTypes
    /\ pc = "idle" => NoDownload
    /\ pc = "perform" => transfer = "running" /\ received <= Limit
    /\ DownloadIsCut

\* Min() of two numbers.
LEMMA MinOfTwo ==
    ASSUME NEW a \in Nat, NEW b \in Nat
    PROVE  Min({a, b}) = IF a <= b THEN a ELSE b
<1>1. \A x \in {a, b} : (\A y \in {a, b} : x <= y) => x = IF a <= b THEN a ELSE b
    OBVIOUS
<1>2. \E x \in {a, b} : \A y \in {a, b} : x <= y
    OBVIOUS
<1>3. Min({a, b}) \in {a, b} /\ \A y \in {a, b} : Min({a, b}) <= y
    BY <1>2 DEF Min
<1>. QED BY <1>1, <1>3

\* The beginning of a sequence and what follows it, up to n.
LEMMA Beginnings ==
    ASSUME NEW S, NEW s \in Seq(S), NEW k \in 0..Len(s), NEW n \in k..Len(s)
    PROVE  /\ SubSeq(s, 1, k) \o SubSeq(s, k + 1, n) = SubSeq(s, 1, n)
           /\ Len(SubSeq(s, 1, n)) = n
<1>0. Len(s) \in Nat
    OBVIOUS
<1>1. 1 \in 1..(Len(s) + 1) /\ k \in (1 - 1)..Len(s) /\ n \in k..Len(s) /\ n \in Nat
    BY <1>0
<1>2. SubSeq(s, 1, k) \o SubSeq(s, k + 1, n) = SubSeq(s, 1, n)
    BY <1>1, ConcatAdjacentSubSeq
<1>3. \A i \in 1..n : s[i] \in S
    BY <1>0, <1>1
<1>4. Len(SubSeq(s, 1, n)) = IF 1 <= n THEN n - 1 + 1 ELSE 0
    BY <1>1, <1>3, SubSeqProperties
<1>. QED BY <1>1, <1>2, <1>4

\* Nothing has been received yet.
LEMMA EmptyDownload ==
    ASSUME URLTitleAssumption, NEW p \in Seq(Symbols)
    PROVE  SubSeq(p, 1, Min({0, Limit})) = <<>>
<1>1. Min({0, Limit}) = 0
    BY MinOfTwo DEF URLTitleAssumption
<1>. QED BY <1>1, SubSeqEmpty

\* Nothing at all is downloaded as it should be.
LEMMA EmptyIsFine ==
    ASSUME NoDownload, pc = "idle", page \in Seq(Symbols), Len(page) = 0,
           buffer = SubSeq(page, 1, Min({received, Limit}))
    PROVE  DownloadInv
<1>1. received \in 0..Len(page) /\ transfer = "running"
    BY DEF NoDownload
<1>2. DownloadTypes
    BY <1>1 DEF DownloadTypes
<1>3. DownloadIsCut
    BY <1>1 DEF DownloadIsCut
<1>. QED BY <1>2, <1>3 DEF DownloadInv

\* Before the first download.
LEMMA InitDownload ==
    ASSUME URLTitleAssumption, Init
    PROVE  DownloadInv
<1>1. page \in Seq(Symbols) /\ Len(page) = 0
    BY EmptySeq DEF Init
<1>2. buffer = SubSeq(page, 1, Min({received, Limit}))
    BY <1>1, EmptyDownload DEF Init
<1>3. NoDownload /\ pc = "idle"
    BY DEF Init, NoDownload
<1>. QED BY <1>1, <1>2, <1>3, EmptyIsFine

\* A new URLDownloader is empty.
LEMMA OnPacketDownload ==
    ASSUME URLTitleAssumption, DownloadInv, OnPacket
    PROVE  DownloadInv'
<1>1. NoDownload /\ UNCHANGED <<received, buffer, transfer>> /\ pc' \in {"perform", "result"}
    BY DEF OnPacket, NewDownloader, Finish, DownloadInv
<1>2. page' \in Seq(Symbols)
    BY DEF OnPacket, NewDownloader, DownloadInv, DownloadTypes, URLTitleAssumption
<1>3. Len(page') \in Nat /\ Limit \in Nat /\ buffer' = SubSeq(page', 1, Min({received', Limit}))
    <2>1. buffer' = <<>> /\ received' = 0
        BY <1>1 DEF NoDownload
    <2>2. SubSeq(page', 1, Min({0, Limit})) = <<>>
        BY <1>2, EmptyDownload
    <2>3. buffer' = SubSeq(page', 1, Min({received', Limit}))
        BY <2>1, <2>2
    <2>4. Len(page') \in Nat /\ Limit \in Nat
        BY <1>2 DEF URLTitleAssumption
    <2>. QED BY <2>3, <2>4
<1>4. /\ transfer' = "running" /\ received' = 0
      /\ received' \in 0..Len(page') /\ received' <= Limit /\ pc' # "idle"
    BY <1>1, <1>3 DEF NoDownload
<1>. QED BY <1>2, <1>3, <1>4 DEF DownloadInv, DownloadTypes, DownloadIsCut

\* What does not fit is cut off exactly where the buffer is full.
LEMMA WriteDataDownload ==
    ASSUME URLTitleAssumption, DownloadInv, WriteData
    PROVE  DownloadInv'
<1>1. /\ page \in Seq(Symbols) /\ Len(page) \in Nat /\ Limit \in Nat
      /\ received \in 0..Len(page) /\ received <= Limit /\ transfer = "running"
      /\ buffer = SubSeq(page, 1, Min({received, Limit}))
    BY DEF WriteData, DownloadInv, DownloadTypes, DownloadIsCut, URLTitleAssumption
<1>2. buffer = SubSeq(page, 1, received)
    <2>1. Min({received, Limit}) = received
        <3>1. received \in Nat /\ Limit \in Nat /\ received <= Limit
            BY <1>1
        <3>. QED BY <3>1, MinOfTwo
    <2>. QED BY <1>1, <2>1
<1>b. Len(buffer) = received
    <2>1. received \in 0..received /\ received \in received..Len(page) /\ received \in 0..Len(page)
        BY <1>1
    <2>2. Len(SubSeq(page, 1, received)) = received
        BY <1>1, <2>1, Beginnings
    <2>. QED BY <1>2, <2>2
<1>3. PICK n \in 1..(Len(page) - received) :
         LET writeSize == WriteSize(Len(buffer), n) IN
         /\ received' = received + n
         /\ buffer' = buffer \o SubSeq(page, received + 1, received + writeSize)
         /\ IF writeSize < n THEN pc' = "tidy" /\ transfer' = "write_error"
                             ELSE UNCHANGED <<pc, transfer>>
    BY DEF WriteData
<1>4. pc = "perform" /\ page' = page
    BY DEF WriteData
<1>5. received' = received + n /\ received' \in 0..Len(page)
    BY <1>1, <1>3
<1>6. CASE received + n > Limit
    <2>1. WriteSize(Len(buffer), n) = Limit - received /\ Limit - received < n
        <3>1. received \in Nat /\ n \in Nat /\ Limit \in Nat
            BY <1>1
        <3>2. WriteSize(received, n) = Limit - received /\ Limit - received < n
            BY <1>6, <3>1 DEF WriteSize
        <3>. QED BY <1>b, <3>2
    <2>2. buffer' = buffer \o SubSeq(page, received + 1, Limit)
        <3>1. received + (Limit - received) = Limit
            BY <1>1
        <3>. QED BY <1>3, <2>1, <3>1
    <2>3. Limit \in received..Len(page)
        BY <1>1, <1>5, <1>6
    <2>4. buffer' = SubSeq(page, 1, Limit) /\ Len(buffer') = Limit
        BY <1>1, <1>2, <2>2, <2>3, Beginnings
    <2>5. Min({received', Limit}) = Limit
        BY <1>1, <1>5, <1>6, MinOfTwo
    <2>6. pc' = "tidy" /\ transfer' = "write_error"
        BY <1>3, <2>1
    <2>. QED BY <1>1, <1>4, <1>5, <2>4, <2>5, <2>6 DEF DownloadInv, DownloadTypes, DownloadIsCut
<1>7. CASE received + n <= Limit
    <2>1. WriteSize(Len(buffer), n) = n
        <3>1. received \in Nat /\ n \in Nat /\ Limit \in Nat
            BY <1>1
        <3>2. WriteSize(received, n) = n
            BY <1>7, <3>1 DEF WriteSize
        <3>. QED BY <1>b, <3>2
    <2>2. buffer' = buffer \o SubSeq(page, received + 1, received + n)
        BY <1>3, <2>1
    <2>3. received + n \in received..Len(page)
        BY <1>1, <1>5
    <2>4. buffer' = SubSeq(page, 1, received')
        BY <1>1, <1>2, <1>5, <2>2, <2>3, Beginnings
    <2>5. Min({received', Limit}) = received'
        BY <1>1, <1>5, <1>7, MinOfTwo
    <2>6. UNCHANGED <<pc, transfer>>
        BY <1>3, <2>1
    <2>. QED BY <1>1, <1>4, <1>5, <1>7, <2>4, <2>5, <2>6
             DEF DownloadInv, DownloadTypes, DownloadIsCut
<1>. QED BY <1>1, <1>5, <1>6, <1>7

\* The URLDownloader is gone.
LEMMA SendResultDownload ==
    ASSUME URLTitleAssumption, SendResult
    PROVE  DownloadInv'
<1>1. page' = <<>> /\ received' = 0 /\ buffer' = <<>> /\ transfer' = "running" /\ pc' = "idle"
    BY DEF SendResult
<1>2. page' \in Seq(Symbols) /\ Len(page') = 0
    BY <1>1, EmptySeq
<1>3. buffer' = SubSeq(page', 1, Min({received', Limit}))
    <2>1. SubSeq(page', 1, Min({0, Limit})) = <<>>
        BY <1>2, EmptyDownload
    <2>. QED BY <1>1, <2>1
<1>4. received' \in 0..Len(page') /\ transfer' # "done" /\ transfer' # "write_error"
    BY <1>1, <1>2
<1>5. DownloadTypes' /\ DownloadIsCut'
    BY <1>1, <1>2, <1>3, <1>4 DEF DownloadTypes, DownloadIsCut
<1>6. NoDownload' /\ pc' = "idle"
    BY <1>1 DEF NoDownload
<1>. QED BY <1>5, <1>6 DEF DownloadInv

\* DownloadInv is inductive.
LEMMA DownloadInvariance == Spec => []DownloadInv
<1>1. Init => DownloadInv
    BY InitDownload, URLTitleAssumption
<1>2. ASSUME DownloadInv, [Next]_vars
      PROVE  DownloadInv'
    <2>. USE DEF DownloadInv, DownloadTypes, NoDownload, DownloadIsCut
    <2>1. CASE TransferEnds
        BY <1>2, <2>1 DEF TransferEnds
    <2>2. CASE Tidy \/ Parse \/ UserSays
        <3>1. UNCHANGED <<page, received, buffer, transfer>> /\ pc' # "perform"
              /\ (pc' = "idle" => pc = "idle")
            BY <2>2 DEF Tidy, Parse, UserSays, Finish, download
        <3>. QED BY <1>2, <3>1
    <2>3. CASE UNCHANGED vars
        BY <1>2, <2>3 DEF vars, download
    <2>. QED BY <1>2, <2>1, <2>2, <2>3, OnPacketDownload, WriteDataDownload, SendResultDownload,
                URLTitleAssumption DEF Next
<1>. QED BY <1>1, <1>2, PTL DEF Spec

\* The buffer never grows past the limit, and holds exactly the beginning of the page.
THEOREM BufferIsABeginning == Spec => []DownloadIsCut
<1>1. DownloadInv => DownloadIsCut
    BY DEF DownloadInv
<1>. QED BY <1>1, DownloadInvariance, PTL

-----------------------------------------------------------------------------
(* The words of a text.                                                     *)

\* Where the word that is begun at i ends.
WordEnd(s, white, i) ==
    CHOOSE j \in i..Len(s) : /\ \A k \in i..j : s[k] \notin white
                             /\ j < Len(s) => s[j + 1] \in white

WordStarts(s, white) == {i \in DOMAIN s : s[i] \notin white /\ (i > 1 => s[i - 1] \in white)}

\* A word ends before the first white symbol after it.
LEMMA WordEndIs ==
    ASSUME NEW S, NEW s \in Seq(S), NEW white, NEW i \in 1..Len(s), NEW j \in i..Len(s),
           \A k \in i..j : s[k] \notin white, j < Len(s) => s[j + 1] \in white
    PROVE  WordEnd(s, white, i) = j
<1>. DEFINE Ends(e) == /\ \A k \in i..e : s[k] \notin white
                       /\ e < Len(s) => s[e + 1] \in white
<1>1. Len(s) \in Nat
    BY LenProperties
<1>2. Ends(j)
    OBVIOUS
<1>3. ASSUME NEW e \in i..Len(s), Ends(e)
      PROVE  e = j
    <2>1. CASE e < j
        <3>1. e + 1 \in i..j /\ e < Len(s)
            BY <1>1, <2>1
        <3>. QED BY <1>3, <3>1
    <2>2. CASE j < e
        <3>1. j + 1 \in i..e /\ j < Len(s)
            BY <1>1, <2>2
        <3>. QED BY <1>3, <3>1
    <2>. QED BY <1>1, <2>1, <2>2
<1>. QED BY <1>2, <1>3 DEF WordEnd

\* Every word has an end.
LEMMA WordEnds ==
    ASSUME NEW S, NEW s \in Seq(S), NEW white, NEW i \in 1..Len(s), s[i] \notin white
    PROVE  /\ WordEnd(s, white, i) \in i..Len(s)
           /\ \A k \in i..WordEnd(s, white, i) : s[k] \notin white
           /\ WordEnd(s, white, i) < Len(s) => s[WordEnd(s, white, i) + 1] \in white
<1>. DEFINE T == {k \in i..Len(s) : k < Len(s) => s[k + 1] \in white}
<1>1. Len(s) \in Nat /\ Len(s) \in T /\ T \subseteq Nat
    BY LenProperties
<1>2. PICK e \in T : \A k \in T : e <= k
    <2>. HIDE DEF T
    <2>. QED BY <1>1, LeastNatural
<1>3. e \in i..Len(s) /\ (e < Len(s) => s[e + 1] \in white)
    BY <1>2
<1>4. ASSUME NEW k \in i..e
      PROVE  s[k] \notin white
    <2>1. SUFFICES ASSUME k # i
                   PROVE  s[k] \notin white
        OBVIOUS
    <2>2. k - 1 \in i..Len(s) /\ k - 1 < Len(s) /\ ~(e <= k - 1) /\ (k - 1) + 1 = k
        BY <1>1, <1>3, <2>1
    <2>3. k - 1 \notin T
        BY <1>2, <2>2
    <2>. QED BY <2>2, <2>3
<1>5. WordEnd(s, white, i) = e
    BY <1>3, <1>4, WordEndIs
<1>. QED BY <1>3, <1>4, <1>5

\* The words are those that begin somewhere, in their order.
LEMMA WordsAre ==
    ASSUME NEW S, NEW s \in Seq(S), NEW white
    PROVE  LET in == Sorted(WordStarts(s, white)) IN
           /\ WordStarts(s, white) \subseteq 1..Len(s)
           /\ WordStarts(s, white) \subseteq Nat /\ IsFiniteSet(WordStarts(s, white))
           /\ DOMAIN WordsOf(s, white) = DOMAIN in
           /\ \A k \in DOMAIN in : WordsOf(s, white)[k] = SubSeq(s, in[k], WordEnd(s, white, in[k]))
<1>1. DOMAIN s = 1..Len(s) /\ Len(s) \in Nat
    BY LenProperties
<1>2. WordStarts(s, white) \subseteq 1..Len(s) /\ WordStarts(s, white) \subseteq Nat
    BY <1>1 DEF WordStarts
<1>3. IsFiniteSet(WordStarts(s, white))
    <2>1. IsFiniteSet(1..Len(s))
        BY <1>1, FS_Interval
    <2>. QED BY <1>2, <2>1, FS_Subset
<1>. DEFINE in == Sorted(WordStarts(s, white))
<1>4. WordsOf(s, white) = [k \in DOMAIN in |-> SubSeq(s, in[k], WordEnd(s, white, in[k]))]
    BY DEF WordsOf, WordEnd, WordStarts
<1>. HIDE DEF in
<1>5. /\ DOMAIN WordsOf(s, white) = DOMAIN in
      /\ \A k \in DOMAIN in : WordsOf(s, white)[k] = SubSeq(s, in[k], WordEnd(s, white, in[k]))
    BY <1>4
<1>. QED BY <1>2, <1>3, <1>5 DEF in

-----------------------------------------------------------------------------
(* The URL of a message.                                                    *)

\* URL() yields what is between the white space around the first "://".
LEMMA URLIsBetween ==
    ASSUME SymbolsAssumption, NEW S, NEW t \in Seq(S), HasURL(t)
    PROVE  \E at \in 1..Len(t), b \in 0..(Len(t) - 1), e \in 2..(Len(t) + 1) :
              /\ t[at] = "://" /\ \A i \in 1..(at - 1) : t[i] # "://"
              /\ b < at /\ at < e
              /\ b > 0 => t[b] \in Whitespace
              /\ e <= Len(t) => t[e] \in Whitespace
              /\ \A i \in (b + 1)..(e - 1) : t[i] \notin Whitespace
              /\ URL(t) = SubSeq(t, b + 1, e - 1)
<1>. DEFINE I == {i \in 1..Len(t) : t[i] = "://"}
            at == SelectInSeq(t, LAMBDA c : c = "://")
            B == {0} \cup {i \in 1..at : t[i] \in Whitespace}
            E == {Len(t) + 1} \cup {i \in at..Len(t) : t[i] \in Whitespace}
<1>1. Len(t) \in Nat /\ DOMAIN t = 1..Len(t) /\ I \subseteq Nat /\ I # {}
    BY LenProperties, ToSetOfSeq DEF HasURL
<1>2. at = Min(I)
    BY <1>1 DEF SelectInSeq
<1>3. at \in I /\ \A i \in I : at <= i
    <2>. HIDE DEF at, I
    <2>. QED BY <1>1, <1>2, MinIsLeast
<1>. HIDE DEF at
<1>4. at \in 1..Len(t) /\ t[at] = "://" /\ \A i \in 1..(at - 1) : t[i] # "://"
    BY <1>1, <1>3
<1>5. t[at] \notin Whitespace
    BY <1>4 DEF SymbolsAssumption
<1>6. B \subseteq Nat /\ E \subseteq Nat /\ B # {} /\ E # {} /\ at \in Nat /\ \A i \in B : i <= at
    BY <1>1, <1>4
<1>7. Max(B) \in B /\ \A i \in B : i <= Max(B)
    <2>. HIDE DEF B
    <2>. QED BY <1>6, MaxIsGreatest
<1>8. Min(E) \in E /\ \A i \in E : Min(E) <= i
    <2>. HIDE DEF E
    <2>. QED BY <1>6, MinIsLeast
<1>9. URL(t) = SubSeq(t, Max(B) + 1, Min(E) - 1)
    BY DEF URL, at
<1>. DEFINE b == Max(B)
            e == Min(E)
<1>10. b \in 0..at /\ (b > 0 => b \in 1..at /\ t[b] \in Whitespace)
    BY <1>6, <1>7
<1>11. e \in at..(Len(t) + 1) /\ (e <= Len(t) => e \in at..Len(t) /\ t[e] \in Whitespace)
    <2>1. \A x \in E : x = Len(t) + 1 \/ (x \in at..Len(t) /\ t[x] \in Whitespace)
        OBVIOUS
    <2>. DEFINE x == Min(E)
    <2>. HIDE DEF E
    <2>2. x = Len(t) + 1 \/ (x \in at..Len(t) /\ t[x] \in Whitespace)
        BY <1>8, <2>1
    <2>. HIDE DEF x
    <2>3. x \in at..(Len(t) + 1) /\ (x <= Len(t) => x \in at..Len(t) /\ t[x] \in Whitespace)
        BY <1>1, <1>4, <2>2
    <2>. QED BY <2>3 DEF x
<1>. HIDE DEF b, e
<1>12. b # at /\ e # at
    BY <1>1, <1>4, <1>5, <1>10, <1>11
<1>13. ASSUME NEW i \in (b + 1)..(e - 1)
       PROVE  t[i] \notin Whitespace
    <2>1. SUFFICES ASSUME t[i] \in Whitespace
                   PROVE  FALSE
        OBVIOUS
    <2>2. i \in Nat /\ i <= Len(t) /\ b < i /\ i < e
        BY <1>1, <1>10, <1>11
    <2>3. CASE i <= at
        <3>1. i \in B
            BY <1>4, <1>10, <2>1, <2>2, <2>3
        <3>2. i <= b
            BY <1>7, <3>1 DEF b
        <3>. QED BY <1>10, <2>2, <3>2
    <2>4. CASE at < i
        <3>1. i \in E
            BY <1>4, <1>10, <2>1, <2>2, <2>4
        <3>2. e <= i
            BY <1>8, <3>1 DEF e
        <3>. QED BY <1>11, <2>2, <3>2
    <2>. QED BY <1>4, <2>2, <2>3, <2>4
<1>14. URL(t) = SubSeq(t, b + 1, e - 1)
    BY <1>9 DEF b, e
<1>15. b \in 0..(Len(t) - 1) /\ e \in 2..(Len(t) + 1) /\ b < at /\ at < e
    BY <1>1, <1>4, <1>10, <1>11, <1>12
<1>. HIDE DEF B, E, I
<1>. QED BY <1>4, <1>10, <1>11, <1>13, <1>14, <1>15

\* What URL() yields is a word, and no word before it has "://".
FirstURL(t) ==
    LET words == WordsOf(t, Whitespace) IN
    \E k \in DOMAIN words :
        /\ words[k] = URL(t) /\ HasURL(URL(t))
        /\ \A j \in 1..(k - 1) : ~HasURL(words[j])

\* extractURL() takes the first word that has a scheme.
LEMMA URLIsFirst ==
    ASSUME SymbolsAssumption, NEW S, NEW t \in Seq(S), HasURL(t)
    PROVE  FirstURL(t)
<1>1. PICK at \in 1..Len(t), b \in 0..(Len(t) - 1), e \in 2..(Len(t) + 1) :
              /\ t[at] = "://" /\ \A i \in 1..(at - 1) : t[i] # "://"
              /\ b < at /\ at < e
              /\ b > 0 => t[b] \in Whitespace
              /\ e <= Len(t) => t[e] \in Whitespace
              /\ \A i \in (b + 1)..(e - 1) : t[i] \notin Whitespace
              /\ URL(t) = SubSeq(t, b + 1, e - 1)
    BY URLIsBetween
<1>2. Len(t) \in Nat /\ DOMAIN t = 1..Len(t)
    BY LenProperties
<1>. DEFINE starts == WordStarts(t, Whitespace)
            in == Sorted(starts)
            words == WordsOf(t, Whitespace)
<1>3. /\ starts \subseteq 1..Len(t) /\ starts \subseteq Nat /\ IsFiniteSet(starts)
      /\ DOMAIN words = DOMAIN in
      /\ \A k \in DOMAIN in : words[k] = SubSeq(t, in[k], WordEnd(t, Whitespace, in[k]))
    BY WordsAre
<1>4. b + 1 \in starts
    <2>1. b + 1 \in 1..Len(t) /\ b + 1 \in (b + 1)..(e - 1) /\ (b + 1 > 1 => b > 0) /\ (b + 1) - 1 = b
        BY <1>1, <1>2
    <2>. QED BY <1>1, <1>2, <2>1 DEF WordStarts
<1>5. WordEnd(t, Whitespace, b + 1) = e - 1
    <2>1. b + 1 \in 1..Len(t) /\ e - 1 \in (b + 1)..Len(t) /\ (e - 1 < Len(t) => e <= Len(t)) /\ (e - 1) + 1 = e
        BY <1>1, <1>2
    <2>. QED BY <1>1, <2>1, WordEndIs
<1>6. ASSUME NEW i \in starts
      PROVE  i \in 1..Len(t) /\ t[i] \notin Whitespace
    BY <1>2 DEF WordStarts
<1>. HIDE DEF starts, words, in
<1>7. /\ DOMAIN in = 1..Len(in) /\ Len(in) \in Nat
      /\ \A k \in DOMAIN in : in[k] \in starts
      /\ \A k, l \in DOMAIN in : k < l <=> in[k] < in[l]
      /\ \A i \in starts : \E k \in DOMAIN in : in[k] = i
    <2>1. /\ in \in Seq(starts) /\ DOMAIN in = 1..Len(in)
          /\ \A k, l \in DOMAIN in : k < l <=> in[k] < in[l]
          /\ \A i \in starts : \E k \in DOMAIN in : in[k] = i
        BY <1>3, SortedIsInOrder DEF in
    <2>. QED BY <2>1, LenProperties, ElementOfSeq
<1>8. PICK k \in DOMAIN in : in[k] = b + 1
    BY <1>4, <1>7
<1>9. words[k] = URL(t)
    BY <1>1, <1>3, <1>5, <1>8
<1>10. HasURL(URL(t))
    <2>1. b + 1 \in 1..(Len(t) + 1) /\ e - 1 \in ((b + 1) - 1)..Len(t)
        BY <1>1, <1>2
    <2>2. /\ URL(t) \in Seq(S) /\ Len(URL(t)) = (e - 1) - (b + 1) + 1
          /\ \A i \in 1..((e - 1) - (b + 1) + 1) : URL(t)[i] = t[(b + 1) + i - 1]
        <3>. DEFINE m == b + 1
                    n == e - 1
        <3>1. m \in 1..(Len(t) + 1) /\ n \in (m - 1)..Len(t) /\ URL(t) = SubSeq(t, m, n)
            BY <1>1, <2>1
        <3>. HIDE DEF m, n
        <3>2. /\ URL(t) \in Seq(S) /\ Len(URL(t)) = n - m + 1
              /\ \A i \in 1..(n - m + 1) : URL(t)[i] = t[m + i - 1]
            BY <3>1, Piece
        <3>. QED BY <3>2 DEF m, n
    <2>3. at - b \in 1..((e - 1) - (b + 1) + 1) /\ (b + 1) + (at - b) - 1 = at
        BY <1>1, <1>2
    <2>4. at - b \in 1..Len(URL(t)) /\ URL(t)[at - b] = "://"
        BY <1>1, <2>2, <2>3
    <2>. QED BY <2>2, <2>4, ToSetOfSeq DEF HasURL
<1>11. ASSUME NEW j \in 1..(k - 1)
       PROVE  ~HasURL(words[j])
    <2>1. j \in DOMAIN in /\ j < k
        BY <1>7
    <2>2. in[j] \in 1..Len(t) /\ in[j] < b + 1 /\ t[in[j]] \notin Whitespace
        BY <1>6, <1>7, <1>8, <2>1
    <2>. DEFINE m == in[j]
                n == WordEnd(t, Whitespace, in[j])
    <2>3. n \in m..Len(t) /\ \A i \in m..n : t[i] \notin Whitespace
        BY <2>2, WordEnds
    <2>4. words[j] = SubSeq(t, m, n)
        BY <1>3, <2>1
    <2>. HIDE DEF m, n
    <2>5. n < b
        BY <1>1, <1>2, <2>2, <2>3 DEF m
    <2>6. m \in 1..(Len(t) + 1) /\ n \in (m - 1)..Len(t) /\ m \in 1..Len(t)
        BY <1>2, <2>2, <2>3 DEF m
    <2>7. /\ SubSeq(t, m, n) \in Seq(S) /\ Len(SubSeq(t, m, n)) = n - m + 1
          /\ \A i \in 1..(n - m + 1) : SubSeq(t, m, n)[i] = t[m + i - 1]
        <3>1. m \in 1..(Len(t) + 1) /\ n \in (m - 1)..Len(t)
            BY <2>6
        <3>. QED BY <3>1, Piece, SMTT(20)
    <2>8. \A i \in 1..(n - m + 1) : m + i - 1 \in 1..(at - 1)
        BY <1>1, <1>2, <2>3, <2>5, <2>6
    <2>9. \A i \in 1..Len(SubSeq(t, m, n)) : SubSeq(t, m, n)[i] # "://"
        BY <1>1, <2>7, <2>8
    <2>. DEFINE w == SubSeq(t, m, n)
    <2>10. w \in Seq(S) /\ \A i \in 1..Len(w) : w[i] # "://"
        BY <2>7, <2>9
    <2>. HIDE DEF w
    <2>11. "://" \notin ToSet(w)
        BY <2>10, ToSetOfSeq
    <2>. QED BY <2>4, <2>11 DEF HasURL, w
<1>. QED BY <1>3, <1>8, <1>9, <1>10, <1>11 DEF FirstURL, words

-----------------------------------------------------------------------------
(* The folds over the document and the title.                               *)

Printable == Words \cup Whitespace

Parser == [inTitle : BOOLEAN, title : Seq(Printable)]

\* What is kept can be printed.
LEMMA KeepType ==
    ASSUME NEW a \in Seq(Printable), NEW b \in Printable
    PROVE  Keep(a, b) \in Seq(Printable)
BY AppendProperties DEF Keep

\* The handler of the parser keeps its types.
LEMMA HandleType ==
    ASSUME NEW a \in Parser, NEW b \in Symbols
    PROVE  Handle(a, b) \in Parser
<1>1. a.title \in Seq(Printable) /\ a.inTitle \in BOOLEAN
    BY DEF Parser
<1>2. b \in Printable => Append(a.title, b) \in Seq(Printable)
    BY <1>1, AppendProperties
<1>. QED BY <1>1, <1>2 DEF Handle, Parser, Printable

\* What canonicalizeTitle() has kept after each character.
LEMMA KeepFolds ==
    ASSUME NEW s \in Seq(Printable)
    PROVE  \E f \in [0..Len(s) -> Seq(Printable)] :
              /\ f[0] = <<>> /\ \A i \in 1..Len(s) : f[i] = Keep(f[i - 1], s[i])
              /\ FoldLeft(Keep, <<>>, s) = f[Len(s)]
<1>. DEFINE D == 1..Len(s)
            Def(g) == [x \in SUBSET D |-> IF x = {} THEN <<>> ELSE Keep(g[x \ {Max(x)}], s[Max(x)])]
            h == CHOOSE g : g = Def(g)
            step == [p \in Seq(Printable) \X Printable |-> Keep(p[1], p[2])]
<1>1. Len(s) \in Nat /\ DOMAIN s = D /\ \A i \in D : s[i] \in Printable
    BY LenProperties, ElementOfSeq
<1>2. FoldLeft(Keep, <<>>, s) = h[D]
    BY <1>1 DEF FoldLeft, MapThenFoldSet
<1>3. \A a \in Seq(Printable), b \in Printable : Keep(a, b) \in Seq(Printable) /\ step[<<a, b>>] = Keep(a, b)
    BY KeepType
<1>4. <<>> \in Seq(Printable)
    BY EmptySeq
<1>5. step \in [Seq(Printable) \X Printable -> Seq(Printable)]
    BY <1>3
<1>6. PICK g \in [SUBSET D -> Seq(Printable)] : \A x \in SUBSET D :
        g[x] = IF x = {} THEN <<>> ELSE step[<<g[x \ {Max(x)}], s[Max(x)]>>]
    <2>. DEFINE A == Seq(Printable)
                base == <<>>
    <2>1. base \in A /\ step \in [A \X Printable -> A]
        BY <1>4, <1>5
    <2>. HIDE DEF step, A, base
    <2>2. IsFolded(A, base, step, s)
        BY <2>1, FoldExists
    <2>. QED BY <2>2 DEF IsFolded, A, base
<1>. HIDE DEF step
<1>7. g = Def(g)
    <2>1. ASSUME NEW x \in SUBSET D, x # {}
          PROVE  step[<<g[x \ {Max(x)}], s[Max(x)]>>] = Keep(g[x \ {Max(x)}], s[Max(x)])
        <3>1. x \subseteq Nat /\ \A m \in x : m <= Len(s)
            BY <1>1
        <3>2. Max(x) \in D
            BY <1>1, <2>1, <3>1, MaxIsGreatest
        <3>3. x \ {Max(x)} \in SUBSET D
            OBVIOUS
        <3>4. g[x \ {Max(x)}] \in Seq(Printable)
            BY <1>6, <3>3
        <3>. QED BY <1>1, <1>3, <3>2, <3>4
    <2>2. ASSUME NEW x \in SUBSET D
          PROVE  g[x] = IF x = {} THEN <<>> ELSE Keep(g[x \ {Max(x)}], s[Max(x)])
        <3>. HIDE DEF D
        <3>. QED BY <1>6, <2>1
    <2>3. g = [x \in SUBSET D |-> g[x]]
        BY <1>6
    <2>. HIDE DEF D
    <2>. QED BY <2>2, <2>3
<1>8. h = Def(h)
    <2>. HIDE DEF Def
    <2>. QED BY <1>7
<1>. HIDE DEF h
<1>9. ASSUME NEW x \in SUBSET D
      PROVE  h[x] = IF x = {} THEN <<>> ELSE Keep(h[x \ {Max(x)}], s[Max(x)])
    <2>1. Def(h)[x] = IF x = {} THEN <<>> ELSE Keep(h[x \ {Max(x)}], s[Max(x)])
        OBVIOUS
    <2>. HIDE DEF Def
    <2>. QED BY <1>8, <2>1
<1>. HIDE DEF Def
<1>10. h[{}] = <<>> /\ 1..0 = {}
    <2>1. {} \in SUBSET D
        OBVIOUS
    <2>2. h[{}] = <<>>
        BY <1>9, <2>1
    <2>. QED BY <2>2
<1>11. ASSUME NEW n \in Nat, n + 1 \in D
       PROVE  h[1..(n + 1)] = Keep(h[1..n], s[n + 1])
    <2>. DEFINE x == 1..(n + 1)
    <2>1. x \in SUBSET D
        BY <1>1, <1>11
    <2>2. x # {} /\ Max(x) = n + 1 /\ x \ {n + 1} = 1..n
        BY IntervalGrows
    <2>. HIDE DEF x
    <2>3. h[x] = Keep(h[1..n], s[n + 1])
        BY <1>9, <2>1, <2>2
    <2>. QED BY <2>3 DEF x
<1>. DEFINE Typed == {n \in Nat : n <= Len(s) => h[1..n] \in Seq(Printable)}
<1>12. \A n \in Nat : n \in Typed
    <2>1. 0 \in Typed
        BY <1>4, <1>10
    <2>2. ASSUME NEW n \in Nat, n \in Typed
          PROVE  n + 1 \in Typed
        <3>1. SUFFICES ASSUME n + 1 <= Len(s)
                       PROVE  h[1..(n + 1)] \in Seq(Printable)
            OBVIOUS
        <3>2. n + 1 \in D /\ n <= Len(s)
            BY <1>1, <3>1
        <3>3. h[1..n] \in Seq(Printable)
            BY <2>2, <3>2
        <3>4. Keep(h[1..n], s[n + 1]) \in Seq(Printable)
            BY <1>1, <1>3, <3>2, <3>3
        <3>. QED BY <1>11, <3>2, <3>4
    <2>. HIDE DEF Typed
    <2>. QED BY <2>1, <2>2, Induction
<1>. DEFINE f == [i \in 0..Len(s) |-> h[1..i]]
<1>13. f \in [0..Len(s) -> Seq(Printable)]
    <2>1. \A i \in 0..Len(s) : h[1..i] \in Seq(Printable)
        BY <1>1, <1>12
    <2>. HIDE DEF Typed
    <2>. QED BY <2>1
<1>14. f[0] = <<>> /\ f[Len(s)] = h[D]
    BY <1>1, <1>10
<1>15. ASSUME NEW i \in D
       PROVE  f[i] = Keep(f[i - 1], s[i])
    <2>1. i - 1 \in Nat /\ (i - 1) + 1 = i /\ i \in 0..Len(s) /\ i - 1 \in 0..Len(s)
        BY <1>1
    <2>2. h[1..i] = Keep(h[1..(i - 1)], s[i])
        BY <1>11, <2>1
    <2>. QED BY <2>1, <2>2
<1>. HIDE DEF f, D
<1>. QED BY <1>2, <1>13, <1>14, <1>15 DEF D

\* What the parser of the document has after each symbol.
LEMMA HandleFolds ==
    ASSUME NEW s \in Seq(Symbols)
    PROVE  \E f \in [0..Len(s) -> Parser] :
              /\ f[0] = [inTitle |-> FALSE, title |-> <<>>] /\ \A i \in 1..Len(s) : f[i] = Handle(f[i - 1], s[i])
              /\ FoldLeft(Handle, [inTitle |-> FALSE, title |-> <<>>], s) = f[Len(s)]
<1>. DEFINE D == 1..Len(s)
            Def(g) == [x \in SUBSET D |-> IF x = {} THEN [inTitle |-> FALSE, title |-> <<>>] ELSE Handle(g[x \ {Max(x)}], s[Max(x)])]
            h == CHOOSE g : g = Def(g)
            step == [p \in Parser \X Symbols |-> Handle(p[1], p[2])]
<1>1. Len(s) \in Nat /\ DOMAIN s = D /\ \A i \in D : s[i] \in Symbols
    BY LenProperties, ElementOfSeq
<1>2. FoldLeft(Handle, [inTitle |-> FALSE, title |-> <<>>], s) = h[D]
    BY <1>1 DEF FoldLeft, MapThenFoldSet
<1>3. \A a \in Parser, b \in Symbols : Handle(a, b) \in Parser /\ step[<<a, b>>] = Handle(a, b)
    BY HandleType
<1>4. [inTitle |-> FALSE, title |-> <<>>] \in Parser
    BY EmptySeq DEF Parser
<1>5. step \in [Parser \X Symbols -> Parser]
    BY <1>3
<1>6. PICK g \in [SUBSET D -> Parser] : \A x \in SUBSET D :
        g[x] = IF x = {} THEN [inTitle |-> FALSE, title |-> <<>>] ELSE step[<<g[x \ {Max(x)}], s[Max(x)]>>]
    <2>. DEFINE A == Parser
                base == [inTitle |-> FALSE, title |-> <<>>]
    <2>1. base \in A /\ step \in [A \X Symbols -> A]
        BY <1>4, <1>5
    <2>. HIDE DEF step, A, base
    <2>2. IsFolded(A, base, step, s)
        BY <2>1, FoldExists
    <2>. QED BY <2>2 DEF IsFolded, A, base
<1>. HIDE DEF step
<1>7. g = Def(g)
    <2>1. ASSUME NEW x \in SUBSET D, x # {}
          PROVE  step[<<g[x \ {Max(x)}], s[Max(x)]>>] = Handle(g[x \ {Max(x)}], s[Max(x)])
        <3>1. x \subseteq Nat /\ \A m \in x : m <= Len(s)
            BY <1>1
        <3>2. Max(x) \in D
            BY <1>1, <2>1, <3>1, MaxIsGreatest
        <3>3. x \ {Max(x)} \in SUBSET D
            OBVIOUS
        <3>4. g[x \ {Max(x)}] \in Parser
            BY <1>6, <3>3
        <3>. QED BY <1>1, <1>3, <3>2, <3>4
    <2>2. ASSUME NEW x \in SUBSET D
          PROVE  g[x] = IF x = {} THEN [inTitle |-> FALSE, title |-> <<>>] ELSE Handle(g[x \ {Max(x)}], s[Max(x)])
        <3>. HIDE DEF D
        <3>. QED BY <1>6, <2>1
    <2>3. g = [x \in SUBSET D |-> g[x]]
        BY <1>6
    <2>. HIDE DEF D
    <2>. QED BY <2>2, <2>3
<1>8. h = Def(h)
    <2>. HIDE DEF Def
    <2>. QED BY <1>7
<1>. HIDE DEF h
<1>9. ASSUME NEW x \in SUBSET D
      PROVE  h[x] = IF x = {} THEN [inTitle |-> FALSE, title |-> <<>>] ELSE Handle(h[x \ {Max(x)}], s[Max(x)])
    <2>1. Def(h)[x] = IF x = {} THEN [inTitle |-> FALSE, title |-> <<>>] ELSE Handle(h[x \ {Max(x)}], s[Max(x)])
        OBVIOUS
    <2>. HIDE DEF Def
    <2>. QED BY <1>8, <2>1
<1>. HIDE DEF Def
<1>10. h[{}] = [inTitle |-> FALSE, title |-> <<>>] /\ 1..0 = {}
    <2>1. {} \in SUBSET D
        OBVIOUS
    <2>2. h[{}] = [inTitle |-> FALSE, title |-> <<>>]
        BY <1>9, <2>1
    <2>. QED BY <2>2
<1>11. ASSUME NEW n \in Nat, n + 1 \in D
       PROVE  h[1..(n + 1)] = Handle(h[1..n], s[n + 1])
    <2>. DEFINE x == 1..(n + 1)
    <2>1. x \in SUBSET D
        BY <1>1, <1>11
    <2>2. x # {} /\ Max(x) = n + 1 /\ x \ {n + 1} = 1..n
        BY IntervalGrows
    <2>. HIDE DEF x
    <2>3. h[x] = Handle(h[1..n], s[n + 1])
        BY <1>9, <2>1, <2>2
    <2>. QED BY <2>3 DEF x
<1>. DEFINE Typed == {n \in Nat : n <= Len(s) => h[1..n] \in Parser}
<1>12. \A n \in Nat : n \in Typed
    <2>1. 0 \in Typed
        BY <1>4, <1>10
    <2>2. ASSUME NEW n \in Nat, n \in Typed
          PROVE  n + 1 \in Typed
        <3>1. SUFFICES ASSUME n + 1 <= Len(s)
                       PROVE  h[1..(n + 1)] \in Parser
            OBVIOUS
        <3>2. n + 1 \in D /\ n <= Len(s)
            BY <1>1, <3>1
        <3>3. h[1..n] \in Parser
            BY <2>2, <3>2
        <3>4. Handle(h[1..n], s[n + 1]) \in Parser
            BY <1>1, <1>3, <3>2, <3>3
        <3>. QED BY <1>11, <3>2, <3>4
    <2>. HIDE DEF Typed
    <2>. QED BY <2>1, <2>2, Induction
<1>. DEFINE f == [i \in 0..Len(s) |-> h[1..i]]
<1>13. f \in [0..Len(s) -> Parser]
    <2>1. \A i \in 0..Len(s) : h[1..i] \in Parser
        BY <1>1, <1>12
    <2>. HIDE DEF Typed
    <2>. QED BY <2>1
<1>14. f[0] = [inTitle |-> FALSE, title |-> <<>>] /\ f[Len(s)] = h[D]
    BY <1>1, <1>10
<1>15. ASSUME NEW i \in D
       PROVE  f[i] = Handle(f[i - 1], s[i])
    <2>1. i - 1 \in Nat /\ (i - 1) + 1 = i /\ i \in 0..Len(s) /\ i - 1 \in 0..Len(s)
        BY <1>1
    <2>2. h[1..i] = Handle(h[1..(i - 1)], s[i])
        BY <1>11, <2>1
    <2>. QED BY <2>1, <2>2
<1>. HIDE DEF f, D
<1>. QED BY <1>2, <1>13, <1>14, <1>15 DEF D

-----------------------------------------------------------------------------
(* The words of a text that grows.                                         *)

\* Words are pieces of the text.
LEMMA WordsType ==
    ASSUME NEW S, NEW s \in Seq(S), NEW white
    PROVE  /\ WordsOf(s, white) \in Seq(Seq(S))
           /\ Len(WordsOf(s, white)) = Len(Sorted(WordStarts(s, white)))
<1>. DEFINE starts == WordStarts(s, white)
            in == Sorted(starts)
            words == WordsOf(s, white)
<1>1. /\ starts \subseteq 1..Len(s) /\ starts \subseteq Nat /\ IsFiniteSet(starts)
      /\ words = [k \in DOMAIN in |-> SubSeq(s, in[k], WordEnd(s, white, in[k]))]
    <2>1. starts \subseteq 1..Len(s) /\ starts \subseteq Nat /\ IsFiniteSet(starts)
        BY WordsAre
    <2>2. words = [k \in DOMAIN in |-> SubSeq(s, in[k], WordEnd(s, white, in[k]))]
        BY DEF WordsOf, WordEnd, WordStarts
    <2>. QED BY <2>1, <2>2
<1>2. in \in Seq(starts) /\ DOMAIN in = 1..Len(in)
    BY <1>1, SortedIsInOrder
<1>3. \A i \in starts : s[i] \notin white
    BY DEF WordStarts
<1>. HIDE DEF starts, in, words
<1>4. ASSUME NEW k \in 1..Len(in)
      PROVE  SubSeq(s, in[k], WordEnd(s, white, in[k])) \in Seq(S)
    <2>1. in[k] \in 1..Len(s) /\ s[in[k]] \notin white
        BY <1>1, <1>2, <1>3, ElementOfSeq
    <2>. DEFINE m == in[k]
                n == WordEnd(s, white, in[k])
    <2>2. m \in 1..Len(s) /\ n \in m..Len(s)
        BY <2>1, WordEnds
    <2>. HIDE DEF m, n
    <2>3. m \in 1..(Len(s) + 1) /\ n \in (m - 1)..Len(s)
        BY <2>2, LenProperties
    <2>4. SubSeq(s, m, n) \in Seq(S)
        BY <2>3, Piece
    <2>. QED BY <2>4 DEF m, n
<1>5. words \in [1..Len(in) -> Seq(S)] /\ Len(in) \in Nat
    BY <1>1, <1>2, <1>4, LenProperties
<1>. QED BY <1>5, FunctionIsSeq DEF starts, in, words

\* A word can begin after s.
Fresh(s, white) == s = <<>> \/ s[Len(s)] \in white

\* One symbol more begins a word where one can begin.
LEMMA StartsAppend ==
    ASSUME NEW S, NEW s \in Seq(S), NEW white, NEW c \in S
    PROVE  WordStarts(Append(s, c), white) =
               IF c \notin white /\ Fresh(s, white) THEN WordStarts(s, white) \cup {Len(s) + 1}
                                                    ELSE WordStarts(s, white)
<1>. DEFINE t == Append(s, c)
            n == Len(s)
<1>1. /\ n \in Nat /\ DOMAIN s = 1..n
      /\ t \in Seq(S) /\ Len(t) = n + 1 /\ DOMAIN t = 1..Len(t)
      /\ \A i \in 1..n : t[i] = s[i]
      /\ t[n + 1] = c /\ (s = <<>> <=> n = 0)
    BY AppendProperties, LenProperties, EmptySeq
<1>. HIDE DEF t, n
<1>2. Fresh(s, white) <=> (n + 1 > 1 => t[(n + 1) - 1] \in white)
    BY <1>1 DEF Fresh, n
<1>3. \A i \in 1..n : i \in WordStarts(t, white) <=> i \in WordStarts(s, white)
    BY <1>1 DEF WordStarts
<1>4. n + 1 \in WordStarts(t, white) <=> c \notin white /\ Fresh(s, white)
    BY <1>1, <1>2 DEF WordStarts
<1>5. WordStarts(s, white) \subseteq 1..n /\ WordStarts(t, white) \subseteq 1..(n + 1)
    BY <1>1 DEF WordStarts
<1>. DEFINE T == WordStarts(t, white)
            U == WordStarts(s, white)
            b == c \notin white /\ Fresh(s, white)
<1>6. /\ \A i \in 1..n : i \in T <=> i \in U
      /\ n + 1 \in T <=> b
      /\ U \subseteq 1..n /\ T \subseteq 1..(n + 1)
    BY <1>3, <1>4, <1>5
<1>. HIDE DEF T, U, b
<1>7. T = IF b THEN U \cup {n + 1} ELSE U
    <2>1. 1..(n + 1) = (1..n) \cup {n + 1} /\ n + 1 \notin 1..n
        BY <1>1
    <2>2. \A x : x \in T <=> x \in U \/ (b /\ x = n + 1)
        BY <1>6, <2>1
    <2>3. CASE b
        BY <2>2, <2>3
    <2>4. CASE ~b
        BY <2>2, <2>4
    <2>. QED BY <2>3, <2>4
<1>. QED BY <1>7 DEF T, U, b, t, n

\* One symbol more makes the last word longer, if it has not ended.
LEMMA WordEndAppend ==
    ASSUME NEW S, NEW s \in Seq(S), NEW white, NEW c \in S, NEW i \in WordStarts(s, white)
    PROVE  WordEnd(Append(s, c), white, i) =
               IF c \notin white /\ WordEnd(s, white, i) = Len(s) THEN Len(s) + 1
                                                                  ELSE WordEnd(s, white, i)
<1>. DEFINE t == Append(s, c)
            n == Len(s)
            e == WordEnd(s, white, i)
            d == IF c \notin white /\ e = n THEN n + 1 ELSE e
<1>1. /\ n \in Nat /\ DOMAIN s = 1..n /\ t \in Seq(S) /\ Len(t) = n + 1
      /\ \A j \in 1..n : t[j] = s[j]
      /\ t[n + 1] = c
    BY AppendProperties, LenProperties
<1>2. i \in 1..n /\ s[i] \notin white
    BY <1>1 DEF WordStarts
<1>3. e \in i..n /\ (\A k \in i..e : s[k] \notin white) /\ (e < n => s[e + 1] \in white)
    BY <1>2, WordEnds
<1>. HIDE DEF t, n, e
<1>4. i \in 1..Len(t) /\ d \in i..Len(t)
    BY <1>1, <1>2, <1>3
<1>5. \A k \in i..d : t[k] \notin white
    BY <1>1, <1>2, <1>3
<1>6. d < Len(t) => t[d + 1] \in white
    <2>1. CASE e = n
        BY <1>1, <2>1
    <2>2. CASE e < n
        BY <1>1, <1>2, <1>3, <2>2
    <2>. QED BY <1>1, <1>2, <1>3, <2>1, <2>2
<1>. HIDE DEF d
<1>7. WordEnd(t, white, i) = d
    BY <1>1, <1>4, <1>5, <1>6, WordEndIs
<1>. QED BY <1>7 DEF t, n, e, d

\* A text that does not end with white space ends with a word.
LEMMA LastStart ==
    ASSUME NEW S, NEW s \in Seq(S), NEW white, Len(s) # 0, s[Len(s)] \notin white
    PROVE  \E m \in WordStarts(s, white) : m \in 1..Len(s) /\ \A j \in m..Len(s) : s[j] \notin white
<1>. DEFINE z == Len(s)
            T == {m \in 1..z : \A j \in m..z : s[j] \notin white}
<1>1. z \in Nat /\ z # 0 /\ DOMAIN s = 1..z
    BY LenProperties
<1>2. z \in T /\ T \subseteq Nat
    BY <1>1
<1>3. PICK m \in T : \A x \in T : m <= x
    <2>. HIDE DEF T
    <2>. QED BY <1>2, LeastNatural
<1>4. m \in 1..z /\ \A j \in m..z : s[j] \notin white
    BY <1>3
<1>5. m > 1 => s[m - 1] \in white
    <2>1. SUFFICES ASSUME m > 1, s[m - 1] \notin white
                   PROVE  FALSE
        OBVIOUS
    <2>2. m - 1 \in 1..z /\ \A j \in (m - 1)..z : j = m - 1 \/ j \in m..z
        BY <1>1, <1>4, <2>1
    <2>3. m - 1 \in T
        BY <1>4, <2>1, <2>2
    <2>4. m <= m - 1
        <3>. HIDE DEF T
        <3>. QED BY <1>3, <2>3
    <2>. QED BY <1>4, <2>4
<1>6. m \in WordStarts(s, white)
    BY <1>1, <1>4, <1>5 DEF WordStarts
<1>. QED BY <1>4, <1>6

\* A word ends with s if and only if it is the last and no white space comes after it.
LEMMA LastWordEnds ==
    ASSUME NEW S, NEW s \in Seq(S), NEW white, NEW k \in DOMAIN Sorted(WordStarts(s, white))
    PROVE  WordEnd(s, white, Sorted(WordStarts(s, white))[k]) = Len(s)
               <=> k = Len(Sorted(WordStarts(s, white))) /\ ~Fresh(s, white)
<1>. DEFINE starts == WordStarts(s, white)
            in == Sorted(starts)
            n == Len(s)
            i == in[k]
            e == WordEnd(s, white, i)
<1>1. starts \subseteq Nat /\ IsFiniteSet(starts) /\ n \in Nat /\ DOMAIN s = 1..n
    BY WordsAre, LenProperties
<1>2. /\ in \in Seq(starts) /\ DOMAIN in = 1..Len(in) /\ Len(in) \in Nat
      /\ \A a, b \in DOMAIN in : a < b <=> in[a] < in[b]
      /\ \A x \in starts : \E a \in DOMAIN in : in[a] = x
    BY <1>1, SortedIsInOrder, LenProperties
<1>3. \A a \in DOMAIN in : in[a] \in starts
    BY <1>2, ElementOfSeq
<1>4. \A x \in starts : x \in 1..n /\ s[x] \notin white /\ (x > 1 => s[x - 1] \in white)
    BY <1>1 DEF WordStarts
<1>5. \A x \in 1..n : s[x] \notin white /\ (x > 1 => s[x - 1] \in white) => x \in starts
    BY <1>1 DEF WordStarts
<1>. HIDE DEF starts, in, n
<1>6. i \in 1..n /\ s[i] \notin white
    BY <1>3, <1>4 DEF in, starts
<1>7. e \in i..n /\ (\A j \in i..e : s[j] \notin white) /\ (e < n => s[e + 1] \in white)
    BY <1>6, WordEnds DEF n
<1>8. k \in DOMAIN in
    BY DEF in, starts
<1>. HIDE DEF i, e
<1>9. ASSUME e = n
      PROVE  k = Len(in) /\ s[n] \notin white
    <2>1. s[n] \notin white
        BY <1>6, <1>7, <1>9
    <2>2. SUFFICES ASSUME k # Len(in)
                   PROVE  FALSE
        BY <2>1
    <2>3. k + 1 \in DOMAIN in /\ k < k + 1
        BY <1>2, <1>8, <2>2
    <2>. DEFINE j == in[k + 1]
    <2>4. i < j /\ j \in starts
        BY <1>2, <1>3, <1>8, <2>3 DEF i
    <2>. HIDE DEF j
    <2>5. j \in 1..n /\ (j > 1 => s[j - 1] \in white)
        BY <1>4, <2>4
    <2>6. j > 1 /\ j - 1 \in i..e
        BY <1>1, <1>6, <1>9, <2>4, <2>5
    <2>. QED BY <1>7, <2>5, <2>6
<1>10. ASSUME k = Len(in), s[n] \notin white
       PROVE  e = n
    <2>1. SUFFICES ASSUME e < n
                   PROVE  FALSE
        BY <1>1, <1>6, <1>7
    <2>2. s \in Seq(S) /\ n = Len(s) /\ n # 0
        BY <1>1, <1>6 DEF n
    <2>3. PICK m \in starts : m \in 1..n /\ \A j \in m..n : s[j] \notin white
        BY <1>10, <2>2, LastStart DEF starts
    <2>7. e + 1 \in 1..n /\ s[e + 1] \in white
        BY <1>1, <1>6, <1>7, <2>1
    <2>8. e + 1 < m
        BY <2>3, <2>7
    <2>9. PICK a \in DOMAIN in : in[a] = m
        BY <1>2, <2>3
    <2>10. in[k] < in[a]
        BY <1>6, <1>7, <2>3, <2>8, <2>9 DEF i
    <2>. QED BY <1>2, <1>8, <1>10, <2>9, <2>10
<1>11. ~Fresh(s, white) <=> s[n] \notin white
    <2>1. s # <<>>
        BY <1>6, EmptySeq DEF n
    <2>. QED BY <2>1 DEF Fresh, n
<1>. QED BY <1>9, <1>10, <1>11 DEF e, i, n, in, starts

\* A piece of a text does not change when the text grows.
LEMMA PieceOfAppend ==
    ASSUME NEW S, NEW s \in Seq(S), NEW c \in S, NEW m \in 1..Len(s)
    PROVE  /\ \A n \in m..Len(s) : SubSeq(Append(s, c), m, n) = SubSeq(s, m, n)
           /\ SubSeq(Append(s, c), m, Len(s) + 1) = Append(SubSeq(s, m, Len(s)), c)
<1>. DEFINE t == Append(s, c)
            z == Len(s)
<1>1. /\ z \in Nat /\ t \in Seq(S) /\ Len(t) = z + 1 /\ t[z + 1] = c
      /\ \A i \in 1..z : t[i] = s[i]
    BY AppendProperties, LenProperties
<1>. HIDE DEF t
<1>2. ASSUME NEW n \in m..z
      PROVE  SubSeq(t, m, n) = SubSeq(s, m, n)
    <2>. DEFINE a == SubSeq(t, m, n)
                b == SubSeq(s, m, n)
                l == n - m + 1
    <2>1. m \in 1..(Len(t) + 1) /\ n \in (m - 1)..Len(t) /\ m \in 1..(Len(s) + 1) /\ n \in (m - 1)..Len(s)
        BY <1>1
    <2>2. a \in Seq(S) /\ Len(a) = l /\ \A i \in 1..l : a[i] = t[m + i - 1]
        BY <1>1, <2>1, Piece
    <2>3. b \in Seq(S) /\ Len(b) = l /\ \A i \in 1..l : b[i] = s[m + i - 1]
        BY <1>1, <2>1, Piece
    <2>4. \A i \in 1..l : m + i - 1 \in 1..z
        BY <1>1
    <2>5. \A i \in 1..l : a[i] = b[i]
        BY <1>1, <2>2, <2>3, <2>4
    <2>. HIDE DEF a, b
    <2>6. a = b
        BY <2>2, <2>3, <2>5, SeqEqual
    <2>. QED BY <2>6 DEF a, b
<1>3. SubSeq(t, m, z + 1) = Append(SubSeq(s, m, z), c)
    <2>1. m \in 1..Len(t) /\ z + 1 \in m..Len(t) /\ (z + 1) - 1 = z /\ z \in m..z
        BY <1>1
    <2>2. SubSeq(t, m, z + 1) = SubSeq(t, m, z) \o <<c>>
        BY <1>1, <2>1, SubSeqRecursiveSecond
    <2>3. SubSeq(t, m, z) = SubSeq(s, m, z)
        BY <1>2, <2>1
    <2>4. SubSeq(s, m, z) \in Seq(S)
        BY <2>1, Piece
    <2>5. Append(SubSeq(s, m, z), c) = SubSeq(s, m, z) \o <<c>>
        BY <2>4, AppendIsConcat
    <2>. QED BY <2>2, <2>3, <2>5
<1>. QED BY <1>2, <1>3 DEF t

\* What one symbol more does to the words of a text: nothing, it begins a word, or it
\* belongs to the last.
WordsGrow(s, white, c) ==
    LET q == WordsOf(s, white)
        r == WordsOf(Append(s, c), white)
    IN  /\ c \in white => r = q
        /\ c \notin white /\ Fresh(s, white) => r = Append(q, <<c>>)
        /\ c \notin white /\ ~Fresh(s, white) =>
               q # <<>> /\ r = [q EXCEPT ![Len(q)] = Append(@, c)]

\* One symbol more begins a word, makes the last one longer or changes nothing.
LEMMA WordsOfAppend ==
    ASSUME NEW S, NEW s \in Seq(S), NEW white, NEW c \in S
    PROVE  WordsGrow(s, white, c)
<1>. DEFINE t == Append(s, c)
            z == Len(s)
            starts == WordStarts(s, white)
            in == Sorted(starts)
            q == WordsOf(s, white)
            r == WordsOf(t, white)
            tin == Sorted(WordStarts(t, white))
<1>1. z \in Nat /\ t \in Seq(S) /\ Len(t) = z + 1 /\ t[z + 1] = c
    BY AppendProperties, LenProperties
<1>2. /\ q \in Seq(Seq(S)) /\ Len(q) = Len(in)
      /\ \A k \in DOMAIN in : q[k] = SubSeq(s, in[k], WordEnd(s, white, in[k]))
    BY WordsType, WordsAre
<1>3. /\ r \in Seq(Seq(S)) /\ Len(r) = Len(tin)
      /\ \A k \in DOMAIN tin : r[k] = SubSeq(t, tin[k], WordEnd(t, white, tin[k]))
    BY <1>1, WordsType, WordsAre
<1>4. starts \subseteq 1..z /\ starts \subseteq Nat /\ IsFiniteSet(starts)
    BY WordsAre
<1>5. in \in Seq(starts) /\ DOMAIN in = 1..Len(in) /\ Len(in) \in Nat
    BY <1>4, SortedIsInOrder, LenProperties
<1>6. WordStarts(t, white) = IF c \notin white /\ Fresh(s, white) THEN starts \cup {z + 1} ELSE starts
    BY StartsAppend
<1>7. \A i \in starts : WordEnd(t, white, i) = IF c \notin white /\ WordEnd(s, white, i) = z
                                              THEN z + 1 ELSE WordEnd(s, white, i)
    BY WordEndAppend
<1>8. \A k \in DOMAIN in : WordEnd(s, white, in[k]) = z <=> k = Len(in) /\ ~Fresh(s, white)
    BY LastWordEnds
<1>9. \A i \in starts : i \in 1..z /\ WordEnd(s, white, i) \in i..z
    <2>1. \A i \in starts : i \in 1..z /\ s[i] \notin white
        BY <1>4 DEF WordStarts
    <2>. QED BY <2>1, WordEnds
<1>10. \A m \in 1..z : /\ \A n \in m..z : SubSeq(t, m, n) = SubSeq(s, m, n)
                       /\ SubSeq(t, m, z + 1) = Append(SubSeq(s, m, z), c)
    BY PieceOfAppend
<1>11. \A k \in DOMAIN in : in[k] \in starts
    BY <1>5, ElementOfSeq
<1>12. \A k \in 1..Len(in) : q[k] \in Seq(S) /\ r \in Seq(Seq(S))
    BY <1>2, <1>3, ElementOfSeq
<1>. HIDE DEF t, z, starts, in, q, r, tin
\* What becomes of the words that are there.
<1>13. ASSUME NEW k \in DOMAIN in
       PROVE  SubSeq(t, in[k], WordEnd(t, white, in[k]))
                  = IF c \notin white /\ k = Len(in) /\ ~Fresh(s, white) THEN Append(q[k], c) ELSE q[k]
    <2>. DEFINE i == in[k]
                e == WordEnd(s, white, i)
    <2>1. i \in starts /\ i \in 1..z /\ e \in i..z
        BY <1>9, <1>11
    <2>2. q[k] = SubSeq(s, i, e) /\ (e = z <=> k = Len(in) /\ ~Fresh(s, white))
        BY <1>2, <1>8
    <2>3. WordEnd(t, white, i) = IF c \notin white /\ e = z THEN z + 1 ELSE e
        BY <1>7, <2>1
    <2>. HIDE DEF i, e
    <2>4. SubSeq(t, i, e) = SubSeq(s, i, e) /\ SubSeq(t, i, z + 1) = Append(SubSeq(s, i, z), c)
        BY <1>10, <2>1
    <2>5. CASE c \notin white /\ e = z
        <3>1. SubSeq(t, i, WordEnd(t, white, i)) = Append(q[k], c)
            BY <2>2, <2>3, <2>4, <2>5
        <3>. QED BY <2>2, <2>5, <3>1 DEF i
    <2>6. CASE ~(c \notin white /\ e = z)
        <3>1. SubSeq(t, i, WordEnd(t, white, i)) = q[k]
            BY <2>2, <2>3, <2>4, <2>6
        <3>. QED BY <2>2, <2>6, <3>1 DEF i
    <2>. QED BY <2>5, <2>6
<1>14. CASE c \in white
    <2>1. tin = in
        BY <1>6, <1>14 DEF tin, in
    <2>2. \A k \in 1..Len(r) : r[k] = q[k]
        BY <1>3, <1>5, <1>13, <1>14, <2>1
    <2>3. r = q
        BY <1>2, <1>3, <2>1, <2>2, SeqEqual
    <2>. QED BY <1>14, <2>3 DEF WordsGrow, r, q, t
<1>15. CASE c \notin white /\ Fresh(s, white)
    <2>1. tin = Append(in, z + 1)
        <3>1. \A i \in starts : i < z + 1
            BY <1>1, <1>4
        <3>. DEFINE x == z + 1
        <3>2. x \in Nat /\ \A i \in starts : i < x
            BY <1>1, <3>1
        <3>. HIDE DEF x
        <3>3. Sorted(starts \cup {x}) = Append(Sorted(starts), x)
            BY <1>4, <3>2, SortedAppend
        <3>. QED BY <1>6, <1>15, <3>3 DEF tin, in, x
    <2>2. /\ Len(tin) = Len(in) + 1 /\ DOMAIN tin = 1..Len(tin)
          /\ \A k \in 1..Len(in) : tin[k] = in[k]
          /\ tin[Len(in) + 1] = z + 1
        <3>1. in \in Seq(Nat)
            BY <1>4, <1>5, SeqMonotonic
        <3>2. z + 1 \in Nat
            BY <1>1
        <3>. QED BY <2>1, <3>1, <3>2, AppendProperties, LenProperties
    <2>3. SubSeq(t, z + 1, WordEnd(t, white, z + 1)) = <<c>>
        <3>1. z + 1 \in 1..Len(t) /\ z + 1 \in (z + 1)..Len(t)
            BY <1>1
        <3>2. \A k \in (z + 1)..(z + 1) : t[k] \notin white
            BY <1>1, <1>15
        <3>3. WordEnd(t, white, z + 1) = z + 1
            BY <1>1, <3>1, <3>2, WordEndIs
        <3>. DEFINE m == z + 1
        <3>4. m \in 1..(Len(t) + 1) /\ m \in (m - 1)..Len(t) /\ m - m + 1 = 1 /\ m + 1 - 1 = m
            BY <1>1
        <3>. HIDE DEF m
        <3>5. SubSeq(t, m, m) \in Seq(S) /\ Len(SubSeq(t, m, m)) = 1 /\ SubSeq(t, m, m)[1] = t[m]
            BY <1>1, <3>4, Piece
        <3>6. SubSeq(t, m, m) = <<t[m]>>
            <4>1. t[m] \in S
                BY <1>1, <3>4, ElementOfSeq
            <4>2. <<t[m]>> \in Seq(S) /\ Len(<<t[m]>>) = 1 /\ <<t[m]>>[1] = t[m]
                BY <4>1
            <4>. DEFINE a == SubSeq(t, m, m)
                        b == <<t[m]>>
            <4>3. a \in Seq(S) /\ b \in Seq(S) /\ Len(a) = 1 /\ Len(b) = 1 /\ a[1] = b[1]
                BY <3>5, <4>2
            <4>. HIDE DEF a, b
            <4>4. Len(a) = Len(b) /\ \A i \in 1..Len(a) : a[i] = b[i]
                BY <4>3
            <4>5. a = b
                BY <4>3, <4>4, SeqEqual
            <4>. QED BY <4>5 DEF a, b
        <3>. QED BY <1>1, <3>3, <3>6 DEF m
    <2>. DEFINE u == Append(q, <<c>>)
    <2>4. /\ u \in Seq(Seq(S)) /\ Len(u) = Len(in) + 1 /\ u[Len(in) + 1] = <<c>>
          /\ \A k \in 1..Len(in) : u[k] = q[k]
        <3>1. <<c>> \in Seq(S)
            OBVIOUS
        <3>. QED BY <1>2, <3>1, AppendProperties
    <2>. HIDE DEF u
    <2>5. ASSUME NEW k \in 1..Len(r)
          PROVE  r[k] = u[k]
        <3>1. CASE k = Len(in) + 1
            BY <1>3, <2>2, <2>3, <2>4, <3>1
        <3>2. CASE k # Len(in) + 1
            <4>1. k \in 1..Len(in) /\ k \in DOMAIN in /\ k \in DOMAIN tin
                BY <1>3, <1>5, <2>2, <3>2
            <4>2. r[k] = q[k]
                BY <1>3, <1>13, <1>15, <2>2, <4>1
            <4>. QED BY <2>4, <4>1, <4>2
        <3>. QED BY <3>1, <3>2
    <2>6. r = u
        BY <1>3, <2>2, <2>4, <2>5, SeqEqual
    <2>. QED BY <1>15, <2>6 DEF WordsGrow, r, q, t, u
<1>16. CASE c \notin white /\ ~Fresh(s, white)
    <2>1. tin = in
        BY <1>6, <1>16 DEF tin, in
    <2>2. Len(in) # 0
        <3>1. s # <<>> /\ s[z] \notin white
            BY <1>16 DEF Fresh, z
        <3>2. z # 0
            BY <3>1, EmptySeq DEF z
        <3>3. PICK m \in starts : TRUE
            BY <3>1, <3>2, LastStart DEF starts, z
        <3>8. \E k \in DOMAIN in : in[k] = m
            BY <1>4, <3>3, SortedIsInOrder DEF in
        <3>. QED BY <1>5, <3>8
    <2>. DEFINE l == Len(q)
                u == [q EXCEPT ![l] = Append(@, c)]
    <2>3. l \in 1..Len(q) /\ l = Len(in)
        BY <1>2, <1>5, <2>2
    <2>4. Append(q[l], c) \in Seq(S)
        BY <1>12, <2>3, AppendProperties
    <2>5. /\ u \in Seq(Seq(S)) /\ Len(u) = Len(q)
          /\ \A k \in 1..Len(q) : u[k] = IF k = l THEN Append(q[l], c) ELSE q[k]
        <3>. DEFINE d == Append(q[l], c)
        <3>1. d \in Seq(S) /\ u = [q EXCEPT ![l] = d]
            BY <2>4
        <3>. HIDE DEF d, l
        <3>2. /\ [q EXCEPT ![l] = d] \in Seq(Seq(S)) /\ Len([q EXCEPT ![l] = d]) = Len(q)
              /\ \A k \in 1..Len(q) : [q EXCEPT ![l] = d][k] = IF k = l THEN d ELSE q[k]
            BY <1>2, <2>3, <3>1, ExceptSeq
        <3>. QED BY <3>1, <3>2 DEF d
    <2>. HIDE DEF u
    <2>6. \A k \in 1..Len(r) : r[k] = u[k]
        <3>1. \A k \in DOMAIN in : r[k] = IF k = Len(in) THEN Append(q[k], c) ELSE q[k]
            BY <1>3, <1>13, <1>16, <2>1
        <3>. QED BY <1>2, <1>3, <1>5, <2>1, <2>3, <2>5, <3>1
    <2>7. r = u /\ q # <<>>
        <3>1. Len(r) = Len(u)
            BY <1>2, <1>3, <2>1, <2>5
        <3>2. r = u
            BY <1>3, <2>5, <2>6, <3>1, SeqEqual
        <3>. QED BY <2>2, <2>3, <3>2, EmptySeq
    <2>. QED BY <1>16, <2>7 DEF WordsGrow, r, q, t, u
<1>. QED BY <1>14, <1>15, <1>16

-----------------------------------------------------------------------------
(* The folds over a text that grows.                                       *)

KeptOf(s) == FoldLeft(Keep, <<>>, s)

ParserAfter(s) == FoldLeft(Handle, [inTitle |-> FALSE, title |-> <<>>], s)

\* canonicalizeTitle() takes one symbol after another.
LEMMA KeptOfAppend ==
    ASSUME NEW s \in Seq(Printable), NEW c \in Printable
    PROVE  /\ KeptOf(s) \in Seq(Printable) /\ KeptOf(<<>>) = <<>>
           /\ KeptOf(Append(s, c)) = Keep(KeptOf(s), c)
<1>. DEFINE t == Append(s, c)
            z == Len(s)
<1>1. /\ z \in Nat /\ t \in Seq(Printable) /\ Len(t) = z + 1 /\ t[z + 1] = c
      /\ \A i \in 1..z : t[i] = s[i]
    BY AppendProperties, LenProperties
<1>2. PICK f \in [0..z -> Seq(Printable)] :
        /\ f[0] = <<>> /\ \A i \in 1..z : f[i] = Keep(f[i - 1], s[i])
        /\ KeptOf(s) = f[z]
    BY KeepFolds DEF KeptOf
<1>. HIDE DEF t
<1>3. PICK g \in [0..Len(t) -> Seq(Printable)] :
        /\ g[0] = <<>> /\ \A i \in 1..Len(t) : g[i] = Keep(g[i - 1], t[i])
        /\ KeptOf(t) = g[Len(t)]
    BY <1>1, KeepFolds DEF KeptOf
<1>. DEFINE Same == {n \in Nat : n <= z => g[n] = f[n]}
<1>. HIDE DEF z
<1>4. \A n \in Nat : n \in Same
    <2>1. 0 \in Same
        BY <1>2, <1>3
    <2>2. ASSUME NEW n \in Nat, n \in Same
          PROVE  n + 1 \in Same
        <3>1. SUFFICES ASSUME n + 1 <= z
                       PROVE  g[n + 1] = f[n + 1]
            OBVIOUS
        <3>2. n + 1 \in 1..z /\ n + 1 \in 1..Len(t) /\ (n + 1) - 1 = n /\ n <= z
            BY <1>1, <3>1
        <3>3. g[n] = f[n]
            BY <2>2, <3>2
        <3>4. g[n + 1] = Keep(g[n], s[n + 1]) /\ f[n + 1] = Keep(f[n], s[n + 1])
            BY <1>1, <1>2, <1>3, <3>2
        <3>. QED BY <3>3, <3>4
    <2>. HIDE DEF Same
    <2>. QED BY <2>1, <2>2, Induction
<1>5. g[z] = f[z] /\ f[z] \in Seq(Printable)
    BY <1>1, <1>2, <1>4
<1>6. g[z + 1] = Keep(f[z], c)
    <2>1. z + 1 \in 1..Len(t) /\ (z + 1) - 1 = z
        BY <1>1
    <2>. QED BY <1>1, <1>3, <1>5, <2>1
<1>7. KeptOf(<<>>) = <<>>
    <2>1. <<>> \in Seq(Printable) /\ Len(<<>>) = 0
        BY EmptySeq
    <2>2. PICK h \in [0..Len(<<>>) -> Seq(Printable)] : h[0] = <<>> /\ KeptOf(<<>>) = h[Len(<<>>)]
        BY <2>1, KeepFolds DEF KeptOf
    <2>. QED BY <2>1, <2>2
<1>. QED BY <1>1, <1>2, <1>3, <1>5, <1>6, <1>7 DEF t

\* The parser takes one symbol after another.
LEMMA ParserAfterAppend ==
    ASSUME NEW s \in Seq(Symbols), NEW c \in Symbols
    PROVE  /\ ParserAfter(s) \in Parser /\ ParserAfter(<<>>) = [inTitle |-> FALSE, title |-> <<>>]
           /\ ParserAfter(Append(s, c)) = Handle(ParserAfter(s), c)
<1>. DEFINE t == Append(s, c)
            z == Len(s)
            base == [inTitle |-> FALSE, title |-> <<>>]
<1>1. /\ z \in Nat /\ t \in Seq(Symbols) /\ Len(t) = z + 1 /\ t[z + 1] = c
      /\ \A i \in 1..z : t[i] = s[i]
    BY AppendProperties, LenProperties
<1>2. PICK f \in [0..z -> Parser] :
        /\ f[0] = base /\ \A i \in 1..z : f[i] = Handle(f[i - 1], s[i])
        /\ ParserAfter(s) = f[z]
    BY HandleFolds DEF ParserAfter
<1>. HIDE DEF t
<1>3. PICK g \in [0..Len(t) -> Parser] :
        /\ g[0] = base /\ \A i \in 1..Len(t) : g[i] = Handle(g[i - 1], t[i])
        /\ ParserAfter(t) = g[Len(t)]
    BY <1>1, HandleFolds DEF ParserAfter
<1>. DEFINE Same == {n \in Nat : n <= z => g[n] = f[n]}
<1>. HIDE DEF z
<1>4. \A n \in Nat : n \in Same
    <2>1. 0 \in Same
        BY <1>2, <1>3
    <2>2. ASSUME NEW n \in Nat, n \in Same
          PROVE  n + 1 \in Same
        <3>1. SUFFICES ASSUME n + 1 <= z
                       PROVE  g[n + 1] = f[n + 1]
            OBVIOUS
        <3>2. n + 1 \in 1..z /\ n + 1 \in 1..Len(t) /\ (n + 1) - 1 = n /\ n <= z
            BY <1>1, <3>1
        <3>3. g[n] = f[n]
            BY <2>2, <3>2
        <3>4. g[n + 1] = Handle(g[n], s[n + 1]) /\ f[n + 1] = Handle(f[n], s[n + 1])
            BY <1>1, <1>2, <1>3, <3>2
        <3>. QED BY <3>3, <3>4
    <2>. HIDE DEF Same
    <2>. QED BY <2>1, <2>2, Induction
<1>5. g[z] = f[z] /\ f[z] \in Parser
    BY <1>1, <1>2, <1>4
<1>6. g[z + 1] = Handle(f[z], c)
    <2>1. z + 1 \in 1..Len(t) /\ (z + 1) - 1 = z
        BY <1>1
    <2>. QED BY <1>1, <1>3, <1>5, <2>1
<1>7. ParserAfter(<<>>) = base
    <2>1. <<>> \in Seq(Symbols) /\ Len(<<>>) = 0
        BY EmptySeq
    <2>2. PICK h \in [0..Len(<<>>) -> Parser] : h[0] = base /\ ParserAfter(<<>>) = h[Len(<<>>)]
        BY <2>1, HandleFolds DEF ParserAfter
    <2>. QED BY <2>1, <2>2
<1>. QED BY <1>1, <1>2, <1>3, <1>5, <1>6, <1>7 DEF t

Lines(t) == [i \in DOMAIN t |-> IF t[i] \in Breaks THEN "SP" ELSE t[i]]

Line(c) == IF c \in Breaks THEN "SP" ELSE c

Kept(t) == KeptOf(Lines(t))

\* What is kept of a title that grows.
LEMMA KeptAppend ==
    ASSUME SymbolsAssumption, NEW t \in Seq(Printable), NEW c \in Printable
    PROVE  Kept(<<>>) = <<>> /\ Kept(Append(t, c)) = Keep(Kept(t), Line(c))
<1>. DEFINE u == Append(t, c)
            z == Len(t)
<1>1. /\ z \in Nat /\ u \in Seq(Printable) /\ Len(u) = z + 1 /\ u[z + 1] = c
      /\ \A i \in 1..z : u[i] = t[i]
      /\ DOMAIN u = 1..Len(u) /\ DOMAIN t = 1..z
    BY AppendProperties, LenProperties
<1>2. "SP" \in Printable /\ \A x \in Printable : Line(x) \in Printable
    BY DEF SymbolsAssumption, Printable, Whitespace, Line
<1>3. \A i \in 1..z : t[i] \in Printable
    BY ElementOfSeq
<1>. HIDE DEF u, z
<1>4. /\ Lines(t) \in Seq(Printable) /\ Len(Lines(t)) = z
      /\ \A i \in 1..z : Lines(t)[i] = Line(t[i])
    <2>. DEFINE f == [i \in 1..z |-> Line(t[i])]
    <2>1. Lines(t) = f
        BY <1>1 DEF Lines, Line
    <2>2. f \in [1..z -> Printable]
        BY <1>2, <1>3
    <2>3. \A i \in 1..z : f[i] = Line(t[i])
        OBVIOUS
    <2>. HIDE DEF f
    <2>. QED BY <1>1, <2>1, <2>2, <2>3, FunctionIsSeq
<1>5. \A i \in 1..(z + 1) : u[i] \in Printable
    BY <1>1, ElementOfSeq
<1>6. /\ Lines(u) \in Seq(Printable) /\ Len(Lines(u)) = z + 1
      /\ \A i \in 1..(z + 1) : Lines(u)[i] = Line(u[i])
    <2>. DEFINE n == z + 1
                f == [i \in 1..n |-> Line(u[i])]
    <2>1. Lines(u) = f /\ n \in Nat
        BY <1>1 DEF Lines, Line
    <2>2. f \in [1..n -> Printable]
        BY <1>2, <1>5
    <2>3. \A i \in 1..n : f[i] = Line(u[i])
        OBVIOUS
    <2>. HIDE DEF f, n
    <2>4. f \in Seq(Printable) /\ Len(f) = n
        BY <2>1, <2>2, FunctionIsSeq
    <2>. QED BY <2>1, <2>3, <2>4 DEF n
<1>7. Lines(u) = Append(Lines(t), Line(c))
    <2>. DEFINE a == Lines(u)
                d == Line(c)
                b == Append(Lines(t), d)
    <2>1. d \in Printable
        BY <1>2
    <2>2. /\ b \in Seq(Printable) /\ Len(b) = z + 1 /\ b[z + 1] = d
          /\ \A i \in 1..z : b[i] = Lines(t)[i]
        <3>. HIDE DEF d
        <3>. QED BY <1>4, <2>1, AppendProperties
    <2>. HIDE DEF b
    <2>3. \A i \in 1..(z + 1) : a[i] = b[i]
        BY <1>1, <1>4, <1>6, <2>2
    <2>. HIDE DEF a
    <2>4. a \in Seq(Printable) /\ Len(a) = z + 1
        BY <1>6 DEF a
    <2>5. a = b
        BY <2>2, <2>3, <2>4, SeqEqual
    <2>. QED BY <2>5 DEF a, b
<1>8. Lines(<<>>) = <<>>
    BY DEF Lines
<1>9. Kept(u) = Keep(Kept(t), Line(c))
    <2>. DEFINE d == Line(c)
                l == Lines(t)
    <2>1. l \in Seq(Printable) /\ d \in Printable
        BY <1>2, <1>4
    <2>. HIDE DEF l, d
    <2>2. KeptOf(Append(l, d)) = Keep(KeptOf(l), d)
        BY <2>1, KeptOfAppend
    <2>. QED BY <1>7, <2>2 DEF Kept, l, d
<1>10. Kept(<<>>) = <<>>
    BY <1>8, KeptOfAppend DEF Kept
<1>. QED BY <1>9, <1>10 DEF u

-----------------------------------------------------------------------------
(* The words of a title.                                                   *)

Gaps(s) == Cardinality({i \in DOMAIN s : s[i] \in Spaces})

\* One symbol more is one gap more, if it is a space.
LEMMA GapsAppend ==
    ASSUME NEW S, NEW s \in Seq(S), NEW c \in S
    PROVE  /\ Gaps(<<>>) = 0 /\ Gaps(s) \in Nat
           /\ Gaps(Append(s, c)) = IF c \in Spaces THEN Gaps(s) + 1 ELSE Gaps(s)
<1>. DEFINE t == Append(s, c)
            z == Len(s)
            G == {i \in DOMAIN s : s[i] \in Spaces}
            H == {i \in DOMAIN t : t[i] \in Spaces}
<1>1. /\ z \in Nat /\ Len(t) = z + 1 /\ t[z + 1] = c
      /\ \A i \in 1..z : t[i] = s[i]
      /\ DOMAIN t = 1..Len(t) /\ DOMAIN s = 1..z
    BY AppendProperties, LenProperties
<1>. HIDE DEF t, z
<1>2. G \subseteq 1..z /\ z + 1 \notin G
    BY <1>1
<1>3. IsFiniteSet(G)
    <2>1. IsFiniteSet(1..z)
        BY <1>1, FS_Interval
    <2>. QED BY <1>2, <2>1, FS_Subset
<1>4. Gaps(s) = Cardinality(G) /\ Gaps(t) = Cardinality(H)
    BY DEF Gaps
<1>5. \A i : i \in H <=> i \in G \/ (c \in Spaces /\ i = z + 1)
    BY <1>1
<1>. HIDE DEF G, H
<1>6. ASSUME c \in Spaces
      PROVE  Gaps(t) = Gaps(s) + 1
    <2>1. H = G \cup {z + 1}
        BY <1>5, <1>6
    <2>2. Cardinality(H) = Cardinality(G) + 1
        BY <1>2, <1>3, <2>1, FS_AddElement
    <2>. QED BY <1>4, <2>2
<1>7. ASSUME c \notin Spaces
      PROVE  Gaps(t) = Gaps(s)
    <2>1. H = G
        BY <1>5, <1>7
    <2>. QED BY <1>4, <2>1
<1>8. Gaps(<<>>) = 0
    <2>1. {i \in DOMAIN <<>> : <<>>[i] \in Spaces} = {}
        OBVIOUS
    <2>. QED BY <2>1, FS_EmptySet DEF Gaps
<1>9. Gaps(s) \in Nat
    BY <1>3, <1>4, FS_CardinalityType
<1>. QED BY <1>6, <1>7, <1>8, <1>9 DEF t

\* After white space a word can begin.
LEMMA FreshAppend ==
    ASSUME NEW S, NEW s \in Seq(S), NEW c \in S, NEW white
    PROVE  Fresh(Append(s, c), white) <=> c \in white
<1>1. Append(s, c) # <<>> /\ Append(s, c)[Len(Append(s, c))] = c
    BY AppendProperties
<1>. QED BY <1>1 DEF Fresh

\* There are no words in nothing.
LEMMA WordsOfNothing ==
    ASSUME NEW white
    PROVE  WordsOf(<<>>, white) = <<>>
<1>1. <<>> \in Seq({}) /\ WordStarts(<<>>, white) = {}
    BY EmptySeq DEF WordStarts
<1>2. Len(Sorted({})) = 0
    <2>1. {} \subseteq Nat /\ IsFiniteSet({}) /\ Cardinality({}) = 0
        BY FS_EmptySet
    <2>. QED BY <2>1, SortedIsInOrder
<1>3. WordsOf(<<>>, white) \in Seq(Seq({})) /\ Len(WordsOf(<<>>, white)) = 0
    BY <1>1, <1>2, WordsType
<1>. QED BY <1>3, EmptySeq


\* What canonicalizeTitle() has kept of a title: its words, and one space after each but
\* the last, or after each.
SameWords(kept, title) ==
    /\ kept \in Seq(Words \cup Spaces) /\ title \in Seq(Words \cup Spaces \cup Breaks)
    /\ WordsOf(kept, Spaces) = WordsOf(title, Spaces \cup Breaks)
    /\ Fresh(kept, Spaces) <=> Fresh(title, Spaces \cup Breaks)
    /\ Gaps(kept) = Len(WordsOf(kept, Spaces)) - (IF Fresh(kept, Spaces) THEN 0 ELSE 1)
    /\ kept # <<>> => WordsOf(kept, Spaces) # <<>>

\* SameWords is true of two empty texts.
LEMMA NothingIsTheSame == SameWords(<<>>, <<>>)
<1>1. Gaps(<<>>) = 0
    <2>1. <<>> \in Seq({1}) /\ 1 \in {1}
        BY EmptySeq
    <2>. QED BY <2>1, GapsAppend
<1>2. <<>> \in Seq(Words \cup Spaces) /\ <<>> \in Seq(Words \cup Spaces \cup Breaks) /\ Len(<<>>) = 0
    BY EmptySeq
<1>. QED BY <1>1, <1>2, WordsOfNothing DEF SameWords, Fresh

\* A symbol of a word.
LEMMA WordsStaySame ==
    ASSUME SymbolsAssumption, NEW k, NEW t, SameWords(k, t), NEW c \in Words
    PROVE  SameWords(Append(k, c), Append(t, c))
<1>. DEFINE A == Words \cup Spaces
            B == Words \cup Spaces \cup Breaks
            W == Spaces \cup Breaks
            q == WordsOf(k, Spaces)
            qq == WordsOf(Append(k, c), Spaces)
            rr == WordsOf(Append(t, c), W)
<1>1. /\ k \in Seq(A) /\ t \in Seq(B) /\ c \in A /\ c \in B /\ c \notin Spaces /\ c \notin W
      /\ WordsOf(t, W) = q
      /\ Fresh(k, Spaces) <=> Fresh(t, W)
      /\ Gaps(k) = Len(q) - (IF Fresh(k, Spaces) THEN 0 ELSE 1)
    BY DEF SameWords, SymbolsAssumption, Whitespace
<1>. HIDE DEF A, B, W
<1>2. /\ Append(k, c) \in Seq(A) /\ Append(t, c) \in Seq(B)
      /\ ~Fresh(Append(k, c), Spaces) /\ ~Fresh(Append(t, c), W)
      /\ Gaps(Append(k, c)) = Gaps(k)
    BY <1>1, AppendProperties, FreshAppend, GapsAppend
<1>3. q \in Seq(Seq(A)) /\ WordsGrow(k, Spaces, c) /\ WordsGrow(t, W, c)
    BY <1>1, WordsType, WordsOfAppend
<1>4. qq = rr
    BY <1>1, <1>3 DEF WordsGrow
<1>5. Len(qq) = (IF Fresh(k, Spaces) THEN Len(q) + 1 ELSE Len(q)) /\ qq # <<>>
    <2>1. CASE Fresh(k, Spaces)
        <3>1. qq = Append(q, <<c>>) /\ <<c>> \in Seq(A)
            BY <1>1, <1>3, <2>1 DEF WordsGrow
        <3>2. Len(Append(q, <<c>>)) = Len(q) + 1 /\ Append(q, <<c>>) # <<>>
            BY <1>3, <3>1, AppendProperties
        <3>. QED BY <2>1, <3>1, <3>2
    <2>2. CASE ~Fresh(k, Spaces)
        <3>1. q # <<>> /\ qq = [q EXCEPT ![Len(q)] = Append(@, c)]
            BY <1>1, <1>3, <2>2 DEF WordsGrow
        <3>. HIDE DEF q, qq
        <3>2. Len(q) \in Nat \ {0} /\ DOMAIN q = 1..Len(q)
            BY <1>3, <3>1, EmptySeq, LenProperties
        <3>. DEFINE d == Append(q[Len(q)], c)
        <3>3. q[Len(q)] \in Seq(A)
            BY <1>3, <3>2, ElementOfSeq
        <3>4. d \in Seq(A)
            BY <1>1, <3>3, AppendProperties
        <3>5. qq = [q EXCEPT ![Len(q)] = d]
            BY <3>1
        <3>. HIDE DEF d
        <3>6. Len(q) \in 1..Len(q)
            BY <3>2
        <3>7. qq \in Seq(Seq(A)) /\ Len(qq) = Len(q)
            BY <1>3, <3>4, <3>5, <3>6, ExceptSeq
        <3>8. qq # <<>>
            BY <3>2, <3>7, EmptySeq
        <3>. QED BY <2>2, <3>7, <3>8
    <2>. QED BY <2>1, <2>2
<1>6. Len(q) \in Nat
    BY <1>3, LenProperties
<1>. HIDE DEF q, qq, rr
<1>7. Gaps(Append(k, c)) = Len(qq) - 1
    BY <1>1, <1>2, <1>5, <1>6
<1>. QED BY <1>2, <1>4, <1>5, <1>7 DEF SameWords, A, B, W, qq, rr

\* A space or a line break.
LEMMA SpacesStaySame ==
    ASSUME SymbolsAssumption, NEW k, NEW t, SameWords(k, t), NEW d \in Spaces, NEW c \in Spaces \cup Breaks
    PROVE  SameWords(Keep(k, d), Append(t, c))
<1>. DEFINE A == Words \cup Spaces
            B == Words \cup Spaces \cup Breaks
            W == Spaces \cup Breaks
            q == WordsOf(k, Spaces)
            l == Keep(k, d)
<1>1. /\ k \in Seq(A) /\ t \in Seq(B) /\ d \in A /\ c \in B /\ c \in W
      /\ WordsOf(t, W) = q
      /\ Fresh(k, Spaces) <=> Fresh(t, W)
      /\ Gaps(k) = Len(q) - (IF Fresh(k, Spaces) THEN 0 ELSE 1)
      /\ k # <<>> => q # <<>>
    BY DEF SameWords
<1>. HIDE DEF A, B, W
<1>2. Append(t, c) \in Seq(B) /\ Fresh(Append(t, c), W) /\ WordsOf(Append(t, c), W) = q
    <2>1. WordsGrow(t, W, c)
        BY <1>1, WordsOfAppend
    <2>2. WordsOf(Append(t, c), W) = q
        BY <1>1, <2>1 DEF WordsGrow
    <2>. QED BY <1>1, <2>2, AppendProperties, FreshAppend
<1>3. l = IF Fresh(k, Spaces) THEN k ELSE Append(k, d)
    BY DEF Keep, Fresh, Last
<1>4. Len(q) \in Nat
    <2>1. q \in Seq(Seq(A))
        BY <1>1, WordsType
    <2>. QED BY <2>1, LenProperties
<1>5. CASE Fresh(k, Spaces)
    <2>1. l = k
        BY <1>3, <1>5
    <2>. QED BY <1>1, <1>2, <1>5, <2>1 DEF SameWords, A, B, W
<1>6. CASE ~Fresh(k, Spaces)
    <2>1. l = Append(k, d)
        BY <1>3, <1>6
    <2>2. l \in Seq(A) /\ Fresh(l, Spaces) /\ Gaps(l) = Gaps(k) + 1
        BY <1>1, <2>1, AppendProperties, FreshAppend, GapsAppend
    <2>3. WordsOf(l, Spaces) = q
        <3>1. WordsGrow(k, Spaces, d)
            BY <1>1, WordsOfAppend
        <3>. QED BY <2>1, <3>1 DEF WordsGrow
    <2>4. k # <<>>
        BY <1>6 DEF Fresh
    <2>. HIDE DEF q, l
    <2>5. Gaps(l) = Len(q)
        BY <1>1, <1>4, <1>6, <2>2
    <2>. QED BY <1>1, <1>2, <2>2, <2>3, <2>4, <2>5 DEF SameWords, A, B, W, q, l
<1>. QED BY <1>5, <1>6

\* One symbol more of the title leaves the words those of the page.
LEMMA KeptStaysSame ==
    ASSUME SymbolsAssumption, NEW k, NEW t, SameWords(k, t), NEW c \in Printable
    PROVE  SameWords(Keep(k, Line(c)), IF c \in Controls THEN t ELSE Append(t, c))
<1>1. CASE c \in Words
    <2>1. Line(c) = c /\ Keep(k, c) = Append(k, c) /\ c \notin Controls
        BY <1>1 DEF SymbolsAssumption, Whitespace, Line, Keep
    <2>. QED BY <1>1, <2>1, WordsStaySame
<1>2. CASE c \in Spaces \cup Breaks
    <2>1. Line(c) \in Spaces /\ c \notin Controls
        BY <1>2 DEF SymbolsAssumption, Line
    <2>. QED BY <1>2, <2>1, SpacesStaySame
<1>3. CASE c \in Controls
    <2>1. Line(c) = c /\ Keep(k, c) = k
        BY <1>3 DEF SymbolsAssumption, Line, Keep
    <2>. QED BY <1>3, <2>1
<1>. QED BY <1>1, <1>2, <1>3 DEF Printable, Whitespace

-----------------------------------------------------------------------------
(* The title of a document.                                                *)

\* Where the title is open, and what is inside it.
OpenAt(s, i) == \E j \in 1..i : s[j] = "<title>" /\ \A k \in j..i : s[k] # "</title>"

Shown == Words \cup Spaces \cup Breaks

Inside(s) == {i \in DOMAIN s : s[i] \in Shown /\ OpenAt(s, i)}

\* One tag more opens or closes the title from there on.
LEMMA OpenAppend ==
    ASSUME NEW s \in Seq(Symbols), NEW c \in Symbols
    PROVE  /\ \A i \in 1..Len(s) : OpenAt(Append(s, c), i) <=> OpenAt(s, i)
           /\ OpenAt(Append(s, c), Len(s) + 1) <=> c = "<title>" \/ (OpenAt(s, Len(s)) /\ c # "</title>")
<1>. DEFINE t == Append(s, c)
            z == Len(s)
<1>1. /\ z \in Nat /\ Len(t) = z + 1 /\ t[z + 1] = c
      /\ \A i \in 1..z : t[i] = s[i]
    BY AppendProperties, LenProperties
<1>. HIDE DEF t, z
<1>2. ASSUME NEW i \in 1..z
      PROVE  OpenAt(t, i) <=> OpenAt(s, i)
    <2>1. \A j \in 1..i : t[j] = s[j] /\ \A k \in j..i : t[k] = s[k]
        BY <1>1
    <2>. QED BY <2>1 DEF OpenAt
<1>3. ASSUME OpenAt(t, z + 1)
      PROVE  c = "<title>" \/ (OpenAt(s, z) /\ c # "</title>")
    <2>1. PICK j \in 1..(z + 1) : t[j] = "<title>" /\ \A k \in j..(z + 1) : t[k] # "</title>"
        BY <1>3 DEF OpenAt
    <2>2. SUFFICES ASSUME j # z + 1
                   PROVE  OpenAt(s, z) /\ c # "</title>"
        BY <1>1, <2>1
    <2>3. j \in 1..z /\ z + 1 \in j..(z + 1) /\ \A k \in j..z : k \in 1..z /\ k \in j..(z + 1)
        BY <1>1, <2>2
    <2>4. s[j] = "<title>" /\ \A k \in j..z : s[k] # "</title>"
        BY <1>1, <2>1, <2>3
    <2>. QED BY <1>1, <2>1, <2>3, <2>4 DEF OpenAt
<1>4. ASSUME c = "<title>"
      PROVE  OpenAt(t, z + 1)
    <2>1. z + 1 \in 1..(z + 1) /\ \A k \in (z + 1)..(z + 1) : k = z + 1
        BY <1>1
    <2>. QED BY <1>1, <1>4, <2>1 DEF OpenAt
<1>5. ASSUME OpenAt(s, z), c # "</title>"
      PROVE  OpenAt(t, z + 1)
    <2>1. PICK j \in 1..z : s[j] = "<title>" /\ \A k \in j..z : s[k] # "</title>"
        BY <1>5 DEF OpenAt
    <2>2. j \in 1..(z + 1) /\ \A k \in j..(z + 1) : k = z + 1 \/ (k \in j..z /\ k \in 1..z)
        BY <1>1
    <2>3. t[j] = "<title>" /\ \A k \in j..(z + 1) : t[k] # "</title>"
        BY <1>1, <1>5, <2>1, <2>2
    <2>. QED BY <2>2, <2>3 DEF OpenAt
<1>. QED BY <1>2, <1>3, <1>4, <1>5 DEF t, z

\* TitleSymbols() has the symbols inside a title, in order.
LEMMA TitleSymbolsAre ==
    ASSUME NEW s \in Seq(Symbols)
    PROVE  LET in == Sorted(Inside(s)) IN
           /\ Inside(s) \subseteq Nat /\ IsFiniteSet(Inside(s)) /\ Inside(s) \subseteq 1..Len(s)
           /\ TitleSymbols(s) \in Seq(Shown) /\ Len(TitleSymbols(s)) = Len(in)
           /\ \A k \in 1..Len(in) : TitleSymbols(s)[k] = s[in[k]]
           /\ in \in Seq(Inside(s))
<1>. DEFINE I == Inside(s)
            in == Sorted(I)
<1>1. DOMAIN s = 1..Len(s) /\ Len(s) \in Nat
    BY LenProperties
<1>2. I \subseteq 1..Len(s) /\ I \subseteq Nat
    BY <1>1 DEF Inside
<1>3. IsFiniteSet(I)
    <2>1. IsFiniteSet(1..Len(s))
        BY <1>1, FS_Interval
    <2>. QED BY <1>2, <2>1, FS_Subset
<1>4. TitleSymbols(s) = [k \in DOMAIN in |-> s[in[k]]]
    BY DEF TitleSymbols, Inside, OpenAt, Shown
<1>5. \A i \in I : s[i] \in Shown
    BY DEF Inside
<1>. HIDE DEF I, in
<1>6. in \in Seq(I) /\ DOMAIN in = 1..Len(in) /\ Len(in) \in Nat
    BY <1>2, <1>3, SortedIsInOrder, LenProperties DEF in
<1>7. \A k \in 1..Len(in) : in[k] \in I
    BY <1>6, ElementOfSeq
<1>8. TitleSymbols(s) \in [1..Len(in) -> Shown]
    BY <1>4, <1>5, <1>6, <1>7
<1>9. TitleSymbols(s) \in Seq(Shown) /\ Len(TitleSymbols(s)) = Len(in)
    BY <1>6, <1>8, FunctionIsSeq
<1>10. \A k \in 1..Len(in) : TitleSymbols(s)[k] = s[in[k]]
    BY <1>4, <1>6
<1>. QED BY <1>2, <1>3, <1>6, <1>9, <1>10 DEF I, in

\* One symbol more in the document.
LEMMA TitleSymbolsAppend ==
    ASSUME SymbolsAssumption, NEW s \in Seq(Symbols), NEW c \in Symbols
    PROVE  TitleSymbols(Append(s, c)) = IF c \in Shown /\ OpenAt(s, Len(s)) THEN Append(TitleSymbols(s), c)
                                                                            ELSE TitleSymbols(s)
<1>. DEFINE t == Append(s, c)
            z == Len(s)
            I == Inside(s)
            in == Sorted(I)
            tin == Sorted(Inside(t))
            q == TitleSymbols(s)
            r == TitleSymbols(t)
            b == c \in Shown /\ OpenAt(s, z)
<1>1. /\ z \in Nat /\ t \in Seq(Symbols) /\ Len(t) = z + 1 /\ t[z + 1] = c
      /\ \A i \in 1..z : t[i] = s[i]
      /\ DOMAIN t = 1..Len(t) /\ DOMAIN s = 1..z
    BY AppendProperties, LenProperties
<1>2. c \in Shown => c \notin TitleTags
    BY DEF SymbolsAssumption, Shown, Whitespace
<1>3. /\ \A i \in 1..z : OpenAt(t, i) <=> OpenAt(s, i)
      /\ c \in Shown => (OpenAt(t, z + 1) <=> OpenAt(s, z))
    BY <1>2, OpenAppend DEF TitleTags
<1>4. /\ I \subseteq Nat /\ IsFiniteSet(I) /\ I \subseteq 1..z
      /\ q \in Seq(Shown) /\ Len(q) = Len(in)
      /\ \A k \in 1..Len(in) : q[k] = s[in[k]]
      /\ in \in Seq(I)
    BY TitleSymbolsAre
<1>5. /\ r \in Seq(Shown) /\ Len(r) = Len(tin)
      /\ \A k \in 1..Len(tin) : r[k] = t[tin[k]]
    BY <1>1, TitleSymbolsAre
<1>6. Inside(t) = IF b THEN I \cup {z + 1} ELSE I
    <2>. DEFINE T == Inside(t)
    <2>1. T \subseteq 1..(z + 1)
        BY <1>1 DEF Inside
    <2>2. \A i \in 1..z : i \in T <=> i \in I
        BY <1>1, <1>3 DEF Inside
    <2>3. z + 1 \in T <=> b
        BY <1>1, <1>3 DEF Inside
    <2>4. \A i \in 1..(z + 1) : i = z + 1 \/ i \in 1..z
        BY <1>1
    <2>5. z + 1 \notin 1..z
        BY <1>1
    <2>. HIDE DEF T, I, b, z
    <2>6. \A x : x \in T <=> x \in I \/ (b /\ x = z + 1)
        BY <1>4, <2>1, <2>2, <2>3, <2>4, <2>5
    <2>7. CASE b
        BY <2>6, <2>7 DEF T
    <2>8. CASE ~b
        BY <2>6, <2>8 DEF T
    <2>. QED BY <2>7, <2>8
<1>7. \A k \in 1..Len(in) : in[k] \in 1..z
    BY <1>4, ElementOfSeq
<1>8. Len(in) \in Nat
    BY <1>4, LenProperties
<1>. HIDE DEF t, z, I, in, tin, q, r
<1>9. CASE ~b
    <2>1. tin = in
        BY <1>6, <1>9 DEF tin, in
    <2>2. ASSUME NEW k \in 1..Len(r)
          PROVE  r[k] = q[k]
        <3>1. k \in 1..Len(in) /\ in[k] \in 1..z
            BY <1>5, <1>7, <2>1
        <3>2. r[k] = t[in[k]]
            BY <1>5, <2>1
        <3>. QED BY <1>1, <1>4, <3>1, <3>2
    <2>3. r = q
        BY <1>4, <1>5, <2>1, <2>2, SeqEqual
    <2>. QED BY <1>9, <2>3 DEF r, q, t, z
<1>10. CASE b
    <2>. DEFINE x == z + 1
                u == Append(q, c)
    <2>1. x \in Nat /\ \A i \in I : i < x
        BY <1>1, <1>4
    <2>. HIDE DEF x
    <2>2. Sorted(I \cup {x}) = Append(Sorted(I), x)
        BY <1>4, <2>1, SortedAppend
    <2>3. tin = Append(in, x)
        BY <1>6, <1>10, <2>2 DEF tin, in, x
    <2>4. /\ Len(tin) = Len(in) + 1 /\ \A k \in 1..Len(in) : tin[k] = in[k]
          /\ tin[Len(in) + 1] = x
        <3>1. in \in Seq(Nat)
            BY <1>4, SeqMonotonic
        <3>. QED BY <2>1, <2>3, <3>1, AppendProperties
    <2>5. /\ u \in Seq(Shown) /\ Len(u) = Len(in) + 1 /\ u[Len(in) + 1] = c
          /\ \A k \in 1..Len(in) : u[k] = q[k]
        BY <1>4, <1>10, AppendProperties
    <2>. HIDE DEF u
    <2>6. ASSUME NEW k \in 1..Len(r)
          PROVE  r[k] = u[k]
        <3>1. CASE k = Len(in) + 1
            <4>1. t[x] = c
                BY <1>1 DEF x
            <4>. QED BY <1>5, <2>4, <2>5, <3>1, <4>1
        <3>2. CASE k # Len(in) + 1
            <4>1. k \in 1..Len(in)
                BY <1>5, <1>8, <2>4, <3>2
            <4>2. r[k] = t[in[k]] /\ t[in[k]] = s[in[k]]
                BY <1>1, <1>5, <1>7, <2>4, <4>1
            <4>. QED BY <1>4, <2>5, <4>1, <4>2
        <3>. QED BY <3>1, <3>2
    <2>7. r = u
        BY <1>5, <2>4, <2>5, <2>6, SeqEqual
    <2>. QED BY <1>10, <2>7 DEF r, q, t, u, z
<1>. QED BY <1>9, <1>10

\* The parser has found what TitleSymbols() says.
ParserFinds(s) ==
    /\ ParserAfter(s).inTitle <=> OpenAt(s, Len(s))
    /\ SameWords(Kept(ParserAfter(s).title), TitleSymbols(s))

\* The parser is right about the empty document.
LEMMA NothingIsFound ==
    ASSUME SymbolsAssumption
    PROVE  ParserFinds(<<>>)
<1>1. ParserAfter(<<>>) = [inTitle |-> FALSE, title |-> <<>>]
    <2>1. <<>> \in Seq(Symbols) /\ "NUL" \in Symbols
        BY EmptySeq DEF Symbols
    <2>. QED BY <2>1, ParserAfterAppend
<1>2. ~OpenAt(<<>>, Len(<<>>))
    <2>1. Len(<<>>) = 0
        BY EmptySeq
    <2>. QED BY <2>1 DEF OpenAt
<1>3. TitleSymbols(<<>>) = <<>>
    <2>1. <<>> \in Seq(Symbols) /\ Inside(<<>>) = {}
        BY EmptySeq DEF Inside
    <2>2. Len(Sorted({})) = 0
        <3>1. {} \subseteq Nat /\ IsFiniteSet({}) /\ Cardinality({}) = 0
            BY FS_EmptySet
        <3>. QED BY <3>1, SortedIsInOrder
    <2>3. TitleSymbols(<<>>) \in Seq(Shown) /\ Len(TitleSymbols(<<>>)) = 0
        BY <2>1, <2>2, TitleSymbolsAre
    <2>. QED BY <2>3, EmptySeq
<1>4. Kept(<<>>) = <<>>
    <2>1. <<>> \in Seq(Printable) /\ "SP" \in Printable
        BY EmptySeq DEF SymbolsAssumption, Printable, Whitespace
    <2>. QED BY <2>1, KeptAppend
<1>. QED BY <1>1, <1>2, <1>3, <1>4, NothingIsTheSame DEF ParserFinds

\* A parser that was right is right after one symbol more.
LEMMA OneMoreIsFound ==
    ASSUME SymbolsAssumption, NEW s \in Seq(Symbols), NEW c \in Symbols, ParserFinds(s)
    PROVE  ParserFinds(Append(s, c))
<1>. DEFINE p == ParserAfter(s)
            t == Append(s, c)
            k == Kept(p.title)
            q == TitleSymbols(s)
            o == OpenAt(s, Len(s))
<1>1. /\ p \in Parser /\ p.title \in Seq(Printable) /\ p.inTitle \in BOOLEAN
      /\ ParserAfter(t) = Handle(p, c)
    <2>1. p \in Parser /\ ParserAfter(t) = Handle(p, c)
        BY ParserAfterAppend
    <2>. HIDE DEF p
    <2>. QED BY <2>1 DEF Parser
<1>2. (p.inTitle <=> o) /\ SameWords(k, q)
    BY DEF ParserFinds
<1>3. TitleSymbols(t) = IF c \in Shown /\ o THEN Append(q, c) ELSE q
    BY TitleSymbolsAppend
<1>4. OpenAt(t, Len(t)) <=> c = "<title>" \/ (o /\ c # "</title>")
    <2>1. Len(t) = Len(s) + 1
        BY AppendProperties
    <2>. QED BY <2>1, OpenAppend
<1>. HIDE DEF p, t, k, q, o
<1>5. CASE c \in Printable
    <2>1. c # "<title>" /\ c # "</title>"
        BY <1>5 DEF SymbolsAssumption, Printable, TitleTags
    <2>2. Handle(p, c) = IF p.inTitle THEN [p EXCEPT !.title = Append(@, c)] ELSE p
        BY <1>5, <2>1 DEF Handle, Printable
    <2>3. CASE ~p.inTitle
        BY <1>1, <1>2, <1>3, <1>4, <2>1, <2>2, <2>3 DEF ParserFinds, t, k
    <2>4. CASE p.inTitle
        <3>1. ParserAfter(t).inTitle = TRUE /\ ParserAfter(t).title = Append(p.title, c)
            BY <1>1, <2>2, <2>4 DEF Parser
        <3>2. Kept(Append(p.title, c)) = Keep(k, Line(c))
            BY <1>1, <1>5, KeptAppend DEF k
        <3>3. SameWords(Keep(k, Line(c)), IF c \in Controls THEN q ELSE Append(q, c))
            BY <1>2, <1>5, KeptStaysSame
        <3>4. c \in Controls <=> c \notin Shown
            BY <1>5 DEF SymbolsAssumption, Printable, Whitespace, Shown
        <3>5. TitleSymbols(t) = IF c \in Controls THEN q ELSE Append(q, c)
            BY <1>2, <1>3, <2>4, <3>4
        <3>6. SameWords(Kept(ParserAfter(t).title), TitleSymbols(t))
            BY <3>1, <3>2, <3>3, <3>5
        <3>. QED BY <1>2, <1>4, <2>1, <2>4, <3>1, <3>6 DEF ParserFinds, t
    <2>. QED BY <1>1, <2>3, <2>4
<1>6. CASE c \notin Printable
    <2>1. c \notin Shown
        BY <1>6 DEF Printable, Shown, Whitespace
    <2>2. /\ Handle(p, c).title = p.title
          /\ Handle(p, c).inTitle <=> c = "<title>" \/ (p.inTitle /\ c # "</title>")
        BY <1>1, <1>6 DEF Handle, Parser, Printable
    <2>. QED BY <1>1, <1>2, <1>3, <1>4, <2>1, <2>2 DEF ParserFinds, t, k
<1>. QED BY <1>5, <1>6

\* The parser is right about every document.
LEMMA TitleIsFound ==
    ASSUME SymbolsAssumption, NEW s \in Seq(Symbols)
    PROVE  ParserFinds(s)
<1>. DEFINE X == {x \in Seq(Symbols) : ParserFinds(x)}
<1>1. <<>> \in X
    BY NothingIsFound, EmptySeq
<1>2. ASSUME NEW x \in Seq(Symbols), NEW c \in Symbols, x \in X
      PROVE  Append(x, c) \in X
    <2>1. Append(x, c) \in Seq(Symbols)
        BY AppendProperties
    <2>. QED BY <1>2, <2>1, OneMoreIsFound
<1>3. \A x \in Seq(Symbols) : x \in X
    <2>. HIDE DEF X
    <2>. QED BY <1>1, <1>2, SequenceInduction
<1>. QED BY <1>3

-----------------------------------------------------------------------------
(* The words of an answer.                                                 *)

Prefix == <<"Title:", "SP">>

\* "Title: " before a title is one word and one space more.
Prefixed(k) ==
    /\ WordsOf(Prefix \o k, Spaces) = <<<<"Title:">>>> \o WordsOf(k, Spaces)
    /\ Fresh(Prefix \o k, Spaces) <=> Fresh(k, Spaces)
    /\ Gaps(Prefix \o k) = Gaps(k) + 1

\* "Title: " alone is one word and one gap.
LEMMA PrefixAlone ==
    ASSUME SymbolsAssumption
    PROVE  Prefixed(<<>>)
<1>. DEFINE S == Words \cup Spaces
            a == <<"Title:">>
<1>1. /\ <<>> \in Seq(S) /\ "Title:" \in S /\ "SP" \in S
      /\ "Title:" \notin Spaces /\ "SP" \in Spaces
    BY EmptySeq DEF SymbolsAssumption, Whitespace
<1>2. a \in Seq(S) /\ a = Append(<<>>, "Title:") /\ Prefix = Append(a, "SP") /\ Prefix \in Seq(S)
    BY <1>1 DEF Prefix
<1>. HIDE DEF S, a
<1>3. Fresh(<<>>, Spaces) /\ ~Fresh(a, Spaces) /\ Fresh(Prefix, Spaces)
    BY <1>1, <1>2, FreshAppend DEF Fresh
<1>4. Gaps(Prefix) = 1 /\ Gaps(<<>>) = 0
    <2>1. Gaps(<<>>) = 0 /\ Gaps(a) = Gaps(<<>>)
        BY <1>1, <1>2, GapsAppend
    <2>2. Gaps(Prefix) = Gaps(a) + 1
        BY <1>1, <1>2, GapsAppend
    <2>. QED BY <2>1, <2>2
<1>5. WordsOf(Prefix, Spaces) = <<<<"Title:">>>>
    <2>1. WordsGrow(<<>>, Spaces, "Title:") /\ WordsGrow(a, Spaces, "SP")
        BY <1>1, <1>2, WordsOfAppend
    <2>2. WordsOf(a, Spaces) = Append(<<>>, <<"Title:">>)
        BY <1>1, <1>2, <1>3, <2>1, WordsOfNothing DEF WordsGrow
    <2>3. WordsOf(Prefix, Spaces) = WordsOf(a, Spaces)
        BY <1>1, <1>2, <2>1 DEF WordsGrow
    <2>. QED BY <2>2, <2>3
<1>6. Prefix \o <<>> = Prefix
    BY <1>2, ConcatEmptySeq
<1>7. WordsOf(<<>>, Spaces) = <<>> /\ <<<<"Title:">>>> \o <<>> = <<<<"Title:">>>>
    BY WordsOfNothing
<1>. QED BY <1>3, <1>4, <1>5, <1>6, <1>7 DEF Prefixed

\* And stays so as the title grows after it.
LEMMA PrefixBeforeMore ==
    ASSUME SymbolsAssumption, NEW k \in Seq(Words \cup Spaces), NEW c \in Words \cup Spaces, Prefixed(k)
    PROVE  Prefixed(Append(k, c))
<1>. DEFINE S == Words \cup Spaces
            p == Prefix \o k
            h == <<<<"Title:">>>>
            q == WordsOf(k, Spaces)
            r == WordsOf(p, Spaces)
            kc == Append(k, c)
            pc1 == Append(p, c)
<1>1. Prefix \in Seq(S) /\ <<"Title:">> \in Seq(S)
    BY DEF SymbolsAssumption, Prefix
<1>2. p \in Seq(S) /\ Append(p, c) = Prefix \o Append(k, c)
    <2>1. p \in Seq(S) /\ <<c>> \in Seq(S)
        BY <1>1, ConcatProperties
    <2>2. Append(p, c) = p \o <<c>> /\ Append(k, c) = k \o <<c>>
        BY <2>1, AppendIsConcat
    <2>3. (Prefix \o k) \o <<c>> = Prefix \o (k \o <<c>>)
        BY <1>1, <2>1, ConcatAssociative
    <2>. QED BY <2>1, <2>2, <2>3
<1>3. r = h \o q /\ (Fresh(p, Spaces) <=> Fresh(k, Spaces)) /\ Gaps(p) = Gaps(k) + 1
    BY DEF Prefixed
<1>. DEFINE W == Seq(S)
<1>4. /\ WordsGrow(k, Spaces, c) /\ WordsGrow(p, Spaces, c)
      /\ q \in Seq(W) /\ h \in Seq(W) /\ Len(h) = 1
    <2>1. WordsGrow(k, Spaces, c) /\ WordsGrow(p, Spaces, c)
        BY <1>2, WordsOfAppend
    <2>2. q \in Seq(W)
        BY WordsType
    <2>3. <<"Title:">> \in W
        BY <1>1
    <2>. HIDE DEF W
    <2>4. h \in Seq(W) /\ Len(h) = 1
        BY <2>3
    <2>. QED BY <2>1, <2>2, <2>4
<1>. HIDE DEF p, W
<1>5. (Fresh(Append(p, c), Spaces) <=> Fresh(Append(k, c), Spaces)) /\ Gaps(Append(p, c)) = Gaps(Append(k, c)) + 1
    <2>1. /\ Fresh(Append(p, c), Spaces) <=> c \in Spaces
          /\ Fresh(Append(k, c), Spaces) <=> c \in Spaces
        <3>1. Fresh(Append(p, c), Spaces) <=> c \in Spaces
            <4>. HIDE DEF S
            <4>1. p \in Seq(S) /\ c \in S
                BY <1>2 DEF S
            <4>. QED BY <4>1, FreshAppend
        <3>2. Fresh(Append(k, c), Spaces) <=> c \in Spaces
            BY FreshAppend
        <3>. QED BY <3>1, <3>2
    <2>2. /\ Gaps(Append(p, c)) = IF c \in Spaces THEN Gaps(p) + 1 ELSE Gaps(p)
          /\ Gaps(Append(k, c)) = IF c \in Spaces THEN Gaps(k) + 1 ELSE Gaps(k)
          /\ Gaps(k) \in Nat
        BY <1>2, GapsAppend
    <2>. QED BY <1>3, <2>1, <2>2
<1>. DEFINE qq == WordsOf(Append(k, c), Spaces)
            rr == WordsOf(Append(p, c), Spaces)
<1>6. /\ c \in Spaces => qq = q /\ rr = r
      /\ c \notin Spaces /\ Fresh(k, Spaces) => qq = Append(q, <<c>>) /\ rr = Append(r, <<c>>)
      /\ c \notin Spaces /\ ~Fresh(k, Spaces) =>
             /\ q # <<>> /\ qq = [q EXCEPT ![Len(q)] = Append(@, c)]
             /\ r # <<>> /\ rr = [r EXCEPT ![Len(r)] = Append(@, c)]
    BY <1>3, <1>4 DEF WordsGrow
<1>. HIDE DEF h, q, r, qq, rr
<1>7. rr = h \o qq
    <2>1. CASE c \in Spaces
        BY <1>3, <1>6, <2>1
    <2>2. CASE c \notin Spaces /\ Fresh(k, Spaces)
        <3>. DEFINE w == <<c>>
        <3>1. w \in Seq(S) /\ <<w>> \in Seq(W)
            BY DEF W
        <3>2. h \o q \in Seq(W)
            BY <1>4, ConcatProperties
        <3>. HIDE DEF w
        <3>3. Append(q, w) = q \o <<w>> /\ Append(h \o q, w) = (h \o q) \o <<w>>
            BY <1>4, <3>1, <3>2, AppendIsConcat
        <3>4. (h \o q) \o <<w>> = h \o (q \o <<w>>)
            <4>. DEFINE v == <<w>>
            <4>1. h \in Seq(W) /\ q \in Seq(W) /\ v \in Seq(W)
                BY <1>4, <3>1
            <4>. HIDE DEF v
            <4>2. (h \o q) \o v = h \o (q \o v)
                BY <4>1, ConcatAssociative, SMTT(20)
            <4>. QED BY <4>2 DEF v
        <3>. QED BY <1>3, <1>6, <2>2, <3>3, <3>4 DEF w
    <2>3. CASE c \notin Spaces /\ ~Fresh(k, Spaces)
        <3>. DEFINE n == Len(q)
                    d == Append(q[n], c)
        <3>1. n \in Nat \ {0} /\ n \in 1..Len(q)
            BY <1>4, <1>6, <2>3, EmptySeq
        <3>2. d \in W
            <4>1. q[n] \in W
                BY <1>4, <3>1, ElementOfSeq
            <4>. QED BY <4>1, AppendProperties DEF W
        <3>3. /\ r \in Seq(W) /\ Len(r) = n + 1
              /\ \A i \in 1..(n + 1) : r[i] = IF i <= 1 THEN h[i] ELSE q[i - 1]
            <4>0. h \in Seq(W) /\ q \in Seq(W)
                BY <1>4
            <4>1. /\ h \o q \in Seq(W) /\ Len(h \o q) = Len(h) + Len(q)
                  /\ \A i \in 1..(Len(h) + Len(q)) :
                        (h \o q)[i] = IF i <= Len(h) THEN h[i] ELSE q[i - Len(h)]
                BY <4>0, ConcatProperties, Zenon
            <4>2. Len(h) + Len(q) = n + 1 /\ Len(h) = 1
                BY <1>4, <3>1
            <4>. QED BY <1>3, <4>1, <4>2
        <3>4. r[n + 1] = q[n] /\ n + 1 \in 1..Len(r)
            BY <3>1, <3>3
        <3>5. qq = [q EXCEPT ![n] = d] /\ rr = [r EXCEPT ![n + 1] = d]
            BY <1>6, <2>3, <3>3, <3>4
        <3>. DEFINE m == n + 1
        <3>. HIDE DEF d, m, n
        <3>6. /\ [q EXCEPT ![n] = d] \in Seq(W) /\ Len([q EXCEPT ![n] = d]) = Len(q)
              /\ \A j \in 1..Len(q) : [q EXCEPT ![n] = d][j] = IF j = n THEN d ELSE q[j]
            BY <1>4, <3>1, <3>2, ExceptSeq
        <3>7. /\ [r EXCEPT ![m] = d] \in Seq(W) /\ Len([r EXCEPT ![m] = d]) = Len(r)
              /\ \A j \in 1..Len(r) : [r EXCEPT ![m] = d][j] = IF j = m THEN d ELSE r[j]
            <4>1. m \in 1..Len(r)
                BY <3>4 DEF m
            <4>. QED BY <3>2, <3>3, <4>1, ExceptSeq
        <3>8. /\ qq \in Seq(W) /\ Len(qq) = n
              /\ \A j \in 1..n : qq[j] = IF j = n THEN d ELSE q[j]
            BY <3>5, <3>6 DEF n
        <3>9. /\ rr \in Seq(W) /\ Len(rr) = n + 1
              /\ \A j \in 1..(n + 1) : rr[j] = IF j = n + 1 THEN d ELSE r[j]
            BY <3>3, <3>5, <3>7 DEF m
        <3>10. /\ h \o qq \in Seq(W) /\ Len(h \o qq) = n + 1
               /\ \A i \in 1..(n + 1) : (h \o qq)[i] = IF i <= 1 THEN h[i] ELSE qq[i - 1]
            <4>2. h \in Seq(W) /\ qq \in Seq(W)
                BY <1>4, <3>8
            <4>1. /\ h \o qq \in Seq(W) /\ Len(h \o qq) = Len(h) + Len(qq)
                  /\ \A i \in 1..(Len(h) + Len(qq)) :
                        (h \o qq)[i] = IF i <= Len(h) THEN h[i] ELSE qq[i - Len(h)]
                BY <4>2, ConcatProperties, Zenon
            <4>. QED BY <1>4, <3>1, <3>8, <4>1
        <3>11. \A i \in 1..(n + 1) : rr[i] = (h \o qq)[i]
            <4>1. ASSUME NEW i \in 1..(n + 1), i # 1
                  PROVE  i - 1 \in 1..n /\ ~(i <= 1) /\ (i - 1 = n <=> i = n + 1)
                BY <3>1, <4>1
            <4>2. 1 \in 1..(n + 1) /\ 1 <= 1 /\ 1 # n + 1
                BY <3>1
            <4>3. rr[1] = (h \o qq)[1]
                BY <3>3, <3>9, <3>10, <4>2
            <4>4. ASSUME NEW i \in 1..(n + 1), i # 1
                  PROVE  rr[i] = (h \o qq)[i]
                <5>1. rr[i] = IF i = n + 1 THEN d ELSE q[i - 1]
                    BY <3>3, <3>9, <4>1, <4>4
                <5>2. (h \o qq)[i] = qq[i - 1]
                    BY <3>10, <4>1, <4>4
                <5>3. qq[i - 1] = IF i - 1 = n THEN d ELSE q[i - 1]
                    BY <3>8, <4>1, <4>4
                <5>. QED BY <4>1, <4>4, <5>1, <5>2, <5>3
            <4>. QED BY <4>3, <4>4
        <3>. DEFINE u == h \o qq
        <3>. HIDE DEF u
        <3>12. u \in Seq(W) /\ Len(u) = Len(rr) /\ \A i \in 1..Len(rr) : rr[i] = u[i]
            BY <3>9, <3>10, <3>11 DEF u
        <3>13. rr = u
            BY <3>9, <3>12, SeqEqual
        <3>. QED BY <3>13 DEF u
    <2>. QED BY <2>1, <2>2, <2>3
<1>. QED BY <1>2, <1>5, <1>7 DEF Prefixed, h, qq, rr, p

\* "Title: " adds one word and one gap to any title.
LEMMA PrefixIsOneWord ==
    ASSUME SymbolsAssumption, NEW k \in Seq(Words \cup Spaces)
    PROVE  Prefixed(k)
<1>. DEFINE S == Words \cup Spaces
            X == {x \in Seq(S) : Prefixed(x)}
<1>1. <<>> \in X
    BY PrefixAlone, EmptySeq
<1>2. ASSUME NEW x \in Seq(S), NEW c \in S, x \in X
      PROVE  Append(x, c) \in X
    <2>1. Append(x, c) \in Seq(S)
        BY AppendProperties
    <2>. QED BY <1>2, <2>1, PrefixBeforeMore
<1>3. \A x \in Seq(S) : x \in X
    <2>. HIDE DEF X, S
    <2>. QED BY <1>1, <1>2, SequenceInduction
<1>. QED BY <1>3

-----------------------------------------------------------------------------
(* What libtidy and canonicalizeTitle() yield.                             *)

Said == Words \cup Spaces \cup Controls

\* A URL has no white space.
LEMMA URLType ==
    ASSUME SymbolsAssumption, NEW t \in Seq(Said), HasURL(t)
    PROVE  URL(t) \in Seq(Words)
<1>1. PICK b \in 0..(Len(t) - 1), e \in 2..(Len(t) + 1) :
              /\ b < e - 1
              /\ \A i \in (b + 1)..(e - 1) : t[i] \notin Whitespace
              /\ URL(t) = SubSeq(t, b + 1, e - 1)
    <2>1. PICK at \in 1..Len(t), b \in 0..(Len(t) - 1), e \in 2..(Len(t) + 1) :
              /\ b < at /\ at < e
              /\ \A i \in (b + 1)..(e - 1) : t[i] \notin Whitespace
              /\ URL(t) = SubSeq(t, b + 1, e - 1)
        BY URLIsBetween
    <2>2. Len(t) \in Nat
        BY LenProperties
    <2>3. b < e - 1
        BY <2>1, <2>2
    <2>. QED BY <2>1, <2>3
<1>. DEFINE m == b + 1
            n == e - 1
            u == SubSeq(t, m, n)
<1>2. Len(t) \in Nat /\ m \in 1..(Len(t) + 1) /\ n \in (m - 1)..Len(t)
    BY <1>1, LenProperties
<1>3. URL(t) = u /\ \A i \in m..n : t[i] \notin Whitespace
    BY <1>1
<1>. HIDE DEF m, n
<1>4. u \in Seq(Said) /\ Len(u) = n - m + 1 /\ \A i \in 1..(n - m + 1) : u[i] = t[m + i - 1]
    BY <1>2, Piece
<1>5. \A i \in 1..(n - m + 1) : m + i - 1 \in m..n /\ m + i - 1 \in 1..Len(t)
    BY <1>2
<1>6. \A i \in m..n : i \in 1..Len(t) => t[i] \in Words
    BY <1>3, ElementOfSeq DEF Said, Whitespace
<1>. HIDE DEF u
<1>7. \A i \in 1..Len(u) : u[i] \in Words
    BY <1>4, <1>5, <1>6
<1>. QED BY <1>3, <1>4, <1>7, SeqOfTheirs

\* A C string is a beginning of what it was made from.
LEMMA CStringType ==
    ASSUME NEW s \in Seq(Symbols)
    PROVE  CString(s) \in Seq(Symbols)
<1>. DEFINE I == {i \in 1..Len(s) : s[i] = "NUL"}
            nul == SelectInSeq(s, LAMBDA c : c = "NUL")
<1>1. nul = IF I # {} THEN Min(I) ELSE 0
    BY DEF SelectInSeq
<1>2. I \subseteq Nat /\ Len(s) \in Nat
    BY LenProperties
<1>3. I # {} => Min(I) \in 1..Len(s)
    <2>1. \A i \in I : i \in 1..Len(s)
        OBVIOUS
    <2>. HIDE DEF I
    <2>. QED BY <1>2, <2>1, MinIsLeast
<1>4. CString(s) = IF nul = 0 THEN s ELSE SubSeq(s, 1, nul - 1)
    BY DEF CString
<1>. HIDE DEF nul, I
<1>5. CASE nul = 0
    BY <1>4, <1>5
<1>6. CASE nul # 0
    <2>. DEFINE n == nul - 1
    <2>1. 1 \in 1..(Len(s) + 1) /\ n \in (1 - 1)..Len(s)
        BY <1>1, <1>2, <1>3, <1>6
    <2>. HIDE DEF n
    <2>2. SubSeq(s, 1, n) \in Seq(Symbols)
        BY <2>1, Piece
    <2>. QED BY <1>4, <1>6, <2>2 DEF n
<1>. QED BY <1>5, <1>6

\* What TidyLib adds.
LEMMA RepairedIs ==
    ASSUME NEW s \in Seq(Symbols)
    PROVE  Repaired(s) = s \/ Repaired(s) = Append(s, "</title>")
BY DEF Repaired

\* The tag that libtidy adds says nothing.
LEMMA RepairedSaysNoMore ==
    ASSUME SymbolsAssumption, NEW s \in Seq(Symbols)
    PROVE  Repaired(s) \in Seq(Symbols) /\ Title(Repaired(s)) = Title(s)
<1>1. "</title>" \in Symbols /\ "</title>" # "<title>" /\ "</title>" \notin Words \cup Whitespace
    BY DEF SymbolsAssumption, Symbols, TitleTags
<1>2. Append(s, "</title>") \in Seq(Symbols)
    BY <1>1, AppendProperties
<1>3. ParserAfter(s) \in Parser /\ ParserAfter(Append(s, "</title>")) = Handle(ParserAfter(s), "</title>")
    BY <1>1, ParserAfterAppend
<1>4. \A p \in Parser : Handle(p, "</title>").title = p.title
    BY <1>1 DEF Handle, Parser
<1>5. Title(Append(s, "</title>")) = Title(s)
    <2>1. \A x : Title(x) = ParserAfter(x).title
        BY DEF Title, ParserAfter
    <2>. QED BY <1>3, <1>4, <2>1
<1>. QED BY <1>2, <1>5, RepairedIs

\* canonicalizeTitle() ends with a word.
LEMMA CanonicalIs ==
    ASSUME SymbolsAssumption, NEW s \in Seq(Symbols)
    PROVE  LET title == canonicalizeTitle(Title(s))
               words == WordsOf(TitleSymbols(s), Spaces \cup Breaks)
           IN  /\ title \in Seq(Words \cup Spaces)
               /\ title # <<>> =>
                      /\ words # <<>> /\ WordsOf(title, Spaces) = words
                      /\ words \in Seq(Seq(Shown)) /\ Gaps(title) = Len(words) - 1
<1>. DEFINE A == Words \cup Spaces
            k == Kept(Title(s))
            title == canonicalizeTitle(Title(s))
            q == WordsOf(k, Spaces)
            words == WordsOf(TitleSymbols(s), Spaces \cup Breaks)
<1>1. SameWords(k, TitleSymbols(s))
    <2>1. Title(s) = ParserAfter(s).title
        BY DEF Title, ParserAfter
    <2>. QED BY <2>1, TitleIsFound DEF ParserFinds
<1>2. /\ k \in Seq(A) /\ TitleSymbols(s) \in Seq(Shown)
      /\ q = words
      /\ Gaps(k) = Len(q) - (IF Fresh(k, Spaces) THEN 0 ELSE 1)
      /\ k # <<>> => q # <<>>
    BY <1>1 DEF SameWords, Shown
<1>3. title = IF k # <<>> /\ k[Len(k)] \in Spaces THEN SubSeq(k, 1, Len(k) - 1) ELSE k
    <2>1. \A t : canonicalizeTitle(t) = IF Kept(t) # <<>> /\ Last(Kept(t)) \in Spaces THEN Front(Kept(t)) ELSE Kept(t)
        BY DEF canonicalizeTitle, Kept, KeptOf, Lines
    <2>2. title = IF k # <<>> /\ Last(k) \in Spaces THEN Front(k) ELSE k
        BY <2>1
    <2>. QED BY <2>2 DEF Last, Front
<1>4. words \in Seq(Seq(Shown)) /\ q \in Seq(Seq(A))
    BY <1>2, WordsType
<1>. HIDE DEF A, k, title, q, words
<1>5. CASE ~(k # <<>> /\ k[Len(k)] \in Spaces)
    <2>1. title = k
        BY <1>3, <1>5
    <2>2. title # <<>> => ~Fresh(k, Spaces)
        BY <1>5, <2>1 DEF Fresh
    <2>. QED BY <1>2, <1>4, <2>1, <2>2 DEF A, title, q, words
<1>6. CASE k # <<>> /\ k[Len(k)] \in Spaces
    <2>1. PICK x \in Seq(A), c \in A : k = Append(x, c)
        BY <1>2, <1>6, SequenceEmptyOrAppend
    <2>2. Len(k) = Len(x) + 1 /\ Len(x) \in Nat /\ k[Len(k)] = c /\ c \in Spaces
          /\ \A i \in 1..Len(x) : k[i] = x[i]
        BY <1>6, <2>1, AppendProperties, LenProperties
    <2>3. title = x
        <3>. DEFINE n == Len(x)
        <3>1. 1 \in 1..(Len(k) + 1) /\ n \in (1 - 1)..Len(k) /\ n - 1 + 1 = n /\ n = Len(k) - 1
              /\ \A i \in 1..n : 1 + i - 1 = i
            BY <2>2
        <3>. HIDE DEF n
        <3>2. /\ SubSeq(k, 1, n) \in Seq(A) /\ Len(SubSeq(k, 1, n)) = n - 1 + 1
              /\ \A i \in 1..(n - 1 + 1) : SubSeq(k, 1, n)[i] = k[1 + i - 1]
            BY <1>2, <3>1, Piece
        <3>. DEFINE y == SubSeq(k, 1, n)
        <3>3. y \in Seq(A) /\ Len(y) = n /\ \A i \in 1..n : y[i] = k[i]
            BY <3>1, <3>2
        <3>. HIDE DEF y
        <3>4. y = x
            <4>1. Len(y) = Len(x) /\ \A i \in 1..Len(y) : y[i] = x[i]
                BY <2>2, <3>3 DEF n
            <4>. QED BY <3>3, <4>1, SeqEqual
        <3>. QED BY <1>3, <1>6, <3>1, <3>4 DEF y
    <2>4. WordsOf(x, Spaces) = q
        <3>1. WordsGrow(x, Spaces, c)
            BY <2>1, WordsOfAppend
        <3>. QED BY <2>1, <2>2, <3>1 DEF WordsGrow, q
    <2>5. Gaps(k) = Gaps(x) + 1 /\ Gaps(x) \in Nat /\ Fresh(k, Spaces)
        <3>1. Gaps(k) = Gaps(x) + 1 /\ Gaps(x) \in Nat
            BY <2>1, <2>2, GapsAppend
        <3>. QED BY <1>6, <3>1 DEF Fresh
    <2>6. Gaps(x) = Len(q) - 1 /\ q # <<>>
        <3>1. Len(q) \in Nat
            BY <1>4, LenProperties
        <3>. QED BY <1>2, <1>6, <2>5, <3>1
    <2>. QED BY <1>2, <1>4, <2>3, <2>4, <2>6 DEF A, title, q, words
<1>. QED BY <1>5, <1>6

-----------------------------------------------------------------------------
(* What is fetched and what is said.                                        *)

TitleOfSeen == canonicalizeTitle(Title(document))

URLTitleInv ==
    /\ TypeOK
    /\ pc = "idle" => message = {}
    /\ pc \notin {"idle", "result"} => \A m \in message : HasURL(m.text) /\ url = URL(m.text)
    /\ pc = "parse" => document = Repaired(CString(buffer))
    /\ pc # "result" => result = {}
    /\ pc = "result" => \A r \in result :
           /\ document = Repaired(CString(buffer))
           /\ TitleOfSeen # <<>> /\ r.text = Prefix \o TitleOfSeen

BufferTypes ==
    /\ page \in Seq(Symbols) /\ received \in 0..Len(page)
    /\ buffer \in Seq(Symbols)
    /\ transfer \in {"running", "done", "write_error", "failed"}

\* What has been received is made of symbols.
LEMMA BufferIsTyped ==
    ASSUME URLTitleAssumption, DownloadInv
    PROVE  BufferTypes
<1>1. /\ page \in Seq(Symbols) /\ received \in 0..Len(page) /\ buffer = SubSeq(page, 1, Min({received, Limit}))
      /\ transfer \in {"running", "done", "write_error", "failed"}
    BY DEF DownloadInv, DownloadTypes, DownloadIsCut
<1>2. Len(page) \in Nat /\ received \in Nat /\ Limit \in Nat
    BY <1>1, LenProperties DEF URLTitleAssumption
<1>. DEFINE n == Min({received, Limit})
<1>3. 1 \in 1..(Len(page) + 1) /\ n \in (1 - 1)..Len(page)
    BY <1>1, <1>2, MinOfTwo
<1>. HIDE DEF n
<1>4. SubSeq(page, 1, n) \in Seq(Symbols)
    BY <1>1, <1>3, Piece
<1>. QED BY <1>1, <1>4 DEF n, BufferTypes

\* URLTitleInv holds at first,
LEMMA InitTitle ==
    ASSUME SymbolsAssumption, URLTitleAssumption, Init
    PROVE  URLTitleInv
<1>1. DownloadInv
    BY InitDownload
<1>2. TypeOK
    BY <1>1, BufferIsTyped, EmptySeq DEF Init, TypeOK, BufferTypes
<1>. QED BY <1>2 DEF Init, URLTitleInv

\* after a message,
LEMMA OnPacketTitle ==
    ASSUME SymbolsAssumption, URLTitleAssumption, URLTitleInv, BufferTypes', OnPacket
    PROVE  URLTitleInv'
<1>. DEFINE h == Head(inbox)
            t == h.text
<1>1. /\ inbox \in Seq(Message) /\ inbox # <<>> /\ heard' \in Nat
      /\ url \in Seq(Words) /\ document' \in Seq(Symbols) /\ result = {}
    BY DEF URLTitleInv, TypeOK, OnPacket
<1>2. h \in Message /\ inbox' \in Seq(Message) /\ message' = {h}
    BY <1>1, HeadTailProperties DEF OnPacket
<1>3. /\ pc' \in {"perform", "result"} /\ result' = {}
      /\ IF HasURL(t) THEN url' = URL(t) ELSE url' = url /\ pc' = "result"
    BY <1>1 DEF OnPacket, NewDownloader, Finish
<1>. HIDE DEF h
<1>4. t \in Seq(Said)
    BY <1>2 DEF Message, Said
<1>5. url' \in Seq(Words)
    <2>. HIDE DEF t
    <2>. QED BY <1>1, <1>3, <1>4, URLType
<1>6. TypeOK'
    BY <1>1, <1>2, <1>3, <1>5 DEF TypeOK, BufferTypes
<1>. QED BY <1>2, <1>3, <1>6 DEF URLTitleInv

\* after a part of the page,
LEMMA DownloadTitle ==
    ASSUME URLTitleAssumption, URLTitleInv, BufferTypes', WriteData \/ TransferEnds
    PROVE  URLTitleInv'
<1>1. /\ UNCHANGED <<inbox, heard, message, url, document, result>> /\ pc = "perform" /\ pc' \in {"perform", "tidy"}
    BY DEF WriteData, TransferEnds, said
<1>2. /\ page' \in Seq(Symbols) /\ received' \in 0..Len(page') /\ buffer' \in Seq(Symbols)
      /\ transfer' \in {"running", "done", "write_error", "failed"}
    BY DEF BufferTypes
<1>3. TypeOK'
    BY <1>1, <1>2 DEF URLTitleInv, TypeOK
<1>. QED BY <1>1, <1>3 DEF URLTitleInv

\* after TidyLib,
LEMMA TidyTitle ==
    ASSUME SymbolsAssumption, URLTitleInv, Tidy
    PROVE  URLTitleInv'
<1>1. /\ UNCHANGED <<inbox, heard, message, url, page, received, buffer, transfer>> /\ pc = "tidy" /\ result = {}
    BY DEF Tidy, said, download, URLTitleInv
<1>2. \/ pc' = "parse" /\ document' = Repaired(CString(buffer)) /\ result' = {}
      \/ pc' = "result" /\ result' = {} /\ document' = document
    BY <1>1 DEF Tidy, Finish
<1>3. document' \in Seq(Symbols)
    <2>1. buffer \in Seq(Symbols) /\ document \in Seq(Symbols)
        BY DEF URLTitleInv, TypeOK
    <2>2. CString(buffer) \in Seq(Symbols)
        BY <2>1, CStringType
    <2>3. Repaired(CString(buffer)) \in Seq(Symbols)
        BY <2>2, RepairedSaysNoMore
    <2>. QED BY <1>2, <2>1, <2>3
<1>4. TypeOK'
    BY <1>1, <1>2, <1>3 DEF URLTitleInv, TypeOK
<1>. QED BY <1>1, <1>2, <1>4 DEF URLTitleInv

\* after the parser: here the words of the title are those of the page,
LEMMA ParseTitle ==
    ASSUME SymbolsAssumption, URLTitleInv, Parse
    PROVE  URLTitleInv'
<1>. DEFINE title == canonicalizeTitle(Title(document))
            answer == {[receiver |-> m.receiver, text |-> <<"Title:", "SP">> \o title] : m \in {x \in message : title # <<>>}}
<1>1. /\ UNCHANGED <<inbox, heard, message, url, page, received, buffer, transfer, document>> /\ pc = "parse" /\ pc' = "result"
      /\ result' \in {answer, {}}
    BY DEF Parse, said, download, Finish
<1>2. document = Repaired(CString(buffer)) /\ buffer \in Seq(Symbols) /\ message \subseteq Message
    BY <1>1 DEF URLTitleInv, TypeOK
<1>3. title \in Seq(Words \cup Spaces)
    <2>1. CString(buffer) \in Seq(Symbols)
        BY <1>2, CStringType
    <2>2. document \in Seq(Symbols)
        BY <1>2, <2>1, RepairedSaysNoMore
    <2>. QED BY <2>2, CanonicalIs
<1>4. Prefix \o title \in Seq(Words \cup Spaces)
    <2>1. Prefix \in Seq(Words \cup Spaces)
        BY DEF SymbolsAssumption, Prefix
    <2>. HIDE DEF title
    <2>. QED BY <1>3, <2>1, ConcatProperties
<1>. HIDE DEF title
<1>5. ASSUME NEW r \in answer
      PROVE  /\ r \in [receiver : Receivers, text : Seq(Words \cup Spaces)]
             /\ title # <<>> /\ r.text = Prefix \o title
    <2>1. PICK m \in message : title # <<>> /\ r = [receiver |-> m.receiver, text |-> Prefix \o title]
        BY DEF Prefix
    <2>2. m.receiver \in Receivers
        BY <1>2 DEF Message
    <2>. QED BY <1>4, <2>1, <2>2
<1>. HIDE DEF answer
<1>6. TypeOK'
    <2>1. result' \subseteq [receiver : Receivers, text : Seq(Words \cup Spaces)]
        BY <1>1, <1>5
    <2>. QED BY <1>1, <2>1 DEF URLTitleInv, TypeOK
<1>7. \A r \in result' : TitleOfSeen' # <<>> /\ r.text = Prefix \o TitleOfSeen'
    <2>1. TitleOfSeen' = title
        BY <1>1 DEF TitleOfSeen, title
    <2>. QED BY <1>1, <1>5, <2>1
<1>8. document' = Repaired(CString(buffer))'
    BY <1>1, <1>2
<1>. QED BY <1>1, <1>6, <1>7, <1>8 DEF URLTitleInv

\* after the answer
LEMMA SendResultTitle ==
    ASSUME URLTitleAssumption, URLTitleInv, BufferTypes', SendResult
    PROVE  URLTitleInv'
<1>1. /\ pc' = "idle" /\ message' = {} /\ result' = {} /\ url' = <<>> /\ document' = <<>>
    BY DEF SendResult
<1>2. inbox' \in Seq(Message) /\ heard' \in Nat
    <2>1. inbox \in Seq(Message) /\ heard \in Nat /\ result \subseteq [receiver : Receivers, text : Seq(Words \cup Spaces)]
        BY DEF URLTitleInv, TypeOK
    <2>2. CASE UNCHANGED said
        BY <2>1, <2>2 DEF said
    <2>3. ASSUME NEW r \in result, inbox' = Append(inbox, r), heard' = heard + 1
          PROVE  inbox' \in Seq(Message) /\ heard' \in Nat
        <3>1. r.receiver \in Receivers /\ r.text \in Seq(Words \cup Spaces)
              /\ r = [receiver |-> r.receiver, text |-> r.text]
            BY <2>1
        <3>. DEFINE x == r.text
        <3>2. x \in Seq(Words \cup Spaces \cup Controls)
            <4>. HIDE DEF x
            <4>1. x \in Seq(Words \cup Spaces)
                BY <3>1 DEF x
            <4>. QED BY <4>1, SeqMonotonic
        <3>3. r \in Message
            BY <3>1, <3>2 DEF Message
        <3>. QED BY <2>1, <2>3, <3>3, AppendProperties
    <2>. QED BY <2>2, <2>3 DEF SendResult
<1>3. TypeOK'
    BY <1>1, <1>2, EmptySeq DEF TypeOK, BufferTypes
<1>. QED BY <1>1, <1>3 DEF URLTitleInv

\* and when somebody says something.
LEMMA UserSaysTitle ==
    ASSUME URLTitleAssumption, URLTitleInv, UserSays
    PROVE  URLTitleInv'
<1>1. /\ UNCHANGED <<pc, message, url, page, received, buffer, transfer, document, result>>
      /\ pc = "idle" /\ heard' = heard + 1
    BY DEF UserSays, download
<1>2. PICK text \in Texts, receiver \in Receivers : inbox' = Append(inbox, [receiver |-> receiver, text |-> text])
    BY DEF UserSays
<1>3. [receiver |-> receiver, text |-> text] \in Message
    BY DEF URLTitleAssumption, Message
<1>4. inbox' \in Seq(Message) /\ heard' \in Nat
    BY <1>1, <1>2, <1>3, AppendProperties DEF URLTitleInv, TypeOK
<1>5. TypeOK'
    BY <1>1, <1>4 DEF URLTitleInv, TypeOK
<1>. QED BY <1>1, <1>5 DEF URLTitleInv

\* URLTitleInv is inductive, together with DownloadInv.
LEMMA TitleInvariance == Spec => []URLTitleInv
<1>1. Init => URLTitleInv
    BY InitTitle, SymbolsAssumption, URLTitleAssumption
<1>2. ASSUME URLTitleInv, BufferTypes', [Next]_vars
      PROVE  URLTitleInv'
    <2>1. CASE UNCHANGED vars
        BY <1>2, <2>1 DEF vars, said, download, URLTitleInv, TypeOK, TitleOfSeen
    <2>. QED BY <1>2, <2>1, OnPacketTitle, DownloadTitle, TidyTitle, ParseTitle, SendResultTitle, UserSaysTitle,
                SymbolsAssumption, URLTitleAssumption DEF Next
<1>3. DownloadInv => BufferTypes
    BY BufferIsTyped, URLTitleAssumption
<1>. QED BY <1>1, <1>2, <1>3, DownloadInvariance, PTL DEF Spec

\* Whatever the page is, the URL is fetched as a word and what is said of it is made of words
\* and spaces: no line break and no control character gets from the page into a message.
THEOREM TypeCorrect == Spec => []TypeOK
<1>1. URLTitleInv => TypeOK
    BY DEF URLTitleInv
<1>. QED BY <1>1, TitleInvariance, PTL

\* What is fetched is the first word of the message that has "://".
THEOREM FetchedIsAWord == Spec => []URLIsAWord
<1>1. ASSUME URLTitleInv, pc # "result", NEW m \in message
      PROVE  LET words == WordsOf(m.text, Whitespace) IN
             \E k \in DOMAIN words :
                 /\ words[k] = url /\ HasURL(url)
                 /\ \A j \in 1..(k - 1) : ~HasURL(words[j])
    <2>1. m \in Message /\ HasURL(m.text) /\ url = URL(m.text)
        BY <1>1 DEF URLTitleInv, TypeOK
    <2>2. m.text \in Seq(Said)
        BY <2>1 DEF Message, Said
    <2>. DEFINE t == m.text
    <2>. HIDE DEF t
    <2>3. t \in Seq(Said) /\ HasURL(t)
        BY <2>1, <2>2 DEF t
    <2>4. FirstURL(t)
        BY <2>3, URLIsFirst, SymbolsAssumption
    <2>. QED BY <2>1, <2>4 DEF FirstURL, t
<1>2. URLTitleInv => URLIsAWord
    BY <1>1 DEF URLIsAWord
<1>. QED BY <1>2, TitleInvariance, PTL

\* However the page comes and wherever the limit or a failed transfer ends it: what the
\* bot says are the words between the title tags of what it has received up to the limit,
\* in one line and with one space between two words.  It need not be the page's whole
\* title: after a failed transfer it is said all the same.
THEOREM SaidWasReceived == Spec => []TitleWasReceived
<1>1. ASSUME URLTitleInv, DownloadInv, pc = "result", NEW r \in result
      PROVE  LET seen  == CString(SubSeq(page, 1, Min({received, Limit})))
                 words == WordsOf(TitleSymbols(seen), Spaces \cup Breaks)
             IN  /\ words # <<>>
                 /\ WordsOf(r.text, Spaces) = <<<<"Title:">>>> \o words
                 /\ Cardinality({i \in DOMAIN r.text : r.text[i] \in Spaces}) = Len(words)
    <2>. DEFINE seen == CString(SubSeq(page, 1, Min({received, Limit})))
                words == WordsOf(TitleSymbols(seen), Spaces \cup Breaks)
                title == canonicalizeTitle(Title(seen))
    <2>1. /\ buffer \in Seq(Symbols) /\ document = Repaired(CString(buffer))
          /\ TitleOfSeen # <<>> /\ r.text = Prefix \o TitleOfSeen
        BY <1>1 DEF URLTitleInv, TypeOK
    <2>2. seen = CString(buffer)
        BY <1>1 DEF DownloadInv, DownloadIsCut
    <2>3. seen \in Seq(Symbols)
        BY <2>1, <2>2, CStringType
    <2>. HIDE DEF seen
    <2>4. TitleOfSeen = title
        <3>1. Title(Repaired(seen)) = Title(seen)
            BY <2>3, RepairedSaysNoMore, SymbolsAssumption
        <3>. QED BY <2>1, <2>2, <3>1 DEF TitleOfSeen
    <2>5. /\ title \in Seq(Words \cup Spaces)
          /\ words # <<>> /\ WordsOf(title, Spaces) = words
          /\ words \in Seq(Seq(Shown)) /\ Gaps(title) = Len(words) - 1
        <3>1. title # <<>>
            BY <2>1, <2>4
        <3>. QED BY <2>3, <3>1, CanonicalIs, SymbolsAssumption
    <2>6. Prefixed(title)
        <3>. HIDE DEF title
        <3>. QED BY <2>5, PrefixIsOneWord, SymbolsAssumption
    <2>7. Len(words) \in Nat
        <3>. HIDE DEF words
        <3>. QED BY <2>5, LenProperties
    <2>. HIDE DEF words, title
    <2>8. WordsOf(r.text, Spaces) = <<<<"Title:">>>> \o words /\ Gaps(r.text) = Len(words)
        BY <2>1, <2>4, <2>5, <2>6, <2>7 DEF Prefixed
    <2>. QED BY <2>5, <2>8 DEF Gaps, words, seen
<1>2. URLTitleInv /\ DownloadInv => TitleWasReceived
    BY <1>1 DEF TitleWasReceived
<1>. QED BY <1>2, TitleInvariance, DownloadInvariance, PTL
=============================================================================
