--------------------------- MODULE IRCParserProofs ---------------------------
(***************************************************************************)
(* What TLAPS proves about IRCParser, for lines of any length over any     *)
(* alphabet.                                                               *)
(***************************************************************************)
EXTENDS IRCParser, SequenceLemmas

-----------------------------------------------------------------------------
(* Words.                                                                  *)

LEMMA TakeIsBeginning ==
    ASSUME NEW s \in Seq(Symbols), NEW n \in 0..Len(s)
    PROVE  /\ Take(s, n) \in Seq(Symbols) /\ Len(Take(s, n)) = n
           /\ \A i \in 1..n : Take(s, n)[i] = s[i]
<1>1. Len(s) \in Nat
    BY LenProperties
<1>2. 1 \in 1..(Len(s) + 1) /\ n \in (1 - 1)..Len(s) /\ n - 1 + 1 = n
    BY <1>1
<1>3. \A i \in 1..n : 1 + i - 1 = i
    OBVIOUS
<1>. QED BY <1>2, <1>3, Piece DEF Take

LEMMA DropIsRest ==
    ASSUME NEW s \in Seq(Symbols), NEW n \in 0..Len(s)
    PROVE  /\ Drop(s, n) \in Seq(Symbols) /\ Len(Drop(s, n)) = Len(s) - n
           /\ \A i \in 1..(Len(s) - n) : Drop(s, n)[i] = s[n + i]
<1>1. Len(s) \in Nat
    BY LenProperties
<1>2. n + 1 \in 1..(Len(s) + 1) /\ Len(s) \in ((n + 1) - 1)..Len(s) /\ Len(s) - (n + 1) + 1 = Len(s) - n
    BY <1>1
<1>3. \A i \in 1..(Len(s) - n) : (n + 1) + i - 1 = n + i
    BY <1>1
<1>4. \A i \in 1..(Len(s) - n) : SubSeq(s, n + 1, Len(s))[i] = s[(n + 1) + i - 1]
    BY <1>2, Piece
<1>. QED BY <1>2, <1>3, <1>4, Piece DEF Drop

\* Until() stops at the first of the stops.
LEMMA UntilStops ==
    ASSUME NEW s \in Seq(Symbols), NEW stops
    PROVE  /\ Until(s, stops) \in 0..Len(s)
           /\ \A i \in 1..Until(s, stops) : s[i] \notin stops
           /\ Until(s, stops) < Len(s) => s[Until(s, stops) + 1] \in stops
<1>. DEFINE I == {i \in 1..Len(s) : s[i] \in stops}
<1>1. Len(s) \in Nat
    BY LenProperties
<1>2. Until(s, stops) = IF I = {} THEN Len(s) ELSE Min(I) - 1
    <2>1. Until(s, stops) = LET i == IF I # {} THEN Min(I) ELSE 0
                            IN  IF i = 0 THEN Len(s) ELSE i - 1
        BY DEF Until, SelectInSeq
    <2>2. I # {} => Min(I) \in I
        <3>1. I \subseteq Nat
            OBVIOUS
        <3>. HIDE DEF I
        <3>. QED BY <3>1, MinIsLeast
    <2>3. I # {} => Min(I) # 0
        BY <2>2
    <2>. HIDE DEF I
    <2>. QED BY <2>1, <2>3
<1>3. CASE I = {}
    BY <1>1, <1>2, <1>3
<1>4. CASE I # {}
    <2>1. I \subseteq Nat
        OBVIOUS
    <2>2. Min(I) \in I /\ \A i \in I : Min(I) <= i
        <3>. HIDE DEF I
        <3>. QED BY <1>4, <2>1, MinIsLeast
    <2>3. PICK m \in I : m = Min(I)
        BY <2>2
    <2>4. Until(s, stops) = m - 1
        <3>. HIDE DEF I
        <3>. QED BY <1>2, <1>4, <2>3
    <2>5. m \in 1..Len(s) /\ s[m] \in stops
        BY <2>3
    <2>6. m - 1 \in 0..Len(s) /\ (m - 1) + 1 = m
        BY <1>1, <2>5
    <2>7. ASSUME NEW i \in 1..(m - 1), s[i] \in stops
          PROVE  FALSE
        <3>1. i \in I
            BY <1>1, <2>5, <2>7
        <3>2. m <= i
            <4>. HIDE DEF I
            <4>. QED BY <2>2, <2>3, <3>1
        <3>. QED BY <2>5, <3>2
    <2>. HIDE DEF I
    <2>. QED BY <2>4, <2>5, <2>6, <2>7
<1>. QED BY <1>3, <1>4

\* There is no other number like that.
LEMMA UntilIs ==
    ASSUME NEW s \in Seq(Symbols), NEW stops, NEW n \in 0..Len(s),
           \A i \in 1..n : s[i] \notin stops, n < Len(s) => s[n + 1] \in stops
    PROVE  Until(s, stops) = n
<1>. DEFINE u == Until(s, stops)
<1>1. /\ u \in 0..Len(s) /\ Len(s) \in Nat
      /\ \A i \in 1..u : s[i] \notin stops
      /\ u < Len(s) => s[u + 1] \in stops
    BY UntilStops, LenProperties
<1>. HIDE DEF u
<1>2. ~(u < n)
    <2>1. u < n => u + 1 \in 1..n /\ u < Len(s)
        BY <1>1
    <2>. QED BY <1>1, <2>1
<1>3. ~(n < u)
    <2>1. n < u => n + 1 \in 1..u /\ n < Len(s)
        BY <1>1
    <2>. QED BY <1>1, <2>1
<1>4. u = n
    BY <1>1, <1>2, <1>3
<1>. QED BY <1>4 DEF u

\* The word at i reaches to the next blank.
LEMMA WordReaches ==
    ASSUME NEW s \in Seq(Symbols), NEW i \in 1..(Len(s) + 1)
    PROVE  /\ WordAt(s, i) \in Seq(Symbols) /\ Len(WordAt(s, i)) \in 0..(Len(s) - i + 1)
           /\ \A j \in 1..Len(WordAt(s, i)) : WordAt(s, i)[j] = s[i + j - 1] /\ s[i + j - 1] \notin Blanks
           /\ i + Len(WordAt(s, i)) <= Len(s) => s[i + Len(WordAt(s, i))] \in Blanks
<1>. DEFINE d == Drop(s, i - 1)
            n == Until(d, Blanks)
<1>1. Len(s) \in Nat /\ i - 1 \in 0..Len(s) /\ Len(s) - (i - 1) = Len(s) - i + 1
    BY LenProperties
<1>2. d \in Seq(Symbols) /\ Len(d) = Len(s) - i + 1 /\ \A j \in 1..Len(d) : d[j] = s[i - 1 + j]
    BY <1>1, DropIsRest
<1>. HIDE DEF d
<1>3. n \in 0..Len(d) /\ (\A j \in 1..n : d[j] \notin Blanks) /\ (n < Len(d) => d[n + 1] \in Blanks)
    BY <1>2, UntilStops
<1>. HIDE DEF n
<1>a. i \in Nat /\ n \in Nat /\ Len(d) \in Nat
    <2>1. i \in Nat
        BY <1>1
    <2>2. Len(d) \in Nat
        BY <1>2, LenProperties
    <2>3. n \in Nat
        BY <1>3, <2>2
    <2>. QED BY <2>1, <2>2, <2>3
<1>4. Take(d, n) \in Seq(Symbols) /\ Len(Take(d, n)) = n /\ \A j \in 1..n : Take(d, n)[j] = d[j]
    BY <1>2, <1>3, TakeIsBeginning
<1>5. WordAt(s, i) = Take(d, n)
    BY DEF WordAt, d, n
<1>6. ASSUME NEW j \in 1..n
      PROVE  WordAt(s, i)[j] = s[i + j - 1] /\ s[i + j - 1] \notin Blanks
    <2>1. j \in 1..Len(d) /\ i - 1 + j = i + j - 1
        BY <1>3, <1>a
    <2>2. d[j] = s[i + j - 1] /\ d[j] \notin Blanks
        BY <1>2, <1>3, <2>1
    <2>3. WordAt(s, i)[j] = d[j]
        BY <1>4, <1>5
    <2>. QED BY <2>2, <2>3
<1>7. ASSUME i + n <= Len(s)
      PROVE  s[i + n] \in Blanks
    <2>0. Len(d) = Len(s) - i + 1
        BY <1>2
    <2>1. n < Len(d) /\ n + 1 \in 1..Len(d) /\ i - 1 + (n + 1) = i + n
        BY <1>1, <1>a, <1>7, <2>0
    <2>2. d[n + 1] = s[i + n]
        BY <1>2, <2>1
    <2>. QED BY <1>3, <2>1, <2>2
<1>. QED BY <1>2, <1>3, <1>4, <1>5, <1>6, <1>7

\* The first word.
LEMMA FirstWord ==
    ASSUME NEW s \in Seq(Symbols)
    PROVE  /\ WordAt(s, 1) \in Seq(Symbols) /\ Len(WordAt(s, 1)) \in 0..Len(s)
           /\ \A j \in 1..Len(WordAt(s, 1)) : WordAt(s, 1)[j] = s[j] /\ s[j] \notin Blanks
           /\ Len(WordAt(s, 1)) < Len(s) => s[Len(WordAt(s, 1)) + 1] \in Blanks
<1>. DEFINE w == WordAt(s, 1)
<1>1. Len(s) \in Nat /\ 1 \in 1..(Len(s) + 1)
    BY LenProperties
<1>2. /\ w \in Seq(Symbols) /\ Len(w) \in 0..(Len(s) - 1 + 1)
      /\ \A j \in 1..Len(w) : w[j] = s[1 + j - 1] /\ s[1 + j - 1] \notin Blanks
      /\ 1 + Len(w) <= Len(s) => s[1 + Len(w)] \in Blanks
    BY <1>1, WordReaches
<1>. HIDE DEF w
<1>3. Len(w) \in Nat
    BY <1>2, LenProperties
<1>4. Len(s) - 1 + 1 = Len(s) /\ (Len(w) < Len(s) => 1 + Len(w) <= Len(s)) /\ 1 + Len(w) = Len(w) + 1
    BY <1>1, <1>3
<1>5. \A j \in 1..Len(w) : 1 + j - 1 = j
    BY <1>3
<1>6. w \in Seq(Symbols) /\ Len(w) \in 0..Len(s)
    BY <1>2, <1>4
<1>7. \A j \in 1..Len(w) : w[j] = s[j] /\ s[j] \notin Blanks
    BY <1>2, <1>5
<1>8. Len(w) < Len(s) => s[Len(w) + 1] \in Blanks
    BY <1>2, <1>4
<1>. QED BY <1>6, <1>7, <1>8 DEF w

LEMMA WordIs ==
    ASSUME NEW s \in Seq(Symbols), NEW w \in Seq(Symbols), NEW i \in 1..(Len(s) + 1),
           i + Len(w) - 1 <= Len(s),
           \A j \in 1..Len(w) : s[i + j - 1] = w[j] /\ w[j] \notin Blanks,
           i + Len(w) <= Len(s) => s[i + Len(w)] \in Blanks
    PROVE  WordAt(s, i) = w
<1>. DEFINE v == WordAt(s, i)
<1>1. Len(s) \in Nat /\ Len(w) \in Nat
    BY LenProperties
<1>2. /\ v \in Seq(Symbols) /\ Len(v) \in 0..(Len(s) - i + 1)
      /\ \A j \in 1..Len(v) : v[j] = s[i + j - 1] /\ s[i + j - 1] \notin Blanks
      /\ i + Len(v) <= Len(s) => s[i + Len(v)] \in Blanks
    BY WordReaches
<1>a. i \in Nat /\ Len(v) \in Nat
    <2>1. i \in Nat
        BY <1>1
    <2>2. Len(v) \in Nat
        BY <1>2, LenProperties
    <2>. QED BY <2>1, <2>2
<1>. HIDE DEF v
<1>3. ~(Len(v) < Len(w))
    <2>1. SUFFICES ASSUME Len(v) < Len(w) PROVE FALSE
        OBVIOUS
    <2>2. Len(v) + 1 \in 1..Len(w) /\ i + (Len(v) + 1) - 1 = i + Len(v) /\ i + Len(v) <= Len(s)
        BY <1>1, <1>a, <2>1
    <2>. QED BY <1>2, <2>2
<1>4. ~(Len(w) < Len(v))
    <2>1. SUFFICES ASSUME Len(w) < Len(v) PROVE FALSE
        OBVIOUS
    <2>2. Len(w) + 1 \in 1..Len(v) /\ i + (Len(w) + 1) - 1 = i + Len(w) /\ i + Len(w) <= Len(s)
        <3>1. Len(v) <= Len(s) - i + 1
            BY <1>2
        <3>. QED BY <1>1, <1>a, <2>1, <3>1
    <2>. QED BY <1>2, <2>2
<1>5. Len(v) = Len(w)
    BY <1>1, <1>a, <1>3, <1>4
<1>6. v = w
    BY <1>2, <1>5, SeqEqual
<1>. QED BY <1>6 DEF v

LEMMA BlanksAreTwo ==
    "SP" \in Blanks /\ "TAB" \in Blanks /\ \A x \in Blanks : x # "SP" => x = "TAB"
BY DEF Blanks

\* What separates the parts of a line but for the blanks.
LEMMA MarksAreNotBlank ==
    /\ ":" \notin Blanks /\ "!" \notin Blanks /\ "@" \notin Blanks /\ "." \notin Blanks
    /\ Blanks \subseteq Separators
BY DEF Blanks, Separators

\* What comes before the first ' ' reaches to it.
LEMMA SpacelessReaches ==
    ASSUME NEW s \in Seq(Symbols)
    PROVE  /\ Spaceless(s) \in Seq(Symbols) /\ Len(Spaceless(s)) \in 0..Len(s)
           /\ Spaceless(s) = Take(s, Len(Spaceless(s)))
           /\ \A j \in 1..Len(Spaceless(s)) : Spaceless(s)[j] = s[j] /\ s[j] # "SP"
           /\ Len(Spaceless(s)) < Len(s) => s[Len(Spaceless(s)) + 1] = "SP"
<1>. DEFINE n == Until(s, {"SP"})
<1>1. n \in 0..Len(s) /\ (\A i \in 1..n : s[i] \notin {"SP"}) /\ (n < Len(s) => s[n + 1] \in {"SP"})
    BY UntilStops
<1>2. Spaceless(s) = Take(s, n)
    BY DEF Spaceless
<1>. HIDE DEF n
<1>3. Take(s, n) \in Seq(Symbols) /\ Len(Take(s, n)) = n /\ \A i \in 1..n : Take(s, n)[i] = s[i]
    BY <1>1, TakeIsBeginning
<1>. QED BY <1>1, <1>2, <1>3

\* Without a tab, it is the first word.
LEMMA SpacelessIsWord ==
    ASSUME NEW s \in Seq(Symbols), "TAB" \notin ToSet(Spaceless(s))
    PROVE  WordAt(s, 1) = Spaceless(s)
<1>. DEFINE w == Spaceless(s)
<1>1. /\ w \in Seq(Symbols) /\ Len(w) \in 0..Len(s)
      /\ \A j \in 1..Len(w) : w[j] = s[j] /\ s[j] # "SP"
      /\ Len(w) < Len(s) => s[Len(w) + 1] = "SP"
    BY SpacelessReaches
<1>2. "TAB" \notin ToSet(w)
    OBVIOUS
<1>. HIDE DEF w
<1>3. Len(s) \in Nat /\ Len(w) \in Nat /\ 1 \in 1..(Len(s) + 1)
    BY <1>1, LenProperties
<1>4. ASSUME NEW j \in 1..Len(w)
      PROVE  s[1 + j - 1] = w[j] /\ w[j] \notin Blanks
    <2>1. 1 + j - 1 = j
        BY <1>3
    <2>2. w[j] \in ToSet(w)
        BY <1>1, ToSetOfSeq
    <2>. QED BY <1>1, <1>2, <2>1, <2>2, BlanksAreTwo
<1>5. 1 + Len(w) - 1 <= Len(s) /\ (1 + Len(w) <= Len(s) => s[1 + Len(w)] \in Blanks)
    <2>1. 1 + Len(w) = Len(w) + 1 /\ (1 + Len(w) <= Len(s) => Len(w) < Len(s)) /\ 1 + Len(w) - 1 <= Len(s)
        BY <1>1, <1>3
    <2>. QED BY <1>1, <2>1, BlanksAreTwo
<1>6. WordAt(s, 1) = w
    BY <1>1, <1>3, <1>4, <1>5, WordIs
<1>. QED BY <1>6 DEF w

LEMMA SpacelessTail ==
    ASSUME NEW s \in Seq(Symbols), s # <<>>, s[1] # "SP"
    PROVE  Spaceless(Tail(s)) = Tail(Spaceless(s))
<1>. DEFINE t == Tail(s)
            w == Spaceless(s)
            v == Spaceless(t)
<1>1. Len(s) \in Nat \ {0} /\ t \in Seq(Symbols) /\ Len(t) = Len(s) - 1 /\ \A j \in 1..Len(t) : t[j] = s[j + 1]
    BY HeadTailProperties, EmptySeq
<1>2. /\ w \in Seq(Symbols) /\ Len(w) \in 0..Len(s)
      /\ \A j \in 1..Len(w) : w[j] = s[j] /\ s[j] # "SP"
      /\ Len(w) < Len(s) => s[Len(w) + 1] = "SP"
    BY SpacelessReaches
<1>. HIDE DEF t, w
<1>3. /\ v \in Seq(Symbols) /\ Len(v) \in 0..Len(t)
      /\ \A j \in 1..Len(v) : v[j] = t[j] /\ t[j] # "SP"
      /\ Len(v) < Len(t) => t[Len(v) + 1] = "SP"
    BY <1>1, SpacelessReaches
<1>. HIDE DEF v
<1>4. w # <<>> /\ Len(w) \in Nat \ {0}
    <2>1. Len(w) # 0
        BY <1>1, <1>2
    <2>2. Len(<<>>) = 0
        BY EmptySeq
    <2>. QED BY <1>1, <1>2, <2>1, <2>2
<1>5. Tail(w) \in Seq(Symbols) /\ Len(Tail(w)) = Len(w) - 1 /\ \A j \in 1..Len(Tail(w)) : Tail(w)[j] = w[j + 1]
    BY <1>2, <1>4, HeadTailProperties
<1>6. ~(Len(v) < Len(w) - 1)
    <2>1. Len(v) < Len(w) - 1 => /\ Len(v) < Len(t) /\ Len(v) + 1 \in 1..Len(t)
                                 /\ (Len(v) + 1) + 1 \in 1..Len(w)
        BY <1>1, <1>2, <1>3, <1>4
    <2>. QED BY <1>1, <1>2, <1>3, <2>1
<1>7. ~(Len(w) - 1 < Len(v))
    <2>1. Len(w) - 1 < Len(v) => /\ Len(w) < Len(s) /\ Len(w) \in 1..Len(v) /\ Len(w) \in 1..Len(t)
        BY <1>1, <1>2, <1>3, <1>4
    <2>. QED BY <1>1, <1>2, <1>3, <2>1
<1>8. Len(v) = Len(Tail(w))
    <2>1. Len(v) \in Nat /\ Len(w) - 1 \in Nat
        BY <1>1, <1>3, <1>4
    <2>2. Len(v) = Len(w) - 1
        BY <1>6, <1>7, <2>1
    <2>. QED BY <1>5, <2>2
<1>9. ASSUME NEW j \in 1..Len(v)
      PROVE  v[j] = Tail(w)[j]
    <2>1. j \in 1..Len(t) /\ j \in 1..Len(Tail(w)) /\ j + 1 \in 1..Len(w)
        BY <1>1, <1>3, <1>4, <1>5, <1>8
    <2>. QED BY <1>1, <1>2, <1>3, <1>5, <2>1
<1>10. v = Tail(w)
    BY <1>3, <1>5, <1>8, <1>9, SeqEqual
<1>. QED BY <1>10 DEF v, w, t

\* What a command is made of separates nothing.
LEMMA CommandsAreWords ==
    ASSUME ClassesAssumption, NEW w \in Seq(Symbols), IsCommand(w)
    PROVE  /\ Len(w) \in Nat \ {0}
           /\ \A j \in 1..Len(w) : w[j] \in Alphabetic \cup Digits /\ w[j] \notin Separators
<1>1. Len(w) \in Nat \ {0}
    BY EmptySeq DEF IsCommand
<1>2. ToSet(w) \subseteq Alphabetic \cup Digits
    BY DEF IsCommand
<1>3. \A j \in 1..Len(w) : w[j] \in ToSet(w)
    BY ToSetOfSeq
<1>4. \A x \in Alphabetic \cup Digits : x \notin Separators
    BY DEF ClassesAssumption
<1>. QED BY <1>1, <1>2, <1>3, <1>4

LEMMA SkipSpaceSkips ==
    ASSUME NEW s \in Seq(Symbols)
    PROVE  \E n \in 0..Len(s) :
              /\ skipSpace(s) = Drop(s, n) /\ \A i \in 1..n : s[i] \in Blanks
              /\ n < Len(s) => s[n + 1] \notin Blanks
<1>. DEFINE I == {i \in 1..Len(s) : s[i] \notin Blanks}
<1>1. Len(s) \in Nat
    BY LenProperties
<1>2. skipSpace(s) = LET i == IF I # {} THEN Min(I) ELSE 0
                     IN  IF i = 0 THEN <<>> ELSE Drop(s, i - 1)
    BY DEF skipSpace, SelectInSeq
<1>3. CASE I = {}
    <2>1. skipSpace(s) = <<>>
        BY <1>2, <1>3
    <2>2. Drop(s, Len(s)) = <<>>
        BY <1>1, SubSeqEmpty DEF Drop
    <2>3. \A i \in 1..Len(s) : s[i] \in Blanks
        BY <1>3
    <2>4. Len(s) \in 0..Len(s) /\ ~(Len(s) < Len(s))
        BY <1>1
    <2>. QED BY <2>1, <2>2, <2>3, <2>4
<1>4. CASE I # {}
    <2>1. I \subseteq Nat
        OBVIOUS
    <2>2. Min(I) \in I /\ \A i \in I : Min(I) <= i
        <3>. HIDE DEF I
        <3>. QED BY <1>4, <2>1, MinIsLeast
    <2>3. PICK m \in I : m = Min(I)
        BY <2>2
    <2>4. m \in 1..Len(s) /\ s[m] \notin Blanks
        BY <2>3
    <2>5. skipSpace(s) = Drop(s, m - 1)
        <3>1. m # 0
            BY <1>1, <2>4
        <3>. HIDE DEF I
        <3>. QED BY <1>2, <1>4, <2>3, <3>1
    <2>6. m - 1 \in 0..Len(s) /\ (m - 1) + 1 = m
        BY <1>1, <2>4
    <2>7. ASSUME NEW i \in 1..(m - 1), s[i] \notin Blanks
          PROVE  FALSE
        <3>1. i \in I
            BY <1>1, <2>4, <2>7
        <3>2. m <= i
            <4>. HIDE DEF I
            <4>. QED BY <2>2, <2>3, <3>1
        <3>. QED BY <2>4, <3>2
    <2>. HIDE DEF I
    <2>. QED BY <2>4, <2>5, <2>6, <2>7
<1>. QED BY <1>3, <1>4

\* There is nothing to skip where a word begins.
LEMMA SkipSpaceSkipsNothing ==
    ASSUME NEW s \in Seq(Symbols), s # <<>>, s[1] \notin Blanks
    PROVE  skipSpace(s) = s
<1>1. PICK n \in 0..Len(s) :
         /\ skipSpace(s) = Drop(s, n) /\ \A i \in 1..n : s[i] \in Blanks
         /\ n < Len(s) => s[n + 1] \notin Blanks
    BY SkipSpaceSkips
<1>2. Len(s) \in Nat
    BY LenProperties
<1>3. n = 0
    <2>1. n # 0 => 1 \in 1..n
        BY <1>2
    <2>. QED BY <1>1, <2>1
<1>4. Drop(s, 0) = s
    BY SubSeqFull DEF Drop
<1>. QED BY <1>1, <1>3, <1>4

\* How many there are to skip.
LEMMA SkipSpaceIs ==
    ASSUME NEW s \in Seq(Symbols), NEW n \in 0..Len(s), n < Len(s), s[n + 1] \notin Blanks,
           \A i \in 1..n : s[i] \in Blanks
    PROVE  skipSpace(s) = Drop(s, n)
<1>1. PICK m \in 0..Len(s) :
         /\ skipSpace(s) = Drop(s, m) /\ \A i \in 1..m : s[i] \in Blanks
         /\ m < Len(s) => s[m + 1] \notin Blanks
    BY SkipSpaceSkips
<1>2. Len(s) \in Nat
    BY LenProperties
<1>3. ~(m < n)
    <2>1. m < n => m + 1 \in 1..n /\ m < Len(s)
        BY <1>2
    <2>. QED BY <1>1, <2>1
<1>4. ~(n < m)
    <2>1. n < m => n + 1 \in 1..m
        BY <1>2
    <2>. QED BY <1>1, <2>1
<1>5. m = n
    BY <1>2, <1>3, <1>4
<1>. QED BY <1>1, <1>5

\* What is left of what is left.
LEMMA DropTwice ==
    ASSUME NEW s \in Seq(Symbols), NEW a \in 0..Len(s), NEW n \in a..Len(s)
    PROVE  Drop(Drop(s, a), n - a) = Drop(s, n)
<1>. DEFINE d == Drop(s, a)
<1>1. Len(s) \in Nat
    BY LenProperties
<1>2. d \in Seq(Symbols) /\ Len(d) = Len(s) - a /\ \A i \in 1..(Len(s) - a) : d[i] = s[a + i]
    BY DropIsRest
<1>. HIDE DEF d
<1>3. n \in 0..Len(s) /\ n - a \in 0..Len(d) /\ Len(d) - (n - a) = Len(s) - n
    BY <1>1, <1>2
<1>4. /\ Drop(d, n - a) \in Seq(Symbols) /\ Len(Drop(d, n - a)) = Len(d) - (n - a)
      /\ \A i \in 1..(Len(d) - (n - a)) : Drop(d, n - a)[i] = d[(n - a) + i]
    BY <1>2, <1>3, DropIsRest
<1>5. /\ Drop(s, n) \in Seq(Symbols) /\ Len(Drop(s, n)) = Len(s) - n
      /\ \A i \in 1..(Len(s) - n) : Drop(s, n)[i] = s[n + i]
    BY <1>3, DropIsRest
<1>6. ASSUME NEW i \in 1..(Len(s) - n)
      PROVE  Drop(d, n - a)[i] = Drop(s, n)[i]
    <2>1. (n - a) + i \in 1..(Len(s) - a) /\ a + ((n - a) + i) = n + i
        BY <1>1
    <2>2. d[(n - a) + i] = s[n + i]
        BY <1>2, <2>1
    <2>3. i \in 1..(Len(d) - (n - a))
        BY <1>3
    <2>. QED BY <1>4, <1>5, <2>2, <2>3
<1>7. Drop(d, n - a) = Drop(s, n)
    BY <1>3, <1>4, <1>5, <1>6, SeqEqual
<1>. QED BY <1>7 DEF d

-----------------------------------------------------------------------------
(* The lines of the RFC.                                                   *)

\* A prefix of the RFC before a blank is taken off the line.
LEMMA RFCPrefixParses ==
    ASSUME ClassesAssumption, NEW s \in Seq(Symbols), NEW w, w = WordAt(s, 1),
           w = Spaceless(s), RFCPrefix(w), Len(w) < Len(s)
    PROVE  parsePrefix(s).is = "prefix" /\ parsePrefix(s).rest = Drop(s, Len(w))
<1>1. Len(s) \in Nat
    BY LenProperties
<1>2. /\ w \in Seq(Symbols) /\ Len(w) \in 0..Len(s)
      /\ \A j \in 1..Len(w) : w[j] = s[j] /\ s[j] \notin Blanks
      /\ s[Len(w) + 1] \in Blanks
    BY FirstWord
<1>3. HostEnd(s) = Len(w)
    <2>1. \A j \in 1..Len(w) : s[j] \notin Blanks
        BY <1>2
    <2>. QED BY <1>2, <2>1, UntilIs DEF HostEnd
<1>4. CASE ~IsNick(s)
    BY <1>3, <1>4 DEF parsePrefix
<1>5. CASE IsNick(s)
    <2>1. PICK n \in 1..Len(w) :
             /\ ToSet(Take(w, n)) \subseteq Alphabetic \cup Digits \cup Specials
             /\ \E u \in n..Len(w) :
                  /\ u > n => w[n + 1] = "!" /\ u > n + 1 /\ "@" \notin ToSet(SubSeq(w, n + 2, u))
                  /\ u < Len(w) => w[u + 1] = "@" /\ u + 1 < Len(w)
        BY <1>5 DEF RFCPrefix, IsNick
    <2>2. PICK u \in n..Len(w) :
             /\ u > n => w[n + 1] = "!" /\ u > n + 1 /\ "@" \notin ToSet(SubSeq(w, n + 2, u))
             /\ u < Len(w) => w[u + 1] = "@" /\ u + 1 < Len(w)
        BY <2>1
    <2>3. n \in Nat \ {0} /\ u \in Nat /\ n <= u /\ u <= Len(w) /\ Len(w) \in Nat /\ Len(w) < Len(s)
        BY <1>1, <1>2
    <2>4. Take(s, n) = Take(w, n)
        <3>1. /\ Take(s, n) \in Seq(Symbols) /\ Len(Take(s, n)) = n /\ \A i \in 1..n : Take(s, n)[i] = s[i]
              /\ Take(w, n) \in Seq(Symbols) /\ Len(Take(w, n)) = n /\ \A i \in 1..n : Take(w, n)[i] = w[i]
            <4>1. n \in 0..Len(s) /\ n \in 0..Len(w)
                BY <1>1, <2>3
            <4>. QED BY <1>2, <4>1, TakeIsBeginning
        <3>2. \A i \in 1..n : Take(s, n)[i] = Take(w, n)[i]
            BY <1>2, <2>3, <3>1
        <3>. QED BY <3>1, <3>2, SeqEqual
    <2>5. \A i \in 1..n : s[i] \notin Blanks \cup {"!", "@"}
        <3>1. \A i \in 1..n : s[i] \in ToSet(Take(s, n))
            <4>1. n \in 0..Len(s)
                BY <1>1, <2>3
            <4>2. /\ Take(s, n) \in Seq(Symbols) /\ Len(Take(s, n)) = n
                  /\ \A i \in 1..n : Take(s, n)[i] = s[i]
                BY <4>1, TakeIsBeginning
            <4>. QED BY <4>2, ToSetOfSeq
        <3>2. \A x \in Alphabetic \cup Digits \cup Specials : x \notin Blanks \cup {"!", "@"}
            BY DEF ClassesAssumption, Separators
        <3>. QED BY <2>1, <2>4, <3>1, <3>2
    <2>6. s[u + 1] \in Blanks \cup {"@"}
        <3>1. u < Len(w) => u + 1 \in 1..Len(w)
            BY <2>3
        <3>2. u < Len(w) => s[u + 1] = "@"
            BY <1>2, <2>2, <3>1
        <3>3. u = Len(w) => s[u + 1] \in Blanks
            BY <1>2
        <3>. QED BY <2>3, <3>2, <3>3
    <2>7. u > n => s[n + 1] = "!" /\ u > n + 1
        <3>1. u > n => n + 1 \in 1..Len(w)
            BY <2>3
        <3>. QED BY <1>2, <2>2, <3>1
    <2>8. u = n => s[n + 1] # "!"
        BY <2>6, MarksAreNotBlank
    <2>9. NickEnd(s) = n
        <3>1. s[n + 1] \in Blanks \cup {"!", "@"}
            BY <2>3, <2>6, <2>7
        <3>2. n \in 0..Len(s)
            BY <1>1, <2>3
        <3>. QED BY <2>5, <3>1, <3>2, UntilIs DEF NickEnd
    <2>10. UserEnd(s) = u
        <3>1. CASE u = n
            BY <2>8, <2>9, <3>1 DEF UserEnd
        <3>2. CASE u > n
            <4>. DEFINE d == Drop(s, n + 1)
            <4>1. n + 1 \in 0..Len(s) /\ Len(s) - (n + 1) \in Nat
                BY <1>1, <2>3
            <4>2. d \in Seq(Symbols) /\ Len(d) = Len(s) - (n + 1)
                  /\ \A i \in 1..(Len(s) - (n + 1)) : d[i] = s[(n + 1) + i]
                BY <4>1, DropIsRest
            <4>. HIDE DEF d
            <4>3. u - n - 1 \in 0..Len(d) /\ u - n - 1 < Len(d) /\ (u - n - 1) + 1 \in 1..(Len(s) - (n + 1))
                  /\ (n + 1) + ((u - n - 1) + 1) = u + 1
                <5>1. u > n + 1
                    BY <2>7, <3>2
                <5>. QED BY <1>1, <2>3, <4>2, <5>1
            <4>4. d[(u - n - 1) + 1] \in Blanks \cup {"@"}
                BY <2>6, <4>2, <4>3
            <4>5. ASSUME NEW i \in 1..(u - n - 1)
                  PROVE  d[i] \notin Blanks \cup {"@"}
                <5>1. i \in 1..(Len(s) - (n + 1)) /\ (n + 1) + i \in 1..Len(w)
                    BY <1>1, <2>3
                <5>2. d[i] = w[(n + 1) + i] /\ d[i] \notin Blanks
                    BY <1>2, <4>2, <5>1
                <5>3. w[(n + 1) + i] \in ToSet(SubSeq(w, n + 2, u))
                    <6>1. n + 2 \in 1..(Len(w) + 1) /\ u \in (n + 2 - 1)..Len(w)
                          /\ u - (n + 2) + 1 = u - n - 1
                        BY <2>3, <2>7, <3>2
                    <6>2. /\ SubSeq(w, n + 2, u) \in Seq(Symbols) /\ Len(SubSeq(w, n + 2, u)) = u - n - 1
                          /\ SubSeq(w, n + 2, u)[i] = w[n + 2 + i - 1]
                        <7>1. \A j \in 1..(u - (n + 2) + 1) : SubSeq(w, n + 2, u)[j] = w[n + 2 + j - 1]
                            BY <1>2, <6>1, Piece
                        <7>2. SubSeq(w, n + 2, u) \in Seq(Symbols) /\ Len(SubSeq(w, n + 2, u)) = u - (n + 2) + 1
                            BY <1>2, <6>1, Piece
                        <7>. QED BY <6>1, <7>1, <7>2
                    <6>3. n + 2 + i - 1 = (n + 1) + i
                        BY <2>3
                    <6>4. \A x : x \in ToSet(SubSeq(w, n + 2, u))
                                  <=> \E j \in 1..(u - n - 1) : SubSeq(w, n + 2, u)[j] = x
                        <7>. DEFINE v == SubSeq(w, n + 2, u)
                        <7>1. v \in Seq(Symbols) /\ Len(v) = u - n - 1
                            BY <6>2
                        <7>. HIDE DEF v
                        <7>2. \A x : x \in ToSet(v) <=> \E j \in 1..Len(v) : v[j] = x
                            BY <7>1, ToSetOfSeq
                        <7>3. \A x : x \in ToSet(v) <=> \E j \in 1..(u - n - 1) : v[j] = x
                            BY <7>1, <7>2
                        <7>. QED BY <7>3 DEF v
                    <6>. QED BY <6>2, <6>3, <6>4
                <5>. QED BY <2>2, <3>2, <5>2, <5>3
            <4>6. Until(d, Blanks \cup {"@"}) = u - n - 1
                <5>. DEFINE k == u - n - 1
                            stops == Blanks \cup {"@"}
                <5>1. d \in Seq(Symbols) /\ k \in 0..Len(d) /\ d[k + 1] \in stops
                    BY <4>2, <4>3, <4>4
                <5>2. \A i \in 1..k : d[i] \notin stops
                    BY <4>5
                <5>. HIDE DEF k, stops
                <5>3. Until(d, stops) = k
                    BY <5>1, <5>2, UntilIs
                <5>. QED BY <5>3 DEF k, stops
            <4>7. NickEnd(s) + 1 + Until(Drop(s, NickEnd(s) + 1), Blanks \cup {"@"}) = u
                <5>1. n + 1 + (u - n - 1) = u
                    BY <2>3
                <5>. QED BY <2>9, <4>6, <5>1 DEF d
            <4>. QED BY <2>7, <2>9, <3>2, <4>7 DEF UserEnd
        <3>. QED BY <2>3, <3>1, <3>2
    <2>11. NickEnd(s) # 0 /\ NickEnd(s) # Len(s) /\ UserEnd(s) # Len(s)
        BY <1>1, <2>3, <2>9, <2>10
    <2>12. ToSet(Take(s, NickEnd(s))) \subseteq Alphabetic \cup Digits \cup Specials
        BY <2>1, <2>4, <2>9
    <2>13. ~(s[NickEnd(s) + 1] = "!" /\ UserEnd(s) = NickEnd(s) + 1)
        BY <2>3, <2>7, <2>8, <2>9, <2>10
    <2>. QED BY <1>3, <1>5, <2>11, <2>12, <2>13 DEF parsePrefix
<1>. QED BY <1>4, <1>5

\* What RFCLine() says, in words as parseString() reads them.
ReadableLine(s) ==
    LET p == WordAt(s, 1)
    IN \/ IsCommand(p)
       \/ /\ First(s, ":") /\ p = Spaceless(s)
          /\ RFCPrefix(Tail(p)) /\ IsCommand(WordAt(skipSpace(Drop(s, Len(p))), 1))

\* A command has no tab in it.
LEMMA CommandsHaveNoTabs ==
    ASSUME ClassesAssumption, NEW s \in Seq(Symbols), IsCommand(Spaceless(s))
    PROVE  WordAt(s, 1) = Spaceless(s)
<1>. DEFINE w == Spaceless(s)
<1>1. w \in Seq(Symbols) /\ IsCommand(w)
    BY SpacelessReaches
<1>. HIDE DEF w
<1>2. \A j \in 1..Len(w) : w[j] \notin Separators
    BY <1>1, CommandsAreWords
<1>3. "TAB" \in Separators
    BY BlanksAreTwo, MarksAreNotBlank
<1>4. "TAB" \notin ToSet(w)
    BY <1>1, <1>2, <1>3, ToSetOfSeq
<1>5. "TAB" \notin ToSet(Spaceless(s))
    BY <1>4 DEF w
<1>. QED BY <1>5, SpacelessIsWord

LEMMA RFCLinesAreReadable ==
    ASSUME ClassesAssumption, NEW s \in Seq(Symbols), RFCLine(s), ~TabInPrefix(s)
    PROVE  ReadableLine(s)
<1>1. CASE IsCommand(Spaceless(s))
    <2>1. WordAt(s, 1) = Spaceless(s)
        BY <1>1, CommandsHaveNoTabs
    <2>. QED BY <1>1, <2>1 DEF ReadableLine
<1>2. CASE ~IsCommand(Spaceless(s))
    <2>. DEFINE p == Spaceless(s)
    <2>1. /\ First(s, ":") /\ RFCPrefix(Tail(p))
          /\ \E n \in Len(p) + 1..Len(s) :
                /\ ToSet(SubSeq(s, Len(p) + 1, n)) = {"SP"} /\ IsCommand(Spaceless(Drop(s, n)))
        BY <1>2 DEF RFCLine
    <2>2. WordAt(s, 1) = p
        <3>1. "TAB" \notin ToSet(Spaceless(s))
            BY <2>1 DEF TabInPrefix
        <3>. QED BY <3>1, SpacelessIsWord
    <2>3. p \in Seq(Symbols) /\ Len(p) \in 0..Len(s) /\ Len(s) \in Nat
        BY SpacelessReaches, LenProperties
    <2>. HIDE DEF p
    <2>4. PICK n \in Len(p) + 1..Len(s) :
             ToSet(SubSeq(s, Len(p) + 1, n)) = {"SP"} /\ IsCommand(Spaceless(Drop(s, n)))
        BY <2>1
    <2>5. n \in Nat /\ Len(p) < n /\ n <= Len(s) /\ Len(p) \in Nat
        BY <2>3
    <2>. DEFINE d == Drop(s, Len(p))
                r == Drop(s, n)
                k == n - Len(p)
    <2>6. d \in Seq(Symbols) /\ Len(d) = Len(s) - Len(p) /\ \A i \in 1..(Len(s) - Len(p)) : d[i] = s[Len(p) + i]
        BY <2>3, DropIsRest
    <2>7. r \in Seq(Symbols) /\ Len(r) = Len(s) - n /\ \A i \in 1..(Len(s) - n) : r[i] = s[n + i]
        <3>1. n \in 0..Len(s)
            BY <2>3, <2>5
        <3>. QED BY <3>1, DropIsRest
    <2>8. Drop(d, k) = r
        <3>1. n \in Len(p)..Len(s)
            BY <2>3, <2>5
        <3>. QED BY <2>3, <3>1, DropTwice
    <2>9. IsCommand(Spaceless(r))
        BY <2>4
    <2>. HIDE DEF d, r
    <2>10. WordAt(r, 1) = Spaceless(r)
        BY <2>7, <2>9, CommandsHaveNoTabs
    <2>. DEFINE c == WordAt(r, 1)
    <2>11. /\ c \in Seq(Symbols) /\ Len(c) \in 0..Len(r)
           /\ \A j \in 1..Len(c) : c[j] = r[j] /\ r[j] \notin Blanks
        BY <2>7, FirstWord
    <2>12. IsCommand(c)
        BY <2>9, <2>10
    <2>. HIDE DEF c
    <2>13. Len(c) \in Nat \ {0}
        BY <2>11, <2>12, CommandsAreWords
    <2>14. 1 \in 1..Len(c) /\ 1 \in 1..(Len(s) - n) /\ k + 1 \in 1..(Len(s) - Len(p)) /\ Len(p) + (k + 1) = n + 1
           /\ k \in 0..Len(d) /\ k < Len(d) /\ k \in Nat
        BY <2>3, <2>5, <2>6, <2>7, <2>11, <2>13
    <2>15. d[k + 1] \notin Blanks
        <3>1. d[k + 1] = s[n + 1]
            <4>. DEFINE i == k + 1
            <4>1. i \in 1..(Len(s) - Len(p)) /\ Len(p) + i = n + 1
                BY <2>14
            <4>. HIDE DEF i
            <4>2. d[i] = s[Len(p) + i]
                BY <2>6, <4>1
            <4>. QED BY <4>1, <4>2 DEF i
        <3>2. r[1] = s[n + 1]
            BY <2>7, <2>14
        <3>3. r[1] \notin Blanks
            BY <2>11, <2>14
        <3>. QED BY <3>1, <3>2, <3>3
    <2>16. ASSUME NEW i \in 1..k
           PROVE  d[i] \in Blanks
        <3>1. i \in 1..(Len(s) - Len(p)) /\ (Len(p) + 1) + i - 1 = Len(p) + i
            BY <2>3, <2>5
        <3>2. Len(p) + 1 \in 1..(Len(s) + 1) /\ n \in (Len(p) + 1 - 1)..Len(s) /\ n - (Len(p) + 1) + 1 = k
            BY <2>3, <2>5
        <3>. DEFINE v == SubSeq(s, Len(p) + 1, n)
        <3>3. v \in Seq(Symbols) /\ Len(v) = n - (Len(p) + 1) + 1
              /\ \A j \in 1..(n - (Len(p) + 1) + 1) : v[j] = s[(Len(p) + 1) + j - 1]
            BY <3>2, Piece
        <3>4. ToSet(v) = {"SP"}
            BY <2>4
        <3>. HIDE DEF v, k
        <3>5. v \in Seq(Symbols) /\ i \in 1..Len(v) /\ v[i] = s[Len(p) + i]
            BY <3>1, <3>2, <3>3
        <3>6. v[i] \in ToSet(v)
            BY <3>5, ToSetOfSeq
        <3>. QED BY <2>6, <3>1, <3>4, <3>5, <3>6, BlanksAreTwo
    <2>. HIDE DEF k
    <2>17. skipSpace(d) = r
        BY <2>6, <2>8, <2>14, <2>15, <2>16, SkipSpaceIs
    <2>18. IsCommand(WordAt(skipSpace(Drop(s, Len(p))), 1))
        BY <2>12, <2>17 DEF c, d
    <2>19. p = Spaceless(s)
        BY DEF p
    <2>. QED BY <2>1, <2>2, <2>18, <2>19 DEF ReadableLine
<1>. QED BY <1>1, <1>2

\* RawParser takes every line the RFC has but for those with a tab in the prefix, the
\* shortest and the longest, whatever letters, digits and other characters there are.
LEMMA EveryRFCLineParses ==
    ASSUME ClassesAssumption, NEW s \in Seq(Symbols), RFCLine(s), ~TabInPrefix(s)
    PROVE  parseString(s).is = "message"
<1>1. Len(s) \in Nat /\ 1 \in 1..(Len(s) + 1)
    BY LenProperties
<1>. DEFINE p == WordAt(s, 1)
<1>2. /\ p \in Seq(Symbols) /\ Len(p) \in 0..Len(s)
      /\ \A j \in 1..Len(p) : p[j] = s[j] /\ s[j] \notin Blanks
      /\ Len(p) < Len(s) => s[Len(p) + 1] \in Blanks
    BY <1>1, FirstWord
<1>. HIDE DEF p
<1>3. Len(p) \in Nat
    BY <1>2, LenProperties
<1>4. \A prefix, t : IsCommand(WordAt(t, 1)) => parseCommand(prefix, t).is = "message"
    BY DEF parseCommand, RawMessage
<1>5. CASE IsCommand(p)
    <2>1. Len(p) \in Nat \ {0} /\ p[1] \notin Separators
        <3>1. Len(p) \in Nat \ {0} /\ \A j \in 1..Len(p) : p[j] \notin Separators
            BY <1>2, <1>5, CommandsAreWords
        <3>2. 1 \in 1..Len(p)
            BY <3>1
        <3>. QED BY <3>1, <3>2
    <2>2. 1 \in 1..Len(p) /\ s[1] = p[1] /\ s # <<>>
        <3>1. 1 \in 1..Len(p) /\ 1 \in 1..Len(s)
            BY <1>1, <1>2, <2>1
        <3>2. Len(<<>>) = 0
            BY EmptySeq
        <3>. QED BY <1>2, <3>1, <3>2
    <2>3. s[1] \notin Blanks /\ s[1] # ":"
        BY <2>1, <2>2, MarksAreNotBlank DEF Separators
    <2>4. skipSpace(s) = s
        BY <2>2, <2>3, SkipSpaceSkipsNothing
    <2>5. Head(s) = s[1]
        BY <2>2
    <2>6. ~First(s, ":")
        BY <2>3, <2>5 DEF First
    <2>. QED BY <1>4, <1>5, <2>4, <2>6 DEF parseString, p
<1>6. CASE /\ First(s, ":") /\ p = Spaceless(s)
           /\ RFCPrefix(Tail(p)) /\ IsCommand(WordAt(skipSpace(Drop(s, Len(p))), 1))
    <2>1. s # <<>> /\ s[1] = ":" /\ Len(s) \in Nat \ {0}
        <3>1. s # <<>> /\ Head(s) = ":"
            BY <1>6 DEF First
        <3>2. Head(s) = s[1]
            BY <3>1
        <3>. QED BY <3>1, <3>2, EmptySeq
    <2>2. Len(p) # 0
        <3>1. Len(p) = 0 => Len(p) < Len(s) /\ Len(p) + 1 = 1
            BY <2>1
        <3>. QED BY <1>2, <2>1, <3>1, MarksAreNotBlank
    <2>. DEFINE t == Tail(s)
                w == Tail(p)
    <2>3. t \in Seq(Symbols) /\ Len(t) = Len(s) - 1 /\ \A j \in 1..Len(t) : t[j] = s[j + 1]
        BY <2>1, HeadTailProperties
    <2>4. w \in Seq(Symbols) /\ Len(w) = Len(p) - 1 /\ \A j \in 1..Len(w) : w[j] = p[j + 1]
        <3>1. p # <<>>
            BY <2>2, EmptySeq
        <3>. QED BY <1>2, <3>1, HeadTailProperties
    <2>. HIDE DEF t, w
    <2>5. WordAt(t, 1) = w
        <3>1. ASSUME NEW j \in 1..Len(w)
              PROVE  t[1 + j - 1] = w[j] /\ w[j] \notin Blanks
            <4>1. j + 1 \in 1..Len(p) /\ j \in 1..Len(t) /\ 1 + j - 1 = j
                BY <1>1, <1>2, <1>3, <2>2, <2>3, <2>4
            <4>. QED BY <1>2, <2>3, <2>4, <4>1
        <3>2. ASSUME 1 + Len(w) <= Len(t)
              PROVE  t[1 + Len(w)] \in Blanks
            <4>1. 1 + Len(w) \in 1..Len(t) /\ (1 + Len(w)) + 1 = Len(p) + 1 /\ Len(p) < Len(s)
                BY <1>1, <1>3, <2>1, <2>2, <2>3, <2>4, <3>2
            <4>. QED BY <1>2, <2>3, <4>1
        <3>3. 1 + Len(w) - 1 <= Len(t) /\ 1 \in 1..(Len(t) + 1)
            BY <1>1, <1>2, <1>3, <2>1, <2>2, <2>3, <2>4
        <3>. QED BY <2>3, <2>4, <3>1, <3>2, <3>3, WordIs
    <2>6. Drop(s, Len(p)) = Drop(t, Len(w))
        <3>1. Len(p) \in 0..Len(s) /\ Len(w) \in 0..Len(t) /\ Len(s) - Len(p) = Len(t) - Len(w)
            BY <1>1, <1>2, <1>3, <2>1, <2>2, <2>3, <2>4
        <3>2. /\ Drop(s, Len(p)) \in Seq(Symbols) /\ Len(Drop(s, Len(p))) = Len(s) - Len(p)
              /\ \A i \in 1..(Len(s) - Len(p)) : Drop(s, Len(p))[i] = s[Len(p) + i]
            BY <3>1, DropIsRest
        <3>3. /\ Drop(t, Len(w)) \in Seq(Symbols) /\ Len(Drop(t, Len(w))) = Len(t) - Len(w)
              /\ \A i \in 1..(Len(t) - Len(w)) : Drop(t, Len(w))[i] = t[Len(w) + i]
            BY <2>3, <3>1, DropIsRest
        <3>4. ASSUME NEW i \in 1..(Len(s) - Len(p))
              PROVE  Drop(s, Len(p))[i] = Drop(t, Len(w))[i]
            <4>1. Len(w) + i \in 1..Len(t) /\ (Len(w) + i) + 1 = Len(p) + i
                BY <1>1, <1>2, <1>3, <2>1, <2>2, <2>3, <2>4
            <4>2. t[Len(w) + i] = s[Len(p) + i]
                BY <2>3, <4>1
            <4>3. i \in 1..(Len(t) - Len(w))
                BY <3>1
            <4>. QED BY <3>2, <3>3, <4>2, <4>3
        <3>. QED BY <3>1, <3>2, <3>3, <3>4, SeqEqual
    <2>7. Len(w) < Len(t)
        <3>1. SUFFICES ASSUME ~(Len(w) < Len(t)) PROVE FALSE
            OBVIOUS
        <3>2. Len(p) = Len(s)
            BY <1>1, <1>2, <1>3, <2>1, <2>2, <2>3, <2>4, <3>1
        <3>3. Drop(s, Len(p)) = <<>>
            BY <1>1, <3>2, SubSeqEmpty DEF Drop
        <3>4. skipSpace(<<>>) = <<>>
            BY EmptySeq DEF skipSpace, SelectInSeq
        <3>5. WordAt(<<>>, 1) = <<>>
            <4>1. <<>> \in Seq(Symbols) /\ Len(<<>>) = 0
                BY EmptySeq
            <4>2. WordAt(<<>>, 1) \in Seq(Symbols) /\ Len(WordAt(<<>>, 1)) \in 0..Len(<<>>)
                BY <4>1, FirstWord
            <4>3. Len(WordAt(<<>>, 1)) = 0
                BY <4>1, <4>2
            <4>. QED BY <4>2, <4>3, EmptySeq
        <3>. QED BY <1>6, <3>3, <3>4, <3>5 DEF IsCommand
    <2>a. Spaceless(t) = w
        <3>1. s \in Seq(Symbols) /\ s # <<>> /\ s[1] # "SP"
            BY <2>1
        <3>2. Spaceless(Tail(s)) = Tail(Spaceless(s))
            BY <3>1, SpacelessTail
        <3>. QED BY <1>6, <3>2 DEF t, w
    <2>8. parsePrefix(t).is = "prefix" /\ parsePrefix(t).rest = Drop(t, Len(w))
        <3>1. RFCPrefix(w)
            BY <1>6 DEF w
        <3>. QED BY <2>3, <2>5, <2>7, <2>a, <3>1, RFCPrefixParses
    <2>9. parseString(s) = parseCommand(parsePrefix(t).prefix, skipSpace(Drop(s, Len(p))))
        BY <1>6, <2>6, <2>8 DEF parseString, t
    <2>. QED BY <1>4, <1>6, <2>9
<1>7. ReadableLine(s)
    BY RFCLinesAreReadable
<1>. QED BY <1>5, <1>6, <1>7 DEF ReadableLine, p

-----------------------------------------------------------------------------
(* Parameters.                                                             *)

LEMMA StartsAreIndices ==
    ASSUME NEW s \in Seq(Symbols)
    PROVE  /\ Len(s) \in Nat /\ Starts(s) \subseteq 1..Len(s) /\ Starts(s) \subseteq Nat
           /\ \A T : T \subseteq Starts(s) => T \subseteq Nat /\ IsFiniteSet(T)
<1>1. Len(s) \in Nat /\ DOMAIN s = 1..Len(s)
    BY LenProperties
<1>2. Starts(s) \subseteq 1..Len(s)
    BY <1>1 DEF Starts
<1>3. Starts(s) \subseteq Nat
    BY <1>1, <1>2
<1>4. IsFiniteSet(1..Len(s))
    BY <1>1, FS_Interval
<1>5. ASSUME NEW T, T \subseteq Starts(s)
      PROVE  IsFiniteSet(T)
    <2>1. T \in SUBSET (1..Len(s))
        BY <1>2, <1>5
    <2>. QED BY <1>4, <2>1, FS_Subset
<1>. QED BY <1>1, <1>2, <1>3, <1>5

\* The first word that begins with a colon, if there is one.
IsColon(s, c) ==
    /\ c \in 1..(Len(s) + 1)
    /\ c <= Len(s) => c \in Starts(s) /\ s[c] = ":"
    /\ \A i \in Starts(s) : i < c => s[i] # ":"

LEMMA ColonIsColon ==
    ASSUME NEW s \in Seq(Symbols)
    PROVE  IsColon(s, Colon(s)) /\ \A c : IsColon(s, c) => c = Colon(s)
<1>. DEFINE C == {i \in Starts(s) : s[i] = ":"}
<1>1. Len(s) \in Nat /\ Starts(s) \subseteq 1..Len(s) /\ Starts(s) \subseteq Nat
    BY StartsAreIndices
<1>2. C \subseteq Nat /\ C \subseteq 1..Len(s)
    BY <1>1
<1>3. Colon(s) = IF C = {} THEN Len(s) + 1 ELSE CHOOSE i \in C : \A j \in C : i <= j
    BY DEF Colon
<1>4. CASE C = {}
    <2>1. Colon(s) = Len(s) + 1
        BY <1>3, <1>4
    <2>2. \A i \in Starts(s) : s[i] # ":"
        BY <1>4
    <2>3. IsColon(s, Colon(s))
        BY <1>1, <2>1, <2>2 DEF IsColon
    <2>4. ASSUME NEW c, IsColon(s, c)
          PROVE  c = Colon(s)
        <3>1. c \in 1..(Len(s) + 1) /\ ~(c <= Len(s))
            BY <2>2, <2>4 DEF IsColon
        <3>. QED BY <1>1, <2>1, <3>1
    <2>. QED BY <2>3, <2>4
<1>5. CASE C # {}
    <2>1. PICK m \in C : \A j \in C : m <= j
        <3>. HIDE DEF C
        <3>. QED BY <1>2, <1>5, LeastNatural
    <2>2. \A i \in C : (\A j \in C : i <= j) => i = m
        <3>. HIDE DEF C
        <3>1. \A i \in C : i \in Nat
            BY <1>2
        <3>2. \A i \in C : m <= i
            BY <2>1
        <3>3. \A a, b \in Nat : a <= b /\ b <= a => a = b
            OBVIOUS
        <3>. QED BY <2>1, <3>1, <3>2, <3>3
    <2>3. Colon(s) = m
        <3>. HIDE DEF C
        <3>. QED BY <1>3, <1>5, <2>1, <2>2
    <2>4. m \in Starts(s) /\ s[m] = ":" /\ m \in 1..Len(s)
        BY <1>1
    <2>5. \A i \in Starts(s) : i < m => s[i] # ":"
        <3>1. SUFFICES ASSUME NEW i \in Starts(s), i < m, s[i] = ":" PROVE FALSE
            OBVIOUS
        <3>2. i \in C
            BY <3>1
        <3>3. m <= i
            <4>. HIDE DEF C
            <4>. QED BY <2>1, <3>2
        <3>4. i \in Nat /\ m \in Nat
            BY <1>1, <2>4
        <3>. QED BY <3>1, <3>3, <3>4
    <2>6. IsColon(s, m)
        BY <1>1, <2>4, <2>5 DEF IsColon
    <2>7. ASSUME NEW c, IsColon(s, c)
          PROVE  c = m
        <3>1. c \in 1..(Len(s) + 1) /\ m \in 1..Len(s)
            BY <2>4, <2>7 DEF IsColon
        <3>2. ~(m < c)
            BY <2>4, <2>7 DEF IsColon
        <3>3. ~(c < m)
            <4>1. SUFFICES ASSUME c < m PROVE FALSE
                OBVIOUS
            <4>2. c <= Len(s)
                BY <1>1, <3>1, <4>1
            <4>. QED BY <2>5, <2>7, <4>1, <4>2 DEF IsColon
        <3>. QED BY <1>1, <3>1, <3>2, <3>3
    <2>. QED BY <2>3, <2>6, <2>7
<1>. QED BY <1>4, <1>5

\* Where the parameters begin.
ParameterStarts(s) == {i \in Starts(s) : i < Colon(s)}

\* The parameters are the words before the colon, in their order.
LEMMA ParametersAreWords ==
    ASSUME NEW s \in Seq(Symbols)
    PROVE  LET in == Sorted(ParameterStarts(s)) IN
           /\ in \in Seq(ParameterStarts(s)) /\ Len(in) \in Nat
           /\ Len(parseParameters(s)) = Len(in)
           /\ \A k \in 1..Len(in) : /\ in[k] \in ParameterStarts(s)
                                    /\ parseParameters(s)[k] = WordAt(s, in[k])
           /\ parseParameters(s) \in Seq(Seq(Symbols))
<1>. DEFINE in == Sorted(ParameterStarts(s))
<1>1. ParameterStarts(s) \subseteq Starts(s)
    BY DEF ParameterStarts
<1>2. ParameterStarts(s) \subseteq Nat /\ IsFiniteSet(ParameterStarts(s))
    BY <1>1, StartsAreIndices
<1>3. in \in Seq(ParameterStarts(s)) /\ DOMAIN in = 1..Len(in)
    BY <1>2, SortedIsInOrder
<1>4. Len(in) \in Nat /\ \A k \in 1..Len(in) : in[k] \in ParameterStarts(s)
    BY <1>3, LenProperties, ElementOfSeq
<1>5. parseParameters(s) = [k \in 1..Len(in) |-> WordAt(s, in[k])]
    BY <1>3 DEF parseParameters, ParameterStarts
<1>. HIDE DEF in
<1>6. ASSUME NEW k \in 1..Len(in)
      PROVE  WordAt(s, in[k]) \in Seq(Symbols)
    <2>1. in[k] \in 1..(Len(s) + 1)
        <3>1. in[k] \in 1..Len(s) /\ Len(s) \in Nat
            BY <1>1, <1>4, StartsAreIndices
        <3>. QED BY <3>1
    <2>. QED BY <2>1, WordReaches
<1>7. parseParameters(s) \in [1..Len(in) -> Seq(Symbols)]
    BY <1>5, <1>6
<1>8. parseParameters(s) \in Seq(Seq(Symbols)) /\ Len(parseParameters(s)) = Len(in)
    BY <1>4, <1>7, FunctionIsSeq
<1>. QED BY <1>3, <1>4, <1>5, <1>8 DEF in

\* They are <middle>s.
LEMMA ParametersAreSayable ==
    ASSUME NEW s \in Seq(Symbols), NEW k \in 1..Len(parseParameters(s))
    PROVE  Sayable(parseParameters(s)[k])
<1>. DEFINE in == Sorted(ParameterStarts(s))
            w == parseParameters(s)[k]
<1>1. in[k] \in ParameterStarts(s) /\ w = WordAt(s, in[k])
    BY ParametersAreWords
<1>2. PICK i \in Starts(s) : i = in[k] /\ i < Colon(s)
    BY <1>1 DEF ParameterStarts
<1>3. i \in 1..Len(s) /\ Len(s) \in Nat /\ s[i] \notin Blanks /\ s[i] # ":"
    <2>1. i \in 1..Len(s) /\ Len(s) \in Nat
        BY StartsAreIndices
    <2>2. s[i] \notin Blanks
        BY DEF Starts
    <2>3. s[i] # ":"
        BY <1>2, ColonIsColon DEF IsColon
    <2>. QED BY <2>1, <2>2, <2>3
<1>4. /\ w \in Seq(Symbols)
      /\ \A j \in 1..Len(w) : w[j] = s[i + j - 1] /\ s[i + j - 1] \notin Blanks
      /\ i + Len(w) <= Len(s) => s[i + Len(w)] \in Blanks
    <2>1. i \in 1..(Len(s) + 1) /\ w = WordAt(s, i)
        BY <1>1, <1>2, <1>3
    <2>. HIDE DEF w
    <2>2. /\ WordAt(s, i) \in Seq(Symbols)
          /\ \A j \in 1..Len(WordAt(s, i)) : WordAt(s, i)[j] = s[i + j - 1] /\ s[i + j - 1] \notin Blanks
          /\ i + Len(WordAt(s, i)) <= Len(s) => s[i + Len(WordAt(s, i))] \in Blanks
        BY <2>1, WordReaches
    <2>. QED BY <2>1, <2>2
<1>. HIDE DEF w
<1>5. Len(w) \in Nat
    BY <1>4, LenProperties
<1>6. Len(w) # 0
    BY <1>3, <1>4
<1>7. 1 \in 1..Len(w) /\ i + 1 - 1 = i
    BY <1>3, <1>5, <1>6
<1>8. w # <<>> /\ w[1] = s[i]
    <2>1. w # <<>>
        BY <1>6, EmptySeq
    <2>. QED BY <1>4, <1>7, <2>1
<1>9. Head(w) = w[1]
    BY <1>4, <1>8
<1>10. Blanks \cap ToSet(w) = {}
    <2>1. \A x : x \in ToSet(w) <=> \E j \in 1..Len(w) : w[j] = x
        BY <1>4, ToSetOfSeq
    <2>. QED BY <1>4, <2>1
<1>11. Sayable(w)
    BY <1>3, <1>8, <1>9, <1>10 DEF Sayable
<1>. QED BY <1>11 DEF w

LEMMA TrailingIsText ==
    ASSUME NEW s \in Seq(Symbols)
    PROVE  parseTrailing(s) \in Seq(Symbols)
<1>1. Colon(s) \in 1..(Len(s) + 1) /\ Len(s) \in Nat
    BY ColonIsColon, LenProperties DEF IsColon
<1>2. CASE Colon(s) = Len(s) + 1
    <2>1. SubSeq(s, (Len(s) + 1) + 1, Len(s)) = <<>>
        BY <1>1, SubSeqEmpty
    <2>. QED BY <1>2, <2>1 DEF parseTrailing, Drop
<1>3. CASE Colon(s) # Len(s) + 1
    <2>1. Colon(s) \in 0..Len(s)
        BY <1>1, <1>3
    <2>. QED BY <2>1, DropIsRest DEF parseTrailing
<1>. QED BY <1>2, <1>3

-----------------------------------------------------------------------------
(* Messages.                                                               *)

LEMMA SkipSpaceIsText ==
    ASSUME NEW s \in Seq(Symbols)
    PROVE  skipSpace(s) \in Seq(Symbols)
<1>1. PICK n \in 0..Len(s) :
         /\ skipSpace(s) = Drop(s, n) /\ \A i \in 1..n : s[i] \in Blanks
         /\ n < Len(s) => s[n + 1] \notin Blanks
    BY SkipSpaceSkips
<1>. QED BY <1>1, DropIsRest

\* What follows a prefix.
LEMMA RestIsText ==
    ASSUME NEW s \in Seq(Symbols), parsePrefix(s).is = "prefix"
    PROVE  parsePrefix(s).rest = Drop(s, HostEnd(s)) /\ parsePrefix(s).rest \in Seq(Symbols)
<1>1. parsePrefix(s).rest = Drop(s, HostEnd(s))
    <2>1. CASE ~IsNick(s)
        BY <2>1 DEF parsePrefix
    <2>2. CASE IsNick(s)
        BY <2>2 DEF parsePrefix, Error, Terminate
    <2>. QED BY <2>1, <2>2
<1>2. HostEnd(s) \in 0..Len(s)
    BY UntilStops DEF HostEnd
<1>. QED BY <1>1, <1>2, DropIsRest

\* A message has a command, and a prefix that was parsed, or none.
LEMMA MessageParts ==
    ASSUME NEW s \in Seq(Symbols), parseString(s).is = "message"
    PROVE  \E t, prefix :
              /\ t \in Seq(Symbols)
              /\ parseString(s) = parseCommand(prefix, t) /\ IsCommand(WordAt(t, 1))
              /\ \/ prefix = NoPrefix
                 \/ \E u \in Seq(Symbols) :
                       /\ parsePrefix(u).is = "prefix" /\ prefix = parsePrefix(u).prefix
                       /\ TabInPrefix(s) \/ "TAB" \notin ToSet(Spaceless(u))
<1>1. \A t, prefix : parseCommand(prefix, t).is = "message" => IsCommand(WordAt(t, 1))
    BY DEF parseCommand, Error
<1>2. CASE ~First(s, ":")
    <2>1. parseString(s) = parseCommand(NoPrefix, skipSpace(s))
        BY <1>2 DEF parseString
    <2>2. skipSpace(s) \in Seq(Symbols)
        BY SkipSpaceIsText
    <2>. QED BY <1>1, <2>1, <2>2
<1>3. CASE First(s, ":")
    <2>. DEFINE u == Tail(s)
    <2>1. u \in Seq(Symbols)
        BY <1>3, HeadTailProperties DEF First
    <2>. HIDE DEF u
    <2>2. parseString(s) = IF parsePrefix(u).is # "prefix" THEN parsePrefix(u)
                           ELSE parseCommand(parsePrefix(u).prefix, skipSpace(parsePrefix(u).rest))
        BY <1>3 DEF parseString, u
    <2>3. parsePrefix(u).is # "message"
        BY DEF parsePrefix, Error, Terminate
    <2>4. parsePrefix(u).is = "prefix"
        BY <2>2, <2>3
    <2>5. skipSpace(parsePrefix(u).rest) \in Seq(Symbols)
        BY <2>1, <2>4, RestIsText, SkipSpaceIsText
    <2>6. parseString(s) = parseCommand(parsePrefix(u).prefix, skipSpace(parsePrefix(u).rest))
        BY <2>2, <2>4
    <2>7. TabInPrefix(s) \/ "TAB" \notin ToSet(Spaceless(u))
        <3>1. s # <<>> /\ s[1] # "SP"
            BY <1>3 DEF First
        <3>2. Spaceless(u) = Tail(Spaceless(s))
            BY <3>1, SpacelessTail DEF u
        <3>. DEFINE w == Spaceless(s)
        <3>3. w \in Seq(Symbols) /\ w # <<>>
            <4>1. /\ w \in Seq(Symbols) /\ Len(w) \in 0..Len(s) /\ (Len(w) < Len(s) => s[Len(w) + 1] = "SP")
                BY SpacelessReaches
            <4>2. Len(s) \in Nat \ {0} /\ Len(<<>>) = 0
                BY <3>1, EmptySeq, LenProperties
            <4>. HIDE DEF w
            <4>3. Len(w) # 0
                BY <3>1, <4>1, <4>2
            <4>. QED BY <4>1, <4>2, <4>3
        <3>. HIDE DEF w
        <3>4. Tail(w) \in Seq(Symbols) /\ Len(Tail(w)) = Len(w) - 1 /\ \A j \in 1..Len(Tail(w)) : Tail(w)[j] = w[j + 1]
            BY <3>3, HeadTailProperties
        <3>5. ASSUME "TAB" \in ToSet(Tail(w))
              PROVE  "TAB" \in ToSet(w)
            <4>1. PICK j \in 1..Len(Tail(w)) : Tail(w)[j] = "TAB"
                BY <3>4, <3>5, ToSetOfSeq
            <4>2. Len(w) \in Nat
                BY <3>3, LenProperties
            <4>3. j + 1 \in 1..Len(w)
                BY <3>4, <4>2
            <4>. QED BY <3>3, <3>4, <4>1, <4>3, ToSetOfSeq
        <3>. QED BY <1>3, <3>2, <3>5 DEF TabInPrefix, w
    <2>. QED BY <1>1, <2>1, <2>4, <2>5, <2>6, <2>7
<1>. QED BY <1>2, <1>3

\* The fields of a message.
LEMMA MessageFields ==
    ASSUME NEW t \in Seq(Symbols), NEW prefix, IsCommand(WordAt(t, 1))
    PROVE  LET raw == parseCommand(prefix, t)
               rest == Drop(t, Len(WordAt(t, 1)))
           IN  /\ rest \in Seq(Symbols) /\ raw.is = "message" /\ raw.prefix = prefix
               /\ raw.command = WordAt(t, 1) /\ raw.parameters = parseParameters(rest)
               /\ raw.trailing = parseTrailing(rest)
               /\ raw = RawMessage(prefix, WordAt(t, 1), parseParameters(rest), parseTrailing(rest))
<1>1. Len(WordAt(t, 1)) \in 0..Len(t)
    BY FirstWord
<1>2. Drop(t, Len(WordAt(t, 1))) \in Seq(Symbols)
    BY <1>1, DropIsRest
<1>3. parseCommand(prefix, t) = RawMessage(prefix, WordAt(t, 1), parseParameters(Drop(t, Len(WordAt(t, 1)))),
                                           parseTrailing(Drop(t, Len(WordAt(t, 1)))))
    BY DEF parseCommand
<1>. QED BY <1>2, <1>3 DEF RawMessage

IsText == line \in Seq(Symbols)

LEMMA LineIsText == Spec => []IsText
<1>1. Init => IsText
    BY IRCParserAssumption DEF Init, IsText
<1>2. IsText /\ [Next]_line => IsText'
    <2>1. SUFFICES ASSUME line \in Seq(Symbols), Next
                   PROVE  line' \in Seq(Symbols)
        BY DEF IsText
    <2>2. PICK c \in Growth : line' = Append(line, c)
        BY <2>1 DEF Next
    <2>3. c \in Symbols
        BY DEF Growth, Symbols, Alphabetic
    <2>4. Append(line, c) \in Seq(Symbols)
        BY <2>1, <2>3
    <2>. QED BY <2>2, <2>4
<1>. QED BY <1>1, <1>2, PTL DEF Spec

\* Whatever the line: what becomes a parameter has a character, no blank, and no colon
\* at its beginning.
THEOREM ParametersNeedNoColon == Spec => []ParametersAreMiddles
<1>1. ASSUME IsText
      PROVE  ParametersAreMiddles
    <2>1. SUFFICES ASSUME parseString(line).is = "message",
                          NEW i \in DOMAIN parseString(line).parameters
                   PROVE  Sayable(parseString(line).parameters[i])
        BY DEF ParametersAreMiddles
    <2>2. PICK t, prefix :
             t \in Seq(Symbols) /\ parseString(line) = parseCommand(prefix, t) /\ IsCommand(WordAt(t, 1))
        BY <1>1, <2>1, MessageParts DEF IsText
    <2>. DEFINE rest == Drop(t, Len(WordAt(t, 1)))
    <2>3. rest \in Seq(Symbols) /\ parseString(line).parameters = parseParameters(rest)
        BY <2>2, MessageFields
    <2>. HIDE DEF rest
    <2>4. DOMAIN parseParameters(rest) = 1..Len(parseParameters(rest))
        <3>1. parseParameters(rest) \in Seq(Seq(Symbols))
            BY <2>3, ParametersAreWords
        <3>. QED BY <3>1, LenProperties
    <2>. QED BY <2>1, <2>3, <2>4, ParametersAreSayable
<1>. QED BY <1>1, LineIsText, PTL

\* RawParser takes every line the RFC has but for those with a tab in the prefix: the
\* longest too, and whatever letters, digits and other characters there are.
THEOREM RFCLinesAreParsed == Spec => []RFCLinesWithoutTabsParse
<1>1. IsText => RFCLinesWithoutTabsParse
    BY EveryRFCLineParses, ClassesAssumption DEF RFCLinesWithoutTabsParse, IsText
<1>. QED BY <1>1, LineIsText, PTL

-----------------------------------------------------------------------------
(* What operator<< writes.                                                 *)

LEMMA Symbol == "SP" \in Symbols /\ ":" \in Symbols /\ "!" \in Symbols /\ "@" \in Symbols
BY DEF Symbols, Separators, Blanks

\* One symbol before a text.
LEMMA OneBefore ==
    ASSUME NEW c \in Symbols, NEW t \in Seq(Symbols)
    PROVE  /\ <<c>> \o t \in Seq(Symbols) /\ Len(<<c>> \o t) = Len(t) + 1
           /\ (<<c>> \o t)[1] = c /\ \A i \in 1..Len(t) : (<<c>> \o t)[i + 1] = t[i]
           /\ <<c>> \o t # <<>> /\ Head(<<c>> \o t) = c /\ Tail(<<c>> \o t) = t
<1>. DEFINE o == <<c>>
            x == o \o t
<1>1. o \in Seq(Symbols) /\ Len(o) = 1 /\ o[1] = c
    OBVIOUS
<1>. HIDE DEF o
<1>2. Len(t) \in Nat
    BY LenProperties
<1>3. /\ x \in Seq(Symbols) /\ Len(x) = 1 + Len(t)
      /\ \A i \in 1..(1 + Len(t)) : x[i] = IF i <= 1 THEN o[i] ELSE t[i - 1]
    <2>1. /\ x \in Seq(Symbols) /\ Len(x) = Len(o) + Len(t)
          /\ \A i \in 1..(Len(o) + Len(t)) : x[i] = IF i <= Len(o) THEN o[i] ELSE t[i - Len(o)]
        BY <1>1, ConcatProperties
    <2>. QED BY <1>1, <2>1
<1>. HIDE DEF x
<1>4. x[1] = c
    <2>1. 1 \in 1..(1 + Len(t))
        BY <1>2
    <2>. QED BY <1>1, <1>3, <2>1
<1>5. ASSUME NEW i \in 1..Len(t)
      PROVE  x[i + 1] = t[i]
    <2>1. i + 1 \in 1..(1 + Len(t)) /\ ~(i + 1 <= 1) /\ (i + 1) - 1 = i
        BY <1>2
    <2>. QED BY <1>3, <2>1
<1>6. Len(x) = Len(t) + 1 /\ Len(x) # 0
    BY <1>2, <1>3
<1>7. x # <<>>
    BY <1>6, EmptySeq
<1>8. Head(x) = x[1]
    BY <1>3, <1>7
<1>9. Tail(x) = t
    <2>1. Tail(x) \in Seq(Symbols) /\ Len(Tail(x)) = Len(x) - 1 /\ \A i \in 1..Len(Tail(x)) : Tail(x)[i] = x[i + 1]
        BY <1>3, <1>7, HeadTailProperties
    <2>2. Len(Tail(x)) = Len(t)
        BY <1>2, <1>6, <2>1
    <2>3. \A i \in 1..Len(t) : Tail(x)[i] = t[i]
        BY <1>5, <2>1, <2>2
    <2>. QED BY <2>1, <2>2, <2>3, SeqEqual
<1>. QED BY <1>3, <1>4, <1>5, <1>6, <1>7, <1>8, <1>9 DEF x, o

\* Two texts with a space between them.
LEMMA Spaced ==
    ASSUME NEW s \in Seq(Symbols), NEW t \in Seq(Symbols)
    PROVE  LET x == s \o (<<"SP">> \o t) IN
           /\ x \in Seq(Symbols) /\ Len(x) = Len(s) + 1 + Len(t)
           /\ \A i \in 1..Len(s) : x[i] = s[i]
           /\ x[Len(s) + 1] \in Blanks
           /\ \A i \in 1..Len(t) : x[Len(s) + 1 + i] = t[i]
<1>. DEFINE y == <<"SP">> \o t
            x == s \o y
<1>1. y \in Seq(Symbols) /\ Len(y) = Len(t) + 1 /\ y[1] \in Blanks /\ \A i \in 1..Len(t) : y[i + 1] = t[i]
    BY Symbol, OneBefore, BlanksAreTwo
<1>2. Len(s) \in Nat /\ Len(t) \in Nat
    BY LenProperties
<1>. HIDE DEF y
<1>3. /\ x \in Seq(Symbols) /\ Len(x) = Len(s) + Len(y)
      /\ \A i \in 1..(Len(s) + Len(y)) : x[i] = IF i <= Len(s) THEN s[i] ELSE y[i - Len(s)]
    BY <1>1, ConcatProperties
<1>. HIDE DEF x
<1>4. Len(x) = Len(s) + 1 + Len(t)
    BY <1>1, <1>2, <1>3
<1>5. \A i \in 1..Len(s) : x[i] = s[i]
    BY <1>1, <1>2, <1>3
<1>6. x[Len(s) + 1] \in Blanks
    <2>1. Len(s) + 1 \in 1..(Len(s) + Len(y)) /\ ~(Len(s) + 1 <= Len(s)) /\ (Len(s) + 1) - Len(s) = 1
        BY <1>1, <1>2
    <2>. QED BY <1>1, <1>3, <2>1
<1>7. ASSUME NEW i \in 1..Len(t)
      PROVE  x[Len(s) + 1 + i] = t[i]
    <2>1. Len(s) + 1 + i \in 1..(Len(s) + Len(y)) /\ ~(Len(s) + 1 + i <= Len(s))
          /\ (Len(s) + 1 + i) - Len(s) = i + 1
        BY <1>1, <1>2
    <2>. QED BY <1>1, <1>3, <2>1
<1>. QED BY <1>3, <1>4, <1>5, <1>6, <1>7 DEF x, y

\* Their words are the words of both.
HasWordsOf(x, s, t) ==
    /\ \A i \in Starts(x) : i \in Starts(s) \/ \E j \in Starts(t) : i = Len(s) + 1 + j
    /\ \A i \in Starts(s) : i \in Starts(x) /\ WordAt(x, i) = WordAt(s, i)
    /\ \A j \in Starts(t) : Len(s) + 1 + j \in Starts(x)

LEMMA WordsOfSpaced ==
    ASSUME NEW s \in Seq(Symbols), NEW t \in Seq(Symbols)
    PROVE  HasWordsOf(s \o (<<"SP">> \o t), s, t)
<1>. DEFINE x == s \o (<<"SP">> \o t)
<1>1. /\ x \in Seq(Symbols) /\ Len(x) = Len(s) + 1 + Len(t)
      /\ \A i \in 1..Len(s) : x[i] = s[i]
      /\ x[Len(s) + 1] \in Blanks
      /\ \A i \in 1..Len(t) : x[Len(s) + 1 + i] = t[i]
    BY Spaced
<1>. HIDE DEF x
<1>2. /\ Len(s) \in Nat /\ Len(t) \in Nat /\ Len(x) \in Nat
      /\ DOMAIN s = 1..Len(s) /\ DOMAIN t = 1..Len(t) /\ DOMAIN x = 1..Len(x)
    BY <1>1, LenProperties
<1>3. ASSUME NEW i \in 1..Len(s)
      PROVE  i \in Starts(x) <=> i \in Starts(s)
    <2>1. i \in 1..Len(x) /\ x[i] = s[i]
        BY <1>1, <1>2
    <2>2. i > 1 => x[i - 1] = s[i - 1]
        <3>1. i > 1 => i - 1 \in 1..Len(s)
            BY <1>2
        <3>. QED BY <1>1, <3>1
    <2>. QED BY <1>2, <2>1, <2>2 DEF Starts
<1>4. ASSUME NEW j \in 1..Len(t)
      PROVE  Len(s) + 1 + j \in Starts(x) <=> j \in Starts(t)
    <2>. DEFINE i == Len(s) + 1 + j
    <2>1. i \in 1..Len(x) /\ x[i] = t[j] /\ i > 1
        BY <1>1, <1>2
    <2>2. j = 1 => x[i - 1] \in Blanks
        <3>1. j = 1 => i - 1 = Len(s) + 1
            BY <1>2
        <3>. QED BY <1>1, <3>1
    <2>3. j > 1 => x[i - 1] = t[j - 1]
        <3>1. j > 1 => j - 1 \in 1..Len(t) /\ i - 1 = Len(s) + 1 + (j - 1)
            BY <1>2
        <3>. QED BY <1>1, <3>1
    <2>4. j = 1 \/ j > 1
        BY <1>2
    <2>5. ~(1 > 1)
        OBVIOUS
    <2>. HIDE DEF i
    <2>6. i \in Starts(x) <=> j \in Starts(t)
        BY <1>2, <2>1, <2>2, <2>3, <2>4, <2>5 DEF Starts
    <2>. QED BY <2>6 DEF i
<1>5. Len(s) + 1 \notin Starts(x)
    BY <1>1 DEF Starts
<1>6. ASSUME NEW i \in Starts(x)
      PROVE  i \in Starts(s) \/ \E j \in Starts(t) : i = Len(s) + 1 + j
    <2>1. i \in 1..Len(x)
        BY <1>1, StartsAreIndices
    <2>2. CASE i \in 1..Len(s)
        BY <1>3, <2>2
    <2>3. CASE ~(i \in 1..Len(s))
        <3>1. PICK j \in 1..Len(t) : i = Len(s) + 1 + j
            <4>1. i # Len(s) + 1
                BY <1>5
            <4>2. i - Len(s) - 1 \in 1..Len(t) /\ i = Len(s) + 1 + (i - Len(s) - 1)
                BY <1>1, <1>2, <2>1, <2>3, <4>1
            <4>. QED BY <4>2
        <3>2. j \in Starts(t)
            BY <1>4, <3>1
        <3>. QED BY <3>1, <3>2
    <2>. QED BY <2>2, <2>3
<1>7. ASSUME NEW i \in Starts(s)
      PROVE  i \in Starts(x) /\ WordAt(x, i) = WordAt(s, i)
    <2>1. i \in 1..Len(s) /\ i \in 1..(Len(s) + 1) /\ i \in 1..(Len(x) + 1)
        <3>1. i \in 1..Len(s)
            BY StartsAreIndices
        <3>. QED BY <1>1, <1>2, <3>1
    <2>. DEFINE w == WordAt(s, i)
    <2>2. /\ w \in Seq(Symbols) /\ Len(w) \in 0..(Len(s) - i + 1)
          /\ \A j \in 1..Len(w) : w[j] = s[i + j - 1] /\ s[i + j - 1] \notin Blanks
          /\ i + Len(w) <= Len(s) => s[i + Len(w)] \in Blanks
        BY <2>1, WordReaches
    <2>. HIDE DEF w
    <2>3. Len(w) \in Nat /\ i + Len(w) <= Len(s) + 1
        <3>1. Len(w) \in Nat
            BY <2>2, LenProperties
        <3>2. Len(w) <= Len(s) - i + 1
            BY <2>2
        <3>. QED BY <1>2, <2>1, <3>1, <3>2
    <2>4. ASSUME NEW j \in 1..Len(w)
          PROVE  x[i + j - 1] = w[j] /\ w[j] \notin Blanks
        <3>1. i + j - 1 \in 1..Len(s)
            BY <1>2, <2>1, <2>3
        <3>. QED BY <1>1, <2>2, <3>1
    <2>5. x[i + Len(w)] \in Blanks
        <3>1. CASE i + Len(w) <= Len(s)
            <4>1. i + Len(w) \in 1..Len(s)
                BY <1>2, <2>1, <2>3, <3>1
            <4>. QED BY <1>1, <2>2, <3>1, <4>1
        <3>2. CASE i + Len(w) = Len(s) + 1
            BY <1>1, <3>2
        <3>. QED BY <1>2, <2>1, <2>3, <3>1, <3>2
    <2>6. i + Len(w) - 1 <= Len(x)
        BY <1>1, <1>2, <2>1, <2>3
    <2>7. WordAt(x, i) = w
        BY <1>1, <2>1, <2>2, <2>4, <2>5, <2>6, WordIs
    <2>8. i \in Starts(x)
        BY <1>3, <2>1
    <2>. QED BY <2>7, <2>8 DEF w
<1>8. ASSUME NEW j \in Starts(t)
      PROVE  Len(s) + 1 + j \in Starts(x)
    <2>1. j \in 1..Len(t)
        BY StartsAreIndices
    <2>. QED BY <1>4, <2>1
<1>9. HasWordsOf(x, s, t)
    BY <1>6, <1>7, <1>8 DEF HasWordsOf
<1>. QED BY <1>9 DEF x

\* No word begins with a colon.
NoColon(s) == \A i \in Starts(s) : s[i] # ":"

LEMMA NoColonIsLast ==
    ASSUME NEW s \in Seq(Symbols), NoColon(s)
    PROVE  Colon(s) = Len(s) + 1 /\ ParameterStarts(s) = Starts(s)
<1>1. Len(s) \in Nat /\ Starts(s) \subseteq 1..Len(s)
    BY StartsAreIndices
<1>2. IsColon(s, Len(s) + 1)
    BY <1>1 DEF IsColon, NoColon
<1>3. Colon(s) = Len(s) + 1
    BY <1>2, ColonIsColon
<1>4. \A i \in Starts(s) : i < Len(s) + 1
    BY <1>1
<1>. QED BY <1>3, <1>4 DEF ParameterStarts

\* A word more is a parameter more.
LEMMA WordMore ==
    ASSUME NEW s \in Seq(Symbols), NoColon(s), NEW w \in Seq(Symbols), Sayable(w),
           NEW x, x = s \o (<<"SP">> \o w)
    PROVE  /\ x \in Seq(Symbols) /\ NoColon(x)
           /\ parseParameters(x) = Append(parseParameters(s), w)
<1>. DEFINE n == Len(s) + 2
            in == Sorted(Starts(s))
            out == Sorted(Starts(x))
<1>1. /\ x \in Seq(Symbols) /\ Len(x) = Len(s) + 1 + Len(w)
      /\ \A i \in 1..Len(s) : x[i] = s[i]
      /\ x[Len(s) + 1] \in Blanks
      /\ \A i \in 1..Len(w) : x[Len(s) + 1 + i] = w[i]
    BY Spaced
<1>2. /\ Len(s) \in Nat /\ Len(w) \in Nat \ {0} /\ DOMAIN w = 1..Len(w)
      /\ w[1] # ":" /\ \A i \in 1..Len(w) : w[i] \notin Blanks
    <2>1. w # <<>> /\ Head(w) # ":" /\ Blanks \cap ToSet(w) = {}
        BY DEF Sayable
    <2>2. Head(w) = w[1]
        BY <2>1
    <2>3. \A i \in 1..Len(w) : w[i] \notin Blanks
        BY <2>1, ToSetOfSeq
    <2>. QED BY <2>1, <2>2, <2>3, LenProperties, EmptySeq
<1>3. Starts(w) = {1}
    <2>1. 1 \in Starts(w)
        <3>1. 1 \in DOMAIN w /\ ~(1 > 1)
            BY <1>2
        <3>. QED BY <1>2, <3>1 DEF Starts
    <2>2. ASSUME NEW i \in Starts(w)
          PROVE  i = 1
        <3>1. i \in 1..Len(w) /\ (i > 1 => w[i - 1] \in Blanks)
            BY <1>2 DEF Starts
        <3>2. i > 1 => i - 1 \in 1..Len(w)
            BY <1>2, <3>1
        <3>. QED BY <1>2, <3>1, <3>2
    <2>. QED BY <2>1, <2>2
<1>4. /\ \A i \in Starts(x) : i \in Starts(s) \/ i = n
      /\ \A i \in Starts(s) : i \in Starts(x) /\ WordAt(x, i) = WordAt(s, i)
      /\ n \in Starts(x)
    <2>1. Len(s) + 1 + 1 = n
        BY <1>2
    <2>2. /\ \A i \in Starts(x) : i \in Starts(s) \/ \E j \in Starts(w) : i = Len(s) + 1 + j
          /\ \A i \in Starts(s) : i \in Starts(x) /\ WordAt(x, i) = WordAt(s, i)
          /\ \A j \in Starts(w) : Len(s) + 1 + j \in Starts(x)
        <3>1. HasWordsOf(x, s, w)
            BY WordsOfSpaced
        <3>. QED BY <3>1 DEF HasWordsOf
    <2>3. \A i : (\E j \in Starts(w) : i = Len(s) + 1 + j) => i = n
        BY <1>3, <2>1
    <2>. QED BY <1>3, <2>1, <2>2, <2>3
<1>5. Starts(x) = Starts(s) \cup {n}
    BY <1>4
<1>6. x[n] = w[1]
    <2>1. Len(s) + 1 + 1 = n /\ 1 \in 1..Len(w)
        BY <1>2
    <2>. QED BY <1>1, <2>1
<1>7. NoColon(x)
    <2>1. \A i \in Starts(s) : x[i] # ":"
        <3>1. \A i \in Starts(s) : i \in 1..Len(s)
            BY StartsAreIndices
        <3>. QED BY <1>1, <3>1 DEF NoColon
    <2>. QED BY <1>2, <1>4, <1>6, <2>1 DEF NoColon
<1>8. WordAt(x, n) = w
    <2>1. n \in 1..(Len(x) + 1) /\ n + Len(w) - 1 <= Len(x) /\ ~(n + Len(w) <= Len(x))
        BY <1>1, <1>2
    <2>2. ASSUME NEW j \in 1..Len(w)
          PROVE  x[n + j - 1] = w[j] /\ w[j] \notin Blanks
        <3>1. n + j - 1 = Len(s) + 1 + j
            BY <1>2
        <3>. QED BY <1>1, <1>2, <3>1
    <2>. QED BY <1>1, <2>1, <2>2, WordIs
<1>9. out = Append(in, n)
    <2>1. Starts(s) \subseteq Nat /\ IsFiniteSet(Starts(s)) /\ n \in Nat /\ \A i \in Starts(s) : i < n
        <3>1. Starts(s) \subseteq Nat /\ IsFiniteSet(Starts(s)) /\ Starts(s) \subseteq 1..Len(s)
            BY StartsAreIndices
        <3>. QED BY <1>2, <3>1
    <2>. HIDE DEF n
    <2>. QED BY <1>5, <2>1, SortedAppend
<1>10. /\ in \in Seq(Starts(s)) /\ Len(in) \in Nat /\ \A k \in 1..Len(in) : in[k] \in Starts(s)
       /\ Len(parseParameters(s)) = Len(in)
       /\ \A k \in 1..Len(in) : parseParameters(s)[k] = WordAt(s, in[k])
       /\ parseParameters(s) \in Seq(Seq(Symbols))
    BY NoColonIsLast, ParametersAreWords
<1>11. /\ Len(parseParameters(x)) = Len(out)
       /\ \A k \in 1..Len(out) : parseParameters(x)[k] = WordAt(x, out[k])
       /\ parseParameters(x) \in Seq(Seq(Symbols))
    <2>1. x \in Seq(Symbols) /\ ParameterStarts(x) = Starts(x)
        BY <1>1, <1>7, NoColonIsLast
    <2>. QED BY <2>1, ParametersAreWords
<1>. HIDE DEF in, out, n
<1>12. Len(out) = Len(in) + 1 /\ out[Len(in) + 1] = n /\ \A k \in 1..Len(in) : out[k] = in[k]
    <2>1. in \in Seq(Starts(x)) /\ n \in Starts(x)
        BY <1>4, <1>5, <1>10, SeqMonotonic
    <2>. QED BY <1>9, <2>1, AppendProperties
<1>. DEFINE p == parseParameters(s)
<1>13. /\ Append(p, w) \in Seq(Seq(Symbols)) /\ Len(Append(p, w)) = Len(p) + 1
       /\ \A k \in 1..Len(p) : Append(p, w)[k] = p[k]
       /\ Append(p, w)[Len(p) + 1] = w
    BY <1>10, AppendProperties
<1>14. ASSUME NEW k \in 1..Len(out)
       PROVE  parseParameters(x)[k] = Append(p, w)[k]
    <2>1. CASE k \in 1..Len(in)
        <3>1. in[k] \in Starts(s) /\ out[k] = in[k]
            BY <1>10, <1>12, <2>1
        <3>. QED BY <1>4, <1>10, <1>11, <1>13, <2>1, <3>1
    <2>2. CASE k = Len(in) + 1
        BY <1>8, <1>10, <1>11, <1>12, <1>13, <2>2
    <2>. QED BY <1>10, <1>12, <2>1, <2>2
<1>15. Len(parseParameters(x)) = Len(Append(p, w))
    BY <1>10, <1>11, <1>12, <1>13
<1>. HIDE DEF p
<1>16. parseParameters(x) = Append(p, w)
    BY <1>11, <1>13, <1>14, <1>15, SeqEqual
<1>. QED BY <1>1, <1>7, <1>16 DEF p

\* After a colon there is no parameter.
LEMMA TrailingMore ==
    ASSUME NEW s \in Seq(Symbols), NoColon(s), NEW t \in Seq(Symbols),
           NEW x, x = s \o (<<"SP">> \o (<<":">> \o t))
    PROVE  /\ x \in Seq(Symbols) /\ parseParameters(x) = parseParameters(s)
           /\ parseTrailing(x) = t
<1>. DEFINE y == <<":">> \o t
<1>1. /\ y \in Seq(Symbols) /\ Len(y) = Len(t) + 1 /\ y[1] = ":" /\ \A i \in 1..Len(t) : y[i + 1] = t[i]
    BY Symbol, OneBefore
<1>. HIDE DEF y
<1>2. /\ x \in Seq(Symbols) /\ Len(x) = Len(s) + 1 + Len(y)
      /\ \A i \in 1..Len(s) : x[i] = s[i]
      /\ \A i \in 1..Len(y) : x[Len(s) + 1 + i] = y[i]
    BY <1>1, Spaced DEF y
<1>3. Len(s) \in Nat /\ Len(t) \in Nat /\ Len(y) \in Nat /\ DOMAIN y = 1..Len(y)
    BY <1>1, LenProperties
<1>4. /\ \A i \in Starts(x) : i \in Starts(s) \/ \E j \in Starts(y) : i = Len(s) + 1 + j
      /\ \A i \in Starts(s) : i \in Starts(x) /\ WordAt(x, i) = WordAt(s, i)
      /\ \A j \in Starts(y) : Len(s) + 1 + j \in Starts(x)
    <2>1. HasWordsOf(x, s, y)
        BY <1>1, WordsOfSpaced DEF y
    <2>. QED BY <2>1 DEF HasWordsOf
<1>. DEFINE c == Len(s) + 2
<1>5. c \in Starts(x) /\ x[c] = ":"
    <2>1. 1 \in DOMAIN y /\ ~(1 > 1) /\ Len(s) + 1 + 1 = c
        BY <1>1, <1>3
    <2>2. 1 \in Starts(y)
        BY <1>1, <2>1, MarksAreNotBlank DEF Starts
    <2>. QED BY <1>1, <1>2, <1>3, <1>4, <2>1, <2>2
<1>6. ASSUME NEW i \in Starts(x), i < c
      PROVE  i \in Starts(s) /\ x[i] # ":"
    <2>1. ~ \E j \in Starts(y) : i = Len(s) + 1 + j
        <3>1. \A j \in Starts(y) : j \in 1..Len(y)
            BY <1>1, StartsAreIndices
        <3>. QED BY <1>3, <1>6, <3>1
    <2>2. i \in Starts(s) /\ i \in 1..Len(s)
        BY <1>4, <2>1, StartsAreIndices
    <2>. QED BY <1>2, <2>2 DEF NoColon
<1>7. Colon(x) = c
    <2>1. c \in 1..(Len(x) + 1)
        BY <1>1, <1>2, <1>3
    <2>2. IsColon(x, c)
        BY <1>5, <1>6, <2>1 DEF IsColon
    <2>. QED BY <1>2, <2>2, ColonIsColon
<1>8. ParameterStarts(x) = Starts(s)
    <2>1. \A i \in Starts(s) : i < c
        <3>1. \A i \in Starts(s) : i \in 1..Len(s)
            BY StartsAreIndices
        <3>. QED BY <1>3, <3>1
    <2>. QED BY <1>4, <1>6, <1>7, <2>1 DEF ParameterStarts
<1>. DEFINE in == Sorted(Starts(s))
<1>9. /\ Len(in) \in Nat /\ \A k \in 1..Len(in) : in[k] \in Starts(s)
      /\ Len(parseParameters(s)) = Len(in)
      /\ \A k \in 1..Len(in) : parseParameters(s)[k] = WordAt(s, in[k])
      /\ parseParameters(s) \in Seq(Seq(Symbols))
    BY NoColonIsLast, ParametersAreWords
<1>10. /\ Len(parseParameters(x)) = Len(in)
       /\ \A k \in 1..Len(in) : parseParameters(x)[k] = WordAt(x, in[k])
       /\ parseParameters(x) \in Seq(Seq(Symbols))
    <2>1. x \in Seq(Symbols) /\ in = Sorted(ParameterStarts(x))
        BY <1>2, <1>8
    <2>. HIDE DEF in
    <2>. QED BY <2>1, ParametersAreWords
<1>. HIDE DEF in
<1>11. parseParameters(x) = parseParameters(s)
    <2>1. \A k \in 1..Len(in) : parseParameters(x)[k] = parseParameters(s)[k]
        BY <1>4, <1>9, <1>10
    <2>. QED BY <1>9, <1>10, <2>1, SeqEqual
<1>12. parseTrailing(x) = t
    <2>1. c \in 0..Len(x) /\ Len(x) - c = Len(t)
        BY <1>1, <1>2, <1>3
    <2>2. Drop(x, c) \in Seq(Symbols) /\ Len(Drop(x, c)) = Len(t) /\ \A i \in 1..Len(t) : Drop(x, c)[i] = x[c + i]
        <3>. HIDE DEF c
        <3>1. Drop(x, c) \in Seq(Symbols) /\ Len(Drop(x, c)) = Len(x) - c
              /\ \A i \in 1..(Len(x) - c) : Drop(x, c)[i] = x[c + i]
            BY <1>2, <2>1, DropIsRest
        <3>. QED BY <2>1, <3>1
    <2>3. ASSUME NEW i \in 1..Len(t)
          PROVE  x[c + i] = t[i]
        <3>1. i + 1 \in 1..Len(y) /\ c + i = Len(s) + 1 + (i + 1)
            BY <1>1, <1>3
        <3>. QED BY <1>1, <1>2, <3>1
    <2>4. \A i \in 1..Len(t) : Drop(x, c)[i] = t[i]
        BY <2>2, <2>3
    <2>5. Drop(x, c) = t
        <3>. HIDE DEF c
        <3>. QED BY <2>2, <2>4, SeqEqual
    <2>. QED BY <1>7, <2>5 DEF parseTrailing
<1>. QED BY <1>2, <1>11, <1>12

LEMMA NothingIsParsed == NoColon(<<>>) /\ parseParameters(<<>>) = <<>>
<1>. DEFINE e == <<>>
            in == Sorted(Starts(e))
<1>1. e \in Seq(Symbols) /\ Len(e) = 0
    BY EmptySeq
<1>. HIDE DEF e
<1>2. \A i \in Starts(e) : FALSE
    <2>1. \A i \in Starts(e) : i \in 1..Len(e)
        BY <1>1, StartsAreIndices
    <2>. QED BY <1>1, <2>1
<1>3. NoColon(e)
    BY <1>2 DEF NoColon
<1>4. /\ Len(in) \in Nat /\ \A k \in 1..Len(in) : in[k] \in Starts(e)
      /\ Len(parseParameters(e)) = Len(in) /\ parseParameters(e) \in Seq(Seq(Symbols))
    BY <1>1, <1>3, NoColonIsLast, ParametersAreWords
<1>. HIDE DEF in
<1>5. Len(in) = 0
    <2>1. Len(in) # 0 => 1 \in 1..Len(in)
        BY <1>4
    <2>. QED BY <1>2, <1>4, <2>1
<1>6. parseParameters(e) = <<>>
    BY <1>4, <1>5, EmptySeq
<1>. QED BY <1>3, <1>6 DEF e

\* A text is the first n parameters as they are written.
IsOf(x, ps, n) ==
    /\ x \in Seq(Symbols) /\ NoColon(x) /\ parseParameters(x) = SubSeq(ps, 1, n)
    /\ x # <<>> => x[1] \in Blanks

\* The parameters as they are written are read as they were.
LEMMA WrittenParametersParse ==
    ASSUME NEW ps \in Seq(Seq(Symbols)), \A i \in 1..Len(ps) : Sayable(ps[i])
    PROVE  LET x == FlattenSeq([i \in DOMAIN ps |-> <<"SP">> \o ps[i]]) IN
           /\ x \in Seq(Symbols) /\ NoColon(x) /\ parseParameters(x) = ps
           /\ x # <<>> => x[1] \in Blanks
<1>. DEFINE q == [i \in DOMAIN ps |-> <<"SP">> \o ps[i]]
<1>1. Len(ps) \in Nat /\ DOMAIN ps = 1..Len(ps) /\ \A i \in 1..Len(ps) : ps[i] \in Seq(Symbols)
    BY LenProperties, ElementOfSeq
<1>2. q \in Seq(Seq(Symbols)) /\ Len(q) = Len(ps) /\ \A i \in 1..Len(ps) : q[i] = <<"SP">> \o ps[i]
    <2>1. \A i \in 1..Len(ps) : <<"SP">> \o ps[i] \in Seq(Symbols)
        BY <1>1, Symbol, OneBefore
    <2>2. q \in [1..Len(ps) -> Seq(Symbols)] /\ \A i \in 1..Len(ps) : q[i] = <<"SP">> \o ps[i]
        BY <1>1, <2>1
    <2>. HIDE DEF q
    <2>. QED BY <1>1, <2>2, FunctionIsSeq
<1>. HIDE DEF q
<1>3. PICK f \in [0..Len(ps) -> Seq(Symbols)] :
         /\ f[0] = <<>> /\ \A i \in 1..Len(ps) : f[i] = f[i - 1] \o q[i]
         /\ FlattenSeq(q) = f[Len(ps)]
    <2>1. \E f \in [0..Len(q) -> Seq(Symbols)] :
             /\ f[0] = <<>> /\ \A i \in 1..Len(q) : f[i] = f[i - 1] \o q[i]
             /\ FlattenSeq(q) = f[Len(q)]
        BY <1>2, FlattenSeqJoins
    <2>2. Len(q) = Len(ps)
        BY <1>2
    <2>. QED BY <2>1, <2>2, Zenon
<1>. DEFINE Done == {n \in Nat : n <= Len(ps) => IsOf(f[n], ps, n)}
<1>4. 0 \in Done
    <2>1. SubSeq(ps, 1, 0) = <<>>
        BY SubSeqEmpty
    <2>2. <<>> \in Seq(Symbols)
        OBVIOUS
    <2>3. IsOf(<<>>, ps, 0)
        BY <2>1, <2>2, NothingIsParsed DEF IsOf
    <2>. QED BY <1>3, <2>3
<1>5. ASSUME NEW n \in Nat, n \in Done
      PROVE  n + 1 \in Done
    <2>1. SUFFICES ASSUME n + 1 <= Len(ps) PROVE IsOf(f[n + 1], ps, n + 1)
        OBVIOUS
    <2>2. n + 1 \in 1..Len(ps) /\ (n + 1) - 1 = n /\ n <= Len(ps) /\ n \in 0..Len(ps)
        BY <1>1, <2>1
    <2>. DEFINE s == f[n]
                w == ps[n + 1]
                x == s \o (<<"SP">> \o w)
    <2>3. IsOf(s, ps, n)
        BY <1>5, <2>2
    <2>4. f[n + 1] = x
        <3>1. f[n + 1] = f[(n + 1) - 1] \o q[n + 1]
            BY <1>3, <2>2
        <3>. QED BY <1>2, <2>2, <3>1
    <2>5. w \in Seq(Symbols) /\ Sayable(w)
        BY <1>1, <2>2
    <2>. HIDE DEF s, w, x
    <2>6. s \in Seq(Symbols) /\ NoColon(s) /\ parseParameters(s) = SubSeq(ps, 1, n) /\ (s # <<>> => s[1] \in Blanks)
        BY <2>3 DEF IsOf
    <2>7. x \in Seq(Symbols) /\ NoColon(x) /\ parseParameters(x) = Append(parseParameters(s), w)
        BY <2>5, <2>6, WordMore DEF x
    <2>8. Append(SubSeq(ps, 1, n), w) = SubSeq(ps, 1, n + 1)
        <3>. DEFINE o == SubSeq(ps, 1, n)
                    p == SubSeq(ps, 1, n + 1)
        <3>1. o \in Seq(Seq(Symbols)) /\ Len(o) = n /\ \A i \in 1..n : o[i] = ps[i]
            BY <1>1, <2>2, Piece
        <3>2. p \in Seq(Seq(Symbols)) /\ Len(p) = n + 1 /\ \A i \in 1..(n + 1) : p[i] = ps[i]
            BY <1>1, <2>2, Piece
        <3>. HIDE DEF o, p
        <3>3. /\ Append(o, w) \in Seq(Seq(Symbols)) /\ Len(Append(o, w)) = n + 1
              /\ \A i \in 1..n : Append(o, w)[i] = o[i]
              /\ Append(o, w)[n + 1] = w
            BY <2>5, <3>1, AppendProperties
        <3>4. \A i \in 1..(n + 1) : Append(o, w)[i] = p[i]
            <4>1. \A i \in 1..(n + 1) : i \in 1..n \/ i = n + 1
                OBVIOUS
            <4>2. p[n + 1] = w
                BY <2>2, <3>2 DEF w
            <4>3. \A i \in 1..n : p[i] = ps[i]
                BY <3>2
            <4>. QED BY <3>1, <3>3, <4>1, <4>2, <4>3
        <3>5. Append(o, w) = p
            BY <3>2, <3>3, <3>4, SeqEqual
        <3>. QED BY <3>5 DEF o, p
    <2>9. x[1] \in Blanks
        <3>1. Len(s) \in Nat /\ (Len(s) = 0 => s = <<>>) /\ (s = <<>> => Len(s) = 0)
            BY <2>6, EmptySeq, LenProperties
        <3>2. (\A i \in 1..Len(s) : x[i] = s[i]) /\ x[Len(s) + 1] \in Blanks
            BY <2>5, <2>6, Spaced DEF x
        <3>3. CASE Len(s) = 0
            BY <3>2, <3>3
        <3>4. CASE Len(s) # 0
            <4>1. 1 \in 1..Len(s)
                BY <3>1, <3>4
            <4>. QED BY <2>6, <3>1, <3>2, <3>4, <4>1
        <3>. QED BY <3>3, <3>4
    <2>10. IsOf(x, ps, n + 1)
        BY <2>6, <2>7, <2>8, <2>9 DEF IsOf
    <2>. QED BY <2>4, <2>10
<1>6. Len(ps) \in Done
    <2>. HIDE DEF Done
    <2>. QED BY <1>1, <1>4, <1>5, Induction
<1>7. IsOf(FlattenSeq(q), ps, Len(ps)) /\ SubSeq(ps, 1, Len(ps)) = ps
    <2>1. Len(ps) <= Len(ps)
        BY <1>1
    <2>. QED BY <1>3, <1>6, <2>1, SubSeqFull
<1>. QED BY <1>7 DEF IsOf, q

\* One text after another.
LEMMA Joined ==
    ASSUME NEW s \in Seq(Symbols), NEW t \in Seq(Symbols)
    PROVE  LET x == s \o t IN
           /\ x \in Seq(Symbols) /\ Len(x) = Len(s) + Len(t)
           /\ \A i \in 1..Len(s) : x[i] = s[i]
           /\ \A i \in 1..Len(t) : x[Len(s) + i] = t[i]
           /\ Take(x, Len(s)) = s /\ Drop(x, Len(s)) = t
<1>. DEFINE x == s \o t
<1>1. Len(s) \in Nat /\ Len(t) \in Nat
    BY LenProperties
<1>2. /\ x \in Seq(Symbols) /\ Len(x) = Len(s) + Len(t)
      /\ \A i \in 1..(Len(s) + Len(t)) : x[i] = IF i <= Len(s) THEN s[i] ELSE t[i - Len(s)]
    BY ConcatProperties
<1>. HIDE DEF x
<1>3. \A i \in 1..Len(s) : x[i] = s[i]
    <2>1. \A i \in 1..Len(s) : i \in 1..(Len(s) + Len(t)) /\ i <= Len(s)
        BY <1>1
    <2>. QED BY <1>2, <2>1
<1>4. ASSUME NEW i \in 1..Len(t)
      PROVE  x[Len(s) + i] = t[i]
    <2>1. Len(s) + i \in 1..(Len(s) + Len(t)) /\ ~(Len(s) + i <= Len(s)) /\ Len(s) + i - Len(s) = i
        BY <1>1
    <2>. QED BY <1>2, <2>1
<1>5. Len(s) \in 0..Len(x) /\ Len(x) - Len(s) = Len(t)
    BY <1>1, <1>2
<1>6. Take(x, Len(s)) = s
    <2>1. /\ Take(x, Len(s)) \in Seq(Symbols) /\ Len(Take(x, Len(s))) = Len(s)
          /\ \A i \in 1..Len(s) : Take(x, Len(s))[i] = x[i]
        BY <1>2, <1>5, TakeIsBeginning
    <2>2. \A i \in 1..Len(s) : Take(x, Len(s))[i] = s[i]
        BY <1>3, <2>1
    <2>. QED BY <2>1, <2>2, SeqEqual
<1>7. Drop(x, Len(s)) = t
    <2>1. /\ Drop(x, Len(s)) \in Seq(Symbols) /\ Len(Drop(x, Len(s))) = Len(x) - Len(s)
          /\ \A i \in 1..(Len(x) - Len(s)) : Drop(x, Len(s))[i] = x[Len(s) + i]
        BY <1>2, <1>5, DropIsRest
    <2>2. \A i \in 1..Len(t) : Drop(x, Len(s))[i] = t[i]
        BY <1>4, <1>5, <2>1
    <2>. QED BY <1>5, <2>1, <2>2, SeqEqual
<1>. QED BY <1>2, <1>3, <1>4, <1>6, <1>7 DEF x

Associative(s, t, u) == (s \o t) \o u = s \o (t \o u)

LEMMA JoinedTwice ==
    ASSUME NEW s \in Seq(Symbols), NEW t \in Seq(Symbols), NEW u \in Seq(Symbols)
    PROVE  Associative(s, t, u)
BY ConcatAssociative DEF Associative

\* A text before the end of the line or a blank.
LEMMA WordBefore ==
    ASSUME NEW w \in Seq(Symbols), \A i \in 1..Len(w) : w[i] \notin Blanks,
           NEW t \in Seq(Symbols), t # <<>> => t[1] \in Blanks
    PROVE  WordAt(w \o t, 1) = w
<1>. DEFINE x == w \o t
<1>1. /\ x \in Seq(Symbols) /\ Len(x) = Len(w) + Len(t)
      /\ \A i \in 1..Len(w) : x[i] = w[i]
      /\ \A i \in 1..Len(t) : x[Len(w) + i] = t[i]
    BY Joined
<1>. HIDE DEF x
<1>2. Len(w) \in Nat /\ Len(t) \in Nat
    BY LenProperties
<1>3. 1 \in 1..(Len(x) + 1) /\ 1 + Len(w) - 1 <= Len(x)
    BY <1>1, <1>2
<1>4. \A j \in 1..Len(w) : x[1 + j - 1] = w[j] /\ w[j] \notin Blanks
    <2>1. \A j \in 1..Len(w) : 1 + j - 1 = j
        BY <1>2
    <2>. QED BY <1>1, <2>1
<1>5. ASSUME 1 + Len(w) <= Len(x)
      PROVE  x[1 + Len(w)] \in Blanks
    <2>1. Len(t) # 0 /\ 1 \in 1..Len(t) /\ 1 + Len(w) = Len(w) + 1
        BY <1>1, <1>2, <1>5
    <2>2. t # <<>>
        BY <2>1, EmptySeq
    <2>. QED BY <1>1, <2>1, <2>2
<1>6. WordAt(x, 1) = w
    <2>. DEFINE i == 1
    <2>1. i \in 1..(Len(x) + 1) /\ i + Len(w) - 1 <= Len(x)
        BY <1>3
    <2>2. \A j \in 1..Len(w) : x[i + j - 1] = w[j] /\ w[j] \notin Blanks
        BY <1>4
    <2>3. i + Len(w) <= Len(x) => x[i + Len(w)] \in Blanks
        BY <1>5
    <2>. HIDE DEF i
    <2>4. WordAt(x, i) = w
        BY <1>1, <2>1, <2>2, <2>3, WordIs
    <2>. QED BY <2>4 DEF i
<1>. QED BY <1>6 DEF x

\* What a trailing parameter is written as.
Trailer(t) == IF t # <<>> THEN <<"SP", ":">> \o t ELSE <<>>

\* The trailing parameter is read as it was.
LEMMA TrailerParses ==
    ASSUME NEW s \in Seq(Symbols), NoColon(s), s # <<>> => s[1] \in Blanks, NEW t \in Seq(Symbols)
    PROVE  LET x == s \o Trailer(t) IN
           /\ x \in Seq(Symbols) /\ parseParameters(x) = parseParameters(s) /\ parseTrailing(x) = t
           /\ x # <<>> => x[1] \in Blanks
<1>1. CASE t = <<>>
    <2>1. s \o Trailer(t) = s
        BY <1>1, ConcatEmptySeq DEF Trailer
    <2>2. parseTrailing(s) = <<>>
        <3>1. Colon(s) = Len(s) + 1 /\ Len(s) \in Nat
            BY NoColonIsLast, LenProperties
        <3>2. SubSeq(s, (Len(s) + 1) + 1, Len(s)) = <<>>
            BY <3>1, SubSeqEmpty
        <3>. QED BY <3>1, <3>2 DEF parseTrailing, Drop
    <2>. QED BY <1>1, <2>1, <2>2
<1>2. CASE t # <<>>
    <2>. DEFINE y == <<":">> \o t
                x == s \o (<<"SP">> \o y)
    <2>1. y \in Seq(Symbols)
        BY Symbol, OneBefore
    <2>2. Trailer(t) = <<"SP">> \o y
        <3>1. <<"SP", ":">> = <<"SP">> \o <<":">>
            OBVIOUS
        <3>2. <<"SP">> \in Seq(Symbols) /\ <<":">> \in Seq(Symbols)
            BY Symbol
        <3>3. (<<"SP">> \o <<":">>) \o t = <<"SP">> \o (<<":">> \o t)
            <4>1. Associative(<<"SP">>, <<":">>, t)
                BY <3>2, JoinedTwice
            <4>. QED BY <3>2, <4>1 DEF Associative
        <3>. QED BY <1>2, <3>1, <3>3 DEF Trailer
    <2>3. x \in Seq(Symbols) /\ parseParameters(x) = parseParameters(s) /\ parseTrailing(x) = t
        BY TrailingMore
    <2>4. (\A i \in 1..Len(s) : x[i] = s[i]) /\ x[Len(s) + 1] \in Blanks
        <3>. HIDE DEF y
        <3>. QED BY <2>1, Spaced
    <2>5. x[1] \in Blanks
        <3>. HIDE DEF x
        <3>1. Len(s) \in Nat /\ (s = <<>> => Len(s) = 0)
            BY EmptySeq, LenProperties
        <3>2. CASE Len(s) = 0
            BY <2>4, <3>2
        <3>3. CASE Len(s) # 0
            <4>1. 1 \in 1..Len(s) /\ s # <<>>
                BY <3>1, <3>3
            <4>. QED BY <2>4, <4>1
        <3>. QED BY <3>2, <3>3
    <2>. HIDE DEF y
    <2>6. s \o Trailer(t) = x
        BY <2>2
    <2>. HIDE DEF x
    <2>. QED BY <2>3, <2>5, <2>6
<1>. QED BY <1>1, <1>2

\* All that follows the prefix is read as it was.
ReadsBody(prefix, c, s, t) ==
    LET x == c \o (s \o Trailer(t)) IN
    /\ x \in Seq(Symbols) /\ x # <<>> /\ x[1] \notin Separators
    /\ parseCommand(prefix, x) = RawMessage(prefix, c, parseParameters(s), t)

LEMMA BodyParses ==
    ASSUME ClassesAssumption, NEW prefix, NEW c \in Seq(Symbols), IsCommand(c),
           NEW s \in Seq(Symbols), NoColon(s), s # <<>> => s[1] \in Blanks, NEW t \in Seq(Symbols)
    PROVE  ReadsBody(prefix, c, s, t)
<1>. DEFINE r == s \o Trailer(t)
            x == c \o r
<1>1. /\ r \in Seq(Symbols) /\ parseParameters(r) = parseParameters(s) /\ parseTrailing(r) = t
      /\ r # <<>> => r[1] \in Blanks
    BY TrailerParses
<1>. HIDE DEF r
<1>2. /\ x \in Seq(Symbols) /\ Len(x) = Len(c) + Len(r) /\ Drop(x, Len(c)) = r
      /\ \A i \in 1..Len(c) : x[i] = c[i]
    BY <1>1, Joined
<1>3. /\ Len(c) \in Nat \ {0} /\ Len(r) \in Nat
      /\ \A j \in 1..Len(c) : c[j] \notin Separators
    BY <1>1, CommandsAreWords, LenProperties
<1>4. WordAt(x, 1) = c
    <2>1. \A j \in 1..Len(c) : c[j] \notin Blanks
        BY <1>3 DEF Separators
    <2>. QED BY <1>1, <2>1, WordBefore
<1>. HIDE DEF x
<1>5. parseCommand(prefix, x) = RawMessage(prefix, c, parseParameters(r), parseTrailing(r))
    BY <1>2, <1>4 DEF parseCommand
<1>6. Len(x) # 0 /\ 1 \in 1..Len(c)
    BY <1>2, <1>3
<1>7. x # <<>>
    BY <1>2, <1>6, EmptySeq
<1>8. x[1] \notin Separators
    BY <1>2, <1>3, <1>6
<1>. QED BY <1>1, <1>2, <1>5, <1>7, <1>8 DEF ReadsBody, x, r

\* Nothing of a text stops, and what follows it does.
LEMMA UntilJoined ==
    ASSUME NEW stops, NEW s \in Seq(Symbols), \A i \in 1..Len(s) : s[i] \notin stops,
           NEW t \in Seq(Symbols), t # <<>>, t[1] \in stops
    PROVE  Until(s \o t, stops) = Len(s)
<1>. DEFINE x == s \o t
<1>1. /\ x \in Seq(Symbols) /\ Len(x) = Len(s) + Len(t)
      /\ \A i \in 1..Len(s) : x[i] = s[i]
      /\ \A i \in 1..Len(t) : x[Len(s) + i] = t[i]
    BY Joined
<1>. HIDE DEF x
<1>2. Len(s) \in Nat /\ Len(t) \in Nat /\ Len(t) # 0
    BY EmptySeq, LenProperties
<1>3. Len(s) \in 0..Len(x) /\ 1 \in 1..Len(t)
    BY <1>1, <1>2
<1>4. x[Len(s) + 1] \in stops
    BY <1>1, <1>3
<1>5. \A i \in 1..Len(s) : x[i] \notin stops
    BY <1>1
<1>6. Until(x, stops) = Len(s)
    BY <1>1, <1>3, <1>4, <1>5, UntilIs
<1>. QED BY <1>6 DEF x

-----------------------------------------------------------------------------
(* Prefixes.                                                               *)

\* A prefix as RawParser leaves it.
Readable(p) ==
    /\ p = Prefix(p.nick, p.user, p.host)
    /\ p.nick \in Seq(Symbols) /\ p.user \in Seq(Symbols) /\ p.host \in Seq(Symbols)
    /\ \A i \in 1..Len(p.host) : p.host[i] \notin Blanks
    /\ \/ /\ p.nick = <<>> /\ p.user = <<>>
          /\ "." \in ToSet(p.host) /\ "!" \notin ToSet(p.host) /\ "@" \notin ToSet(p.host)
       \/ /\ p.nick # <<>> /\ \A i \in 1..Len(p.nick) : p.nick[i] \in Alphabetic \cup Digits \cup Specials
          /\ \A i \in 1..Len(p.user) : p.user[i] \notin Blanks \cup {"@"}

\* What comes before the first blank has none.
LEMMA UntilSpace ==
    ASSUME NEW s \in Seq(Symbols)
    PROVE  /\ Take(s, Until(s, Blanks)) \in Seq(Symbols)
           /\ \A i \in 1..Len(Take(s, Until(s, Blanks))) : Take(s, Until(s, Blanks))[i] \notin Blanks
<1>. DEFINE n == Until(s, Blanks)
<1>1. n \in 0..Len(s) /\ \A i \in 1..n : s[i] \notin Blanks
    BY UntilStops
<1>. HIDE DEF n
<1>2. Take(s, n) \in Seq(Symbols) /\ Len(Take(s, n)) = n /\ \A i \in 1..n : Take(s, n)[i] = s[i]
    BY <1>1, TakeIsBeginning
<1>3. \A i \in 1..Len(Take(s, n)) : Take(s, n)[i] \notin Blanks
    BY <1>1, <1>2
<1>. QED BY <1>2, <1>3 DEF n

LEMMA ParsedPrefix ==
    ASSUME NEW s \in Seq(Symbols), parsePrefix(s).is = "prefix", "TAB" \notin ToSet(Spaceless(s))
    PROVE  Readable(parsePrefix(s).prefix)
<1>0. Len(s) \in Nat /\ <<>> \in Seq(Symbols) /\ Len(<<>>) = 0
    BY LenProperties
<1>1. CASE ~IsNick(s)
    <2>. DEFINE host == Take(s, HostEnd(s))
    <2>1. parsePrefix(s).prefix = Prefix(<<>>, <<>>, host)
        BY <1>1 DEF parsePrefix
    <2>2. host \in Seq(Symbols) /\ \A i \in 1..Len(host) : host[i] \notin Blanks
        BY UntilSpace DEF HostEnd
    <2>3. WordAt(s, 1) = host
        <3>1. Drop(s, 0) = s
            BY SubSeqFull DEF Drop
        <3>. QED BY <3>1 DEF WordAt, HostEnd
    <2>a. Spaceless(s) = host
        BY <2>3, SpacelessIsWord
    <2>. HIDE DEF host
    <2>4. "." \in ToSet(host) /\ "!" \notin ToSet(host) /\ "@" \notin ToSet(host)
        BY <1>1, <2>a DEF IsNick
    <2>. QED BY <1>0, <2>1, <2>2, <2>4 DEF Readable, Prefix
<1>2. CASE IsNick(s)
    <2>. DEFINE n == NickEnd(s)
                u == UserEnd(s)
                nick == Take(s, n)
                user == SubSeq(s, n + 2, u)
                rest == Drop(s, u)
                h == IF First(rest, "@") THEN Tail(rest) ELSE rest
                host == Take(h, Until(h, Blanks))
    <2>1. /\ parsePrefix(s).prefix = Prefix(nick, user, host)
          /\ n # 0 /\ ToSet(nick) \subseteq Alphabetic \cup Digits \cup Specials /\ n # Len(s)
        BY <1>2 DEF parsePrefix, Error, Terminate
    <2>2. n \in 0..Len(s)
        BY UntilStops DEF NickEnd
    <2>3. n \in 1..Len(s) /\ n < Len(s)
        <3>. HIDE DEF n
        <3>. QED BY <1>0, <2>1, <2>2
    <2>4. nick \in Seq(Symbols) /\ Len(nick) = n
        <3>. HIDE DEF n
        <3>. QED BY <2>2, TakeIsBeginning
    <2>5. nick # <<>> /\ \A i \in 1..Len(nick) : nick[i] \in Alphabetic \cup Digits \cup Specials
        <3>. HIDE DEF n
        <3>1. nick # <<>>
            BY <2>3, <2>4, EmptySeq
        <3>. HIDE DEF nick
        <3>2. \A i \in 1..Len(nick) : nick[i] \in ToSet(nick)
            BY <2>4, ToSetOfSeq
        <3>. QED BY <2>1, <3>1, <3>2
    <2>. DEFINE k == Until(Drop(s, n + 1), Blanks \cup {"@"})
    <2>6. u = IF s[n + 1] = "!" THEN n + 1 + k ELSE n
        BY DEF UserEnd
    <2>. HIDE DEF n, u
    <2>7. n + 1 \in 0..Len(s)
        BY <1>0, <2>3
    <2>8. /\ Drop(s, n + 1) \in Seq(Symbols) /\ Len(Drop(s, n + 1)) = Len(s) - (n + 1)
          /\ \A i \in 1..(Len(s) - (n + 1)) : Drop(s, n + 1)[i] = s[n + 1 + i]
        BY <2>7, DropIsRest
    <2>9. k \in 0..(Len(s) - (n + 1)) /\ \A i \in 1..k : Drop(s, n + 1)[i] \notin Blanks \cup {"@"}
        BY <2>8, UntilStops
    <2>. HIDE DEF k
    <2>10. /\ u \in 0..Len(s) /\ user \in Seq(Symbols)
           /\ \A i \in 1..Len(user) : user[i] \notin Blanks \cup {"@"}
        <3>1. CASE s[n + 1] = "!"
            <4>1. u = n + 1 + k /\ k \in Nat
                BY <1>0, <2>3, <2>6, <2>9, <3>1
            <4>2. u \in 0..Len(s)
                BY <1>0, <2>3, <2>9, <4>1
            <4>3. n + 2 \in 1..(Len(s) + 1) /\ u \in ((n + 2) - 1)..Len(s) /\ u - (n + 2) + 1 = k
                BY <1>0, <2>3, <4>1, <4>2
            <4>4. /\ user \in Seq(Symbols) /\ Len(user) = k
                  /\ \A i \in 1..k : user[i] = s[(n + 2) + i - 1]
                BY <4>3, Piece
            <4>. HIDE DEF user
            <4>5. \A i \in 1..k : (n + 2) + i - 1 = n + 1 + i /\ i \in 1..(Len(s) - (n + 1))
                BY <2>3, <2>9, <4>1
            <4>6. \A i \in 1..k : s[n + 1 + i] \notin Blanks \cup {"@"}
                BY <2>8, <2>9, <4>5
            <4>7. \A i \in 1..k : user[i] = s[n + 1 + i]
                BY <4>4, <4>5
            <4>8. \A i \in 1..Len(user) : user[i] \notin Blanks \cup {"@"}
                BY <4>4, <4>6, <4>7
            <4>. QED BY <4>2, <4>4, <4>8
        <3>2. CASE s[n + 1] # "!"
            <4>1. u = n
                BY <2>6, <3>2
            <4>2. user = <<>>
                <5>1. n + 2 \in Int /\ n \in Int /\ n < n + 2
                    BY <2>3
                <5>. QED BY <4>1, <5>1, SubSeqEmpty
            <4>. HIDE DEF user
            <4>3. \A i \in 1..Len(user) : FALSE
                BY <1>0, <4>2
            <4>. QED BY <1>0, <2>2, <4>1, <4>2, <4>3
        <3>. QED BY <3>1, <3>2
    <2>11. rest \in Seq(Symbols)
        BY <2>10, DropIsRest
    <2>12. h \in Seq(Symbols)
        <3>. HIDE DEF rest
        <3>1. First(rest, "@") => Tail(rest) \in Seq(Symbols)
            BY <2>11, HeadTailProperties DEF First
        <3>. QED BY <2>11, <3>1
    <2>13. host \in Seq(Symbols) /\ \A i \in 1..Len(host) : host[i] \notin Blanks
        <3>. HIDE DEF h
        <3>. QED BY <2>12, UntilSpace
    <2>. HIDE DEF nick, user, host
    <2>. QED BY <2>1, <2>4, <2>5, <2>10, <2>13 DEF Readable, Prefix
<1>. QED BY <1>1, <1>2

LEMMA ToSetJoined ==
    ASSUME NEW s \in Seq(Symbols), NEW t \in Seq(Symbols)
    PROVE  ToSet(s \o t) = ToSet(s) \cup ToSet(t)
<1>. DEFINE x == s \o t
<1>1. /\ x \in Seq(Symbols) /\ Len(x) = Len(s) + Len(t)
      /\ \A i \in 1..Len(s) : x[i] = s[i]
      /\ \A i \in 1..Len(t) : x[Len(s) + i] = t[i]
    BY Joined
<1>. HIDE DEF x
<1>2. Len(s) \in Nat /\ Len(t) \in Nat
    BY LenProperties
<1>3. \A c : c \in ToSet(x) <=> \E i \in 1..Len(x) : x[i] = c
    BY <1>1, ToSetOfSeq
<1>4. /\ \A c : c \in ToSet(s) <=> \E i \in 1..Len(s) : s[i] = c
      /\ \A c : c \in ToSet(t) <=> \E i \in 1..Len(t) : t[i] = c
    BY ToSetOfSeq
<1>5. ASSUME NEW c \in ToSet(x)
      PROVE  c \in ToSet(s) \cup ToSet(t)
    <2>1. PICK i \in 1..Len(x) : x[i] = c
        BY <1>3
    <2>2. CASE i \in 1..Len(s)
        BY <1>1, <1>4, <2>1, <2>2
    <2>3. CASE ~(i \in 1..Len(s))
        <3>1. i - Len(s) \in 1..Len(t) /\ i = Len(s) + (i - Len(s))
            BY <1>1, <1>2, <2>3
        <3>2. t[i - Len(s)] = c
            BY <1>1, <2>1, <3>1
        <3>. QED BY <1>4, <3>1, <3>2
    <2>. QED BY <2>2, <2>3
<1>6. ASSUME NEW c \in ToSet(s)
      PROVE  c \in ToSet(x)
    <2>1. PICK i \in 1..Len(s) : s[i] = c
        BY <1>4
    <2>2. i \in 1..Len(x)
        BY <1>1, <1>2
    <2>. QED BY <1>1, <1>3, <2>1, <2>2
<1>7. ASSUME NEW c \in ToSet(t)
      PROVE  c \in ToSet(x)
    <2>1. PICK i \in 1..Len(t) : t[i] = c
        BY <1>4
    <2>2. Len(s) + i \in 1..Len(x)
        BY <1>1, <1>2
    <2>. QED BY <1>1, <1>3, <2>1, <2>2
<1>8. ToSet(x) = ToSet(s) \cup ToSet(t)
    BY <1>5, <1>6, <1>7
<1>. QED BY <1>8 DEF x

\* A user or a host as it is written.
Marked(c, t) == IF t # <<>> THEN <<c>> \o t ELSE <<>>

LEMMA NotMarked ==
    ASSUME NEW c, NEW z \in Seq(Symbols)
    PROVE  Marked(c, <<>>) = <<>> /\ Marked(c, <<>>) \o z = z /\ ToSet(Marked(c, <<>>)) = {}
<1>1. Marked(c, <<>>) = <<>> /\ <<>> \o z = z
    BY ConcatEmptySeq DEF Marked
<1>2. ToSet(<<>>) = {}
    BY DEF ToSet
<1>. QED BY <1>1, <1>2

\* A mark before a text t and what follows that.
HasMark(c, t, z) ==
    /\ Marked(c, t) = <<c>> \o t /\ Marked(c, t) \in Seq(Symbols)
    /\ ToSet(Marked(c, t)) = {c} \cup ToSet(t)
    /\ Marked(c, t) \o z = <<c>> \o (t \o z) /\ Marked(c, t) \o z \in Seq(Symbols)
    /\ Marked(c, t) \o z # <<>> /\ (Marked(c, t) \o z)[1] = c

LEMMA MarkedJoined ==
    ASSUME NEW c \in Symbols, NEW t \in Seq(Symbols), t # <<>>, NEW z \in Seq(Symbols)
    PROVE  HasMark(c, t, z)
<1>1. Marked(c, t) = <<c>> \o t /\ <<c>> \in Seq(Symbols) /\ <<c>> \o t \in Seq(Symbols)
    BY OneBefore DEF Marked
<1>2. (<<c>> \o t) \o z = <<c>> \o (t \o z)
    <2>1. Associative(<<c>>, t, z)
        BY <1>1, JoinedTwice
    <2>. QED BY <1>1, <2>1 DEF Associative
<1>3. t \o z \in Seq(Symbols)
    BY Joined
<1>. DEFINE y == t \o z
            x == <<c>> \o y
<1>. HIDE DEF y
<1>4. x \in Seq(Symbols) /\ x # <<>> /\ x[1] = c
    BY <1>3, OneBefore DEF y
<1>. HIDE DEF x
<1>5. Marked(c, t) \o z = x
    BY <1>1, <1>2 DEF x, y
<1>6. ToSet(<<c>>) = {c}
    BY DEF ToSet
<1>7. ToSet(<<c>> \o t) = {c} \cup ToSet(t)
    BY <1>1, <1>6, ToSetJoined
<1>8. Marked(c, t) \o z = <<c>> \o (t \o z)
    BY <1>1, <1>2
<1>9. ToSet(Marked(c, t)) = {c} \cup ToSet(t)
    BY <1>1, <1>7
<1>10. Marked(c, t) \o z \in Seq(Symbols) /\ Marked(c, t) \o z # <<>> /\ (Marked(c, t) \o z)[1] = c
    BY <1>4, <1>5
<1>. QED BY <1>1, <1>8, <1>9, <1>10 DEF HasMark

\* The host is read as it was.
LEMMA HostIsRead ==
    ASSUME NEW host \in Seq(Symbols), \A i \in 1..Len(host) : host[i] \notin Blanks,
           NEW r \in Seq(Symbols), r # <<>>, r[1] \in Blanks
    PROVE  LET z == Marked("@", host) \o r
               h == IF First(z, "@") THEN Tail(z) ELSE z
           IN  Take(h, Until(h, Blanks)) = host
<1>. DEFINE z == Marked("@", host) \o r
            h == IF First(z, "@") THEN Tail(z) ELSE z
<1>1. CASE host = <<>>
    <2>1. z = r
        BY <1>1, NotMarked
    <2>2. Head(r) = r[1]
        OBVIOUS
    <2>3. h = r
        BY <2>1, <2>2, MarksAreNotBlank DEF First
    <2>. HIDE DEF h
    <2>4. Until(r, Blanks) = 0
        <3>1. 0 \in 0..Len(r) /\ r[0 + 1] \in Blanks /\ \A i \in 1..0 : FALSE
            BY LenProperties
        <3>. QED BY <3>1, UntilIs
    <2>5. Take(r, 0) = <<>>
        BY SubSeqEmpty DEF Take
    <2>. QED BY <1>1, <2>3, <2>4, <2>5 DEF h, z
<1>2. CASE host # <<>>
    <2>. DEFINE y == host \o r
    <2>1. y \in Seq(Symbols) /\ Take(y, Len(host)) = host
        BY Joined
    <2>2. Until(y, Blanks) = Len(host)
        BY UntilJoined
    <2>3. z = <<"@">> \o y
        <3>1. z = (<<"@">> \o host) \o r /\ <<"@">> \in Seq(Symbols)
            BY <1>2, Symbol DEF Marked
        <3>9. Associative(<<"@">>, host, r)
            BY <3>1, JoinedTwice
        <3>. QED BY <3>1, <3>9 DEF Associative
    <2>. HIDE DEF y, z
    <2>4. First(z, "@") /\ Tail(z) = y
        BY <2>1, <2>3, Symbol, OneBefore DEF First
    <2>5. h = y
        BY <2>4
    <2>. HIDE DEF h
    <2>. QED BY <2>1, <2>2, <2>5 DEF h, z
<1>. QED BY <1>1, <1>2

\* The parser finds the user after the nickname, and what follows.
ReadsUser(nick, user, z) ==
    LET s == nick \o (Marked("!", user) \o z) IN
    /\ s[Len(nick) + 1] = "!" => UserEnd(s) # Len(nick) + 1
    /\ UserEnd(s) # Len(s)
    /\ SubSeq(s, Len(nick) + 2, UserEnd(s)) = user /\ Drop(s, UserEnd(s)) = z

\* Where the user ends and the host begins.
LEMMA UserIsRead ==
    ASSUME NEW nick \in Seq(Symbols), NEW user \in Seq(Symbols), NEW z \in Seq(Symbols),
           z # <<>>, z[1] \in Blanks \cup {"@"}, \A i \in 1..Len(user) : user[i] \notin Blanks \cup {"@"},
           NickEnd(nick \o (Marked("!", user) \o z)) = Len(nick)
    PROVE  ReadsUser(nick, user, z)
<1>. DEFINE n == Len(nick)
            s == nick \o (Marked("!", user) \o z)
<1>0. NickEnd(s) = n
    OBVIOUS
<1>1. n \in Nat /\ Len(user) \in Nat /\ Len(z) \in Nat \ {0}
    BY EmptySeq, LenProperties
<1>2. CASE user = <<>>
    <2>1. Marked("!", user) \o z = z
        BY <1>2, NotMarked
    <2>2. s = nick \o z
        BY <2>1
    <2>. HIDE DEF s
    <2>3. /\ Len(s) = n + Len(z) /\ Drop(s, n) = z
          /\ \A i \in 1..Len(z) : s[n + i] = z[i]
        <3>1. /\ Len(nick \o z) = n + Len(z) /\ Drop(nick \o z, n) = z
              /\ \A i \in 1..Len(z) : (nick \o z)[n + i] = z[i]
            BY Joined
        <3>. QED BY <2>2, <3>1
    <2>4. s[n + 1] \in Blanks \cup {"@"}
        <3>1. 1 \in 1..Len(z)
            BY <1>1
        <3>. QED BY <2>3, <3>1
    <2>5. s[n + 1] # "!"
        BY <2>4, MarksAreNotBlank
    <2>6. UserEnd(s) = n
        BY <1>0, <2>5 DEF UserEnd
    <2>7. SubSeq(s, n + 2, n) = <<>>
        <3>1. n + 2 \in Int /\ n \in Int /\ n < n + 2
            BY <1>1
        <3>. QED BY <3>1, SubSeqEmpty
    <2>8. n # Len(s)
        BY <1>1, <2>3
    <2>. QED BY <1>2, <2>3, <2>5, <2>6, <2>7, <2>8 DEF s, ReadsUser
<1>3. CASE user # <<>>
    <2>. DEFINE a == nick \o <<"!">>
                b == user \o z
                d == a \o user
    <2>1. <<"!">> \in Seq(Symbols) /\ Len(<<"!">>) = 1 /\ "!" \in Symbols
        BY Symbol
    <2>2. a \in Seq(Symbols) /\ Len(a) = n + 1 /\ a[n + 1] = "!"
        <3>. DEFINE o == <<"!">>
        <3>1. o \in Seq(Symbols) /\ Len(o) = 1 /\ o[1] = "!"
            BY <2>1
        <3>. HIDE DEF o
        <3>2. nick \o o \in Seq(Symbols) /\ Len(nick \o o) = n + Len(o) /\ \A i \in 1..Len(o) : (nick \o o)[n + i] = o[i]
            <4>1. /\ nick \o o \in Seq(Symbols) /\ Len(nick \o o) = Len(nick) + Len(o)
                  /\ \A i \in 1..Len(o) : (nick \o o)[Len(nick) + i] = o[i]
                BY <3>1, Joined
            <4>. QED BY <4>1
        <3>3. 1 \in 1..Len(o)
            BY <3>1
        <3>. QED BY <3>1, <3>2, <3>3 DEF o
    <2>3. b \in Seq(Symbols)
        BY Joined
    <2>4. Marked("!", user) \o z = <<"!">> \o b
        <3>1. Associative(<<"!">>, user, z)
            BY <1>3, <2>1, JoinedTwice
        <3>. QED BY <1>3, <2>1, <3>1 DEF Associative, Marked
    <2>5. s = a \o b
        <3>1. (nick \o <<"!">>) \o b = nick \o (<<"!">> \o b)
            <4>1. Associative(nick, <<"!">>, b)
                BY <2>1, <2>3, JoinedTwice
            <4>. QED BY <2>1, <2>3, <4>1 DEF Associative
        <3>. QED BY <2>4, <3>1
    <2>. HIDE DEF a, s
    <2>6. d \in Seq(Symbols) /\ Len(d) = n + 1 + Len(user)
          /\ \A i \in 1..Len(user) : d[n + 1 + i] = user[i]
        <3>1. d \in Seq(Symbols) /\ Len(d) = Len(a) + Len(user)
              /\ \A i \in 1..Len(user) : d[Len(a) + i] = user[i]
            BY <2>2, Joined
        <3>. QED BY <2>2, <3>1
    <2>7. s = d \o z
        <3>1. (a \o user) \o z = a \o (user \o z)
            <4>1. a \in Seq(Symbols)
                BY <2>2
            <4>9. Associative(a, user, z)
                BY <4>1, JoinedTwice
            <4>. QED BY <4>9 DEF Associative
        <3>. QED BY <2>5, <3>1
    <2>. HIDE DEF b, d
    <2>8. /\ s \in Seq(Symbols) /\ Len(s) = n + 1 + Len(user) + Len(z) /\ Drop(s, n + 1 + Len(user)) = z
          /\ \A i \in 1..(n + 1 + Len(user)) : s[i] = d[i]
        <3>1. d \o z \in Seq(Symbols) /\ Len(d \o z) = Len(d) + Len(z) /\ Drop(d \o z, Len(d)) = z
              /\ \A i \in 1..Len(d) : (d \o z)[i] = d[i]
            <4>1. d \in Seq(Symbols)
                BY <2>6
            <4>. QED BY <4>1, Joined
        <3>. QED BY <2>6, <2>7, <3>1
    <2>9. Drop(s, n + 1) = b /\ s[n + 1] = "!"
        <3>0. Drop(a \o b, Len(a)) = b /\ \A i \in 1..Len(a) : (a \o b)[i] = a[i]
            BY <2>2, <2>3, Joined
        <3>1. Drop(s, Len(a)) = b /\ \A i \in 1..Len(a) : s[i] = a[i]
            BY <2>5, <3>0
        <3>2. n + 1 \in 1..Len(a)
            BY <1>1, <2>2
        <3>. QED BY <2>2, <3>1, <3>2
    <2>10. Until(b, Blanks \cup {"@"}) = Len(user)
        BY UntilJoined DEF b
    <2>11. UserEnd(s) = n + 1 + Len(user)
        BY <1>0, <2>9, <2>10 DEF UserEnd
    <2>12. Len(user) # 0
        BY <1>3, EmptySeq
    <2>13. n + 1 + Len(user) # n + 1 /\ n + 1 + Len(user) # Len(s)
        BY <1>1, <2>8, <2>12
    <2>14. SubSeq(s, n + 2, n + 1 + Len(user)) = user
        <3>. DEFINE m == n + 1 + Len(user)
                    u == SubSeq(s, n + 2, m)
        <3>1. n + 2 \in 1..(Len(s) + 1) /\ m \in ((n + 2) - 1)..Len(s) /\ m - (n + 2) + 1 = Len(user)
            BY <1>1, <2>8
        <3>. HIDE DEF m
        <3>2. u \in Seq(Symbols) /\ Len(u) = m - (n + 2) + 1
              /\ \A i \in 1..(m - (n + 2) + 1) : u[i] = s[(n + 2) + i - 1]
            BY <2>8, <3>1, Piece
        <3>. HIDE DEF u
        <3>3. \A i \in 1..Len(user) : (n + 2) + i - 1 = n + 1 + i /\ n + 1 + i \in 1..(n + 1 + Len(user))
            BY <1>1
        <3>4. ASSUME NEW i \in 1..Len(user)
              PROVE  u[i] = user[i]
            <4>1. u[i] = s[n + 1 + i]
                BY <3>1, <3>2, <3>3
            <4>. QED BY <2>6, <2>8, <3>3, <4>1
        <3>5. u = user
            <4>1. u \in Seq(Symbols) /\ Len(u) = Len(user)
                BY <3>1, <3>2
            <4>. QED BY <3>4, <4>1, SeqEqual
        <3>. QED BY <3>5 DEF u, m
    <2>. QED BY <2>8, <2>11, <2>13, <2>14 DEF s, ReadsUser
<1>. QED BY <1>2, <1>3

\* A prefix without its colon, as it is written.
Bare(p) == IF p.nick # <<>> THEN p.nick \o (Marked("!", p.user) \o Marked("@", p.host)) ELSE p.host

\* What comes before the first space is read whole.
LEMMA BareIsOneWord ==
    ASSUME NEW x \in Seq(Symbols), Blanks \cap ToSet(x) = {}, NEW r \in Seq(Symbols), r # <<>>, r[1] = "SP"
    PROVE  /\ x \o r \in Seq(Symbols) /\ Spaceless(x \o r) = x
           /\ HostEnd(x \o r) = Len(x) /\ Take(x \o r, HostEnd(x \o r)) = x
           /\ Drop(x \o r, HostEnd(x \o r)) = r
<1>1. \A i \in 1..Len(x) : x[i] \notin Blanks
    BY ToSetOfSeq
<1>2. \A i \in 1..Len(x) : x[i] \notin {"SP"}
    BY <1>1, BlanksAreTwo
<1>3. Until(x \o r, {"SP"}) = Len(x)
    BY <1>2, UntilJoined
<1>4. Until(x \o r, Blanks) = Len(x)
    BY <1>1, UntilJoined, BlanksAreTwo
<1>5. x \o r \in Seq(Symbols) /\ Take(x \o r, Len(x)) = x /\ Drop(x \o r, Len(x)) = r
    BY Joined
<1>. QED BY <1>3, <1>4, <1>5 DEF HostEnd, Spaceless

\* A server's name is read as it was.
LEMMA ServerIsRead ==
    ASSUME NEW p, Readable(p), p.nick = <<>>, NEW r \in Seq(Symbols), r # <<>>, r[1] = "SP"
    PROVE  parsePrefix(Bare(p) \o r) = [is |-> "prefix", rest |-> r, prefix |-> p]
<1>. DEFINE x == p.host
            s == x \o r
<1>1. /\ x \in Seq(Symbols) /\ p = Prefix(<<>>, <<>>, x)
      /\ \A i \in 1..Len(x) : x[i] \notin Blanks
      /\ "." \in ToSet(x) /\ "!" \notin ToSet(x) /\ "@" \notin ToSet(x)
    BY DEF Readable
<1>2. Bare(p) = x
    BY DEF Bare
<1>. HIDE DEF x
<1>3. Blanks \cap ToSet(x) = {}
    BY <1>1, ToSetOfSeq
<1>4. Spaceless(s) = x /\ Take(s, HostEnd(s)) = x /\ Drop(s, HostEnd(s)) = r
    BY <1>1, <1>3, BareIsOneWord
<1>. HIDE DEF s
<1>5. ~IsNick(s)
    BY <1>1, <1>4 DEF IsNick
<1>6. parsePrefix(s) = [is |-> "prefix", rest |-> r, prefix |-> p]
    BY <1>1, <1>4, <1>5 DEF parsePrefix
<1>. QED BY <1>2, <1>6 DEF s

\* What is written of a nickname, a user and a host, before a text r.
PartsOf(nick, user, host, r) ==
    LET U == Marked("!", user)
        H == Marked("@", host)
        x == nick \o (U \o H)
        z == H \o r
        y == U \o z
    IN  /\ x \in Seq(Symbols) /\ y \in Seq(Symbols) /\ z \in Seq(Symbols)
        /\ ToSet(x) = ToSet(nick) \cup (IF user = <<>> THEN {} ELSE {"!"} \cup ToSet(user))
                                  \cup (IF host = <<>> THEN {} ELSE {"@"} \cup ToSet(host))
        /\ z # <<>> /\ z[1] \in {r[1], "@"} /\ y # <<>> /\ y[1] \in {r[1], "!", "@"}
        /\ x \o r = nick \o y

LEMMA PartsJoined ==
    ASSUME NEW nick \in Seq(Symbols), NEW user \in Seq(Symbols), NEW host \in Seq(Symbols),
           NEW r \in Seq(Symbols), r # <<>>
    PROVE  PartsOf(nick, user, host, r)
<1>. DEFINE U == Marked("!", user)
            H == Marked("@", host)
            x == nick \o (U \o H)
            z == H \o r
            y == U \o z
<1>1. /\ H \in Seq(Symbols) /\ ToSet(H) = IF host = <<>> THEN {} ELSE {"@"} \cup ToSet(host)
      /\ z \in Seq(Symbols) /\ z # <<>> /\ z[1] \in {r[1], "@"}
    <2>1. CASE host = <<>>
        <3>1. H = <<>> /\ ToSet(H) = {} /\ <<>> \in Seq(Symbols) /\ z = r
            BY <2>1, NotMarked
        <3>. HIDE DEF H, z
        <3>. QED BY <2>1, <3>1
    <2>2. CASE host # <<>>
        <3>1. "@" \in Symbols
            BY Symbol
        <3>2. HasMark("@", host, r)
            BY <2>2, <3>1, MarkedJoined
        <3>3. /\ H \in Seq(Symbols) /\ ToSet(H) = {"@"} \cup ToSet(host)
              /\ z \in Seq(Symbols) /\ z # <<>> /\ z[1] = "@"
            BY <3>2 DEF HasMark
        <3>. HIDE DEF H, z
        <3>. QED BY <2>2, <3>3
    <2>. QED BY <2>1, <2>2
<1>. HIDE DEF H, z
<1>2. /\ U \in Seq(Symbols) /\ ToSet(U) = IF user = <<>> THEN {} ELSE {"!"} \cup ToSet(user)
      /\ y \in Seq(Symbols) /\ y # <<>> /\ y[1] \in {r[1], "!", "@"}
    <2>0. z \in Seq(Symbols)
        BY <1>1
    <2>1. CASE user = <<>>
        <3>1. U = <<>> /\ ToSet(U) = {} /\ <<>> \in Seq(Symbols) /\ y = z
            BY <2>0, <2>1, NotMarked
        <3>. HIDE DEF U, y
        <3>. QED BY <1>1, <2>1, <3>1
    <2>2. CASE user # <<>>
        <3>1. "!" \in Symbols
            BY Symbol
        <3>2. HasMark("!", user, z)
            BY <2>0, <2>2, <3>1, MarkedJoined
        <3>3. /\ U \in Seq(Symbols) /\ ToSet(U) = {"!"} \cup ToSet(user)
              /\ y \in Seq(Symbols) /\ y # <<>> /\ y[1] = "!"
            BY <3>2 DEF HasMark
        <3>. HIDE DEF U, y
        <3>. QED BY <2>2, <3>3
    <2>. QED BY <2>1, <2>2
<1>. HIDE DEF U
<1>3. U \in Seq(Symbols) /\ H \in Seq(Symbols)
    BY <1>1, <1>2
<1>4. U \o H \in Seq(Symbols) /\ ToSet(U \o H) = ToSet(U) \cup ToSet(H)
    BY <1>3, Joined, ToSetJoined
<1>5. x \o r = nick \o y
    <2>. DEFINE e == U \o H
    <2>1. e \in Seq(Symbols)
        BY <1>4
    <2>2. e \o r = U \o (H \o r)
        <3>1. Associative(U, H, r)
            BY <1>3, JoinedTwice
        <3>. QED BY <1>3, <3>1 DEF Associative
    <2>. HIDE DEF e
    <2>3. (nick \o e) \o r = nick \o (e \o r)
        <3>1. Associative(nick, e, r)
            BY <2>1, JoinedTwice
        <3>. QED BY <2>1, <3>1 DEF Associative
    <2>. QED BY <2>2, <2>3 DEF e, z
<1>6. x \in Seq(Symbols) /\ ToSet(x) = ToSet(nick) \cup ToSet(U \o H)
    BY <1>4, Joined, ToSetJoined
<1>. HIDE DEF x, y
<1>7. ToSet(x) = ToSet(nick) \cup (IF user = <<>> THEN {} ELSE {"!"} \cup ToSet(user))
                             \cup (IF host = <<>> THEN {} ELSE {"@"} \cup ToSet(host))
    BY <1>1, <1>2, <1>4, <1>6
<1>. QED BY <1>1, <1>2, <1>5, <1>6, <1>7 DEF PartsOf, U, H, x, y, z

\* A nickname, a user and a host are read as they were.
LEMMA NickIsRead ==
    ASSUME ClassesAssumption, NEW p, Readable(p), p.nick # <<>>,
           NEW r \in Seq(Symbols), r # <<>>, r[1] = "SP"
    PROVE  parsePrefix(Bare(p) \o r) = [is |-> "prefix", rest |-> r, prefix |-> p]
<1>. DEFINE nick == p.nick
            user == p.user
            host == p.host
            U == Marked("!", user)
            H == Marked("@", host)
            x == nick \o (U \o H)
            z == H \o r
            y == U \o z
            s == x \o r
<1>1. /\ nick \in Seq(Symbols) /\ user \in Seq(Symbols) /\ host \in Seq(Symbols)
      /\ p = Prefix(nick, user, host) /\ nick # <<>>
      /\ \A i \in 1..Len(host) : host[i] \notin Blanks
      /\ \A i \in 1..Len(nick) : nick[i] \in Alphabetic \cup Digits \cup Specials
      /\ \A i \in 1..Len(user) : user[i] \notin Blanks \cup {"@"}
    BY DEF Readable
<1>2. Bare(p) = x
    BY <1>1 DEF Bare
<1>. HIDE DEF nick, user, host
<1>t. nick \in Seq(Symbols) /\ user \in Seq(Symbols) /\ host \in Seq(Symbols)
    BY <1>1
<1>3. /\ Blanks \cap ToSet(host) = {} /\ Blanks \cap ToSet(user) = {}
      /\ ToSet(nick) \subseteq Alphabetic \cup Digits \cup Specials
    <2>1. \A c : c \in ToSet(host) <=> \E i \in 1..Len(host) : host[i] = c
        BY <1>1, ToSetOfSeq
    <2>2. \A c : c \in ToSet(user) <=> \E i \in 1..Len(user) : user[i] = c
        BY <1>1, ToSetOfSeq
    <2>3. \A c : c \in ToSet(nick) <=> \E i \in 1..Len(nick) : nick[i] = c
        BY <1>1, ToSetOfSeq
    <2>4. ToSet(nick) \subseteq Alphabetic \cup Digits \cup Specials
        BY <1>1, <2>3
    <2>5. Blanks \cap ToSet(host) = {}
        BY <1>1, <2>1
    <2>6. Blanks \cap ToSet(user) = {}
        BY <1>1, <2>2
    <2>. QED BY <2>4, <2>5, <2>6
<1>4. Blanks \cap ToSet(nick) = {} /\ "." \notin ToSet(nick)
    BY <1>3, MarksAreNotBlank DEF ClassesAssumption, Separators
<1>5. /\ x \in Seq(Symbols) /\ y \in Seq(Symbols) /\ z \in Seq(Symbols)
      /\ ToSet(x) = ToSet(nick) \cup (IF user = <<>> THEN {} ELSE {"!"} \cup ToSet(user))
                                \cup (IF host = <<>> THEN {} ELSE {"@"} \cup ToSet(host))
      /\ z # <<>> /\ z[1] \in {r[1], "@"} /\ y # <<>> /\ y[1] \in {r[1], "!", "@"}
      /\ s = nick \o y
    <2>1. PartsOf(nick, user, host, r)
        BY <1>t, PartsJoined
    <2>. QED BY <2>1 DEF PartsOf
<1>. HIDE DEF x
<1>6. z[1] \in Blanks \cup {"@"} /\ y[1] \in Blanks \cup {"!", "@"}
    <2>. HIDE DEF y, z
    <2>. QED BY <1>5, BlanksAreTwo
<1>7. Blanks \cap ToSet(x) = {}
    BY <1>3, <1>4, <1>5, MarksAreNotBlank
<1>8. Spaceless(s) = x /\ Drop(s, HostEnd(s)) = r
    BY <1>5, <1>7, BareIsOneWord
<1>. HIDE DEF s
<1>9. IsNick(s)
    <2>1. ToSet(x) \cap {"!", "@"} # {} \/ "." \notin ToSet(x)
        <3>1. CASE user # <<>>
            BY <1>5, <3>1
        <3>2. CASE host # <<>>
            BY <1>5, <3>2
        <3>3. CASE user = <<>> /\ host = <<>>
            BY <1>4, <1>5, <3>3
        <3>. QED BY <3>1, <3>2, <3>3
    <2>. QED BY <1>8, <2>1 DEF IsNick
<1>10. NickEnd(s) = Len(nick)
    <2>. HIDE DEF y
    <2>1. \A i \in 1..Len(nick) : nick[i] \notin Blanks \cup {"!", "@"}
        BY <1>1 DEF ClassesAssumption, Separators
    <2>2. Until(nick \o y, Blanks \cup {"!", "@"}) = Len(nick)
        BY <1>t, <1>5, <1>6, <2>1, UntilJoined
    <2>. QED BY <1>5, <2>2 DEF NickEnd
<1>11. /\ s[Len(nick) + 1] = "!" => UserEnd(s) # Len(nick) + 1
       /\ UserEnd(s) # Len(s)
       /\ SubSeq(s, Len(nick) + 2, UserEnd(s)) = user /\ Drop(s, UserEnd(s)) = z
    <2>. DEFINE o == nick \o (Marked("!", user) \o z)
    <2>. HIDE DEF z
    <2>1. s = o
        BY <1>5
    <2>2. NickEnd(o) = Len(nick)
        <3>. HIDE DEF o
        <3>. QED BY <1>10, <2>1
    <2>3. z \in Seq(Symbols) /\ z # <<>>
        BY <1>5
    <2>4. ReadsUser(nick, user, z)
        BY <1>1, <1>6, <2>2, <2>3, UserIsRead
    <2>5. /\ o[Len(nick) + 1] = "!" => UserEnd(o) # Len(nick) + 1
          /\ UserEnd(o) # Len(o)
          /\ SubSeq(o, Len(nick) + 2, UserEnd(o)) = user /\ Drop(o, UserEnd(o)) = z
        BY <2>4 DEF ReadsUser
    <2>. HIDE DEF o
    <2>. QED BY <2>1, <2>5
<1>12. Take(s, Len(nick)) = nick /\ Len(nick) # 0 /\ Len(nick) # Len(s)
    <2>. HIDE DEF y
    <2>1. Take(nick \o y, Len(nick)) = nick /\ Len(nick \o y) = Len(nick) + Len(y)
        BY <1>t, <1>5, Joined
    <2>2. Len(nick) \in Nat \ {0} /\ Len(y) \in Nat \ {0}
        BY <1>1, <1>5, EmptySeq, LenProperties
    <2>. QED BY <1>5, <2>1, <2>2
<1>. DEFINE h == IF First(z, "@") THEN Tail(z) ELSE z
<1>13. Take(h, Until(h, Blanks)) = host
    BY <1>1, HostIsRead, BlanksAreTwo
<1>. HIDE DEF h
<1>14. h = IF First(z, "@") THEN Tail(z) ELSE z
    BY DEF h
<1>. HIDE DEF z, y
<1>15. parsePrefix(s) = [is |-> "prefix", rest |-> r, prefix |-> p]
    BY <1>1, <1>3, <1>8, <1>9, <1>10, <1>11, <1>12, <1>13, <1>14 DEF parsePrefix
<1>. QED BY <1>2, <1>15 DEF s

LEMMA BareIsText ==
    ASSUME NEW p, Readable(p)
    PROVE  Bare(p) \in Seq(Symbols) /\ WrittenPrefix(p) = <<":">> \o Bare(p)
<1>. DEFINE nick == p.nick
            user == p.user
            host == p.host
<1>1. nick \in Seq(Symbols) /\ user \in Seq(Symbols) /\ host \in Seq(Symbols)
    BY DEF Readable
<1>2. <<"SP">> \in Seq(Symbols) /\ <<"SP">> # <<>> /\ <<":">> \in Seq(Symbols)
    BY Symbol
<1>3. CASE nick = <<>>
    BY <1>1, <1>3 DEF Bare, WrittenPrefix
<1>4. CASE nick # <<>>
    <2>. DEFINE U == Marked("!", user)
                H == Marked("@", host)
    <2>1. Bare(p) = nick \o (U \o H) /\ WrittenPrefix(p) = ((<<":">> \o nick) \o U) \o H
        BY <1>4 DEF Bare, WrittenPrefix, Marked
    <2>. HIDE DEF nick, user, host
    <2>2. U \in Seq(Symbols)
        <3>1. CASE user = <<>>
            BY <1>1, <3>1 DEF Marked
        <3>2. CASE user # <<>>
            <4>1. "!" \in Symbols
                BY Symbol
            <4>. QED BY <1>1, <3>2, <4>1, OneBefore DEF Marked
        <3>. QED BY <3>1, <3>2
    <2>3. H \in Seq(Symbols)
        <3>1. CASE host = <<>>
            BY <1>1, <3>1 DEF Marked
        <3>2. CASE host # <<>>
            <4>1. "@" \in Symbols
                BY Symbol
            <4>. QED BY <1>1, <3>2, <4>1, OneBefore DEF Marked
        <3>. QED BY <3>1, <3>2
    <2>. DEFINE colon == <<":">>
                a == colon \o nick
                e == U \o H
    <2>. HIDE DEF U, H
    <2>4. colon \in Seq(Symbols)
        BY <1>2
    <2>. HIDE DEF colon
    <2>5. a \in Seq(Symbols) /\ e \in Seq(Symbols)
        BY <1>1, <2>2, <2>3, <2>4, Joined
    <2>6. (a \o U) \o H = a \o e
        <3>1. a \in Seq(Symbols)
            BY <2>5
        <3>. HIDE DEF a
        <3>9. Associative(a, U, H)
            BY <2>2, <2>3, <3>1, JoinedTwice
        <3>. QED BY <3>9 DEF Associative
    <2>7. (colon \o nick) \o e = colon \o (nick \o e)
        <3>1. e \in Seq(Symbols)
            BY <2>5
        <3>2. nick \in Seq(Symbols)
            BY <1>1
        <3>. HIDE DEF a, e
        <3>9. Associative(colon, nick, e)
            BY <2>4, <3>1, <3>2, JoinedTwice
        <3>. QED BY <3>9 DEF Associative
    <2>8. nick \o e \in Seq(Symbols)
        <3>1. e \in Seq(Symbols)
            BY <2>5
        <3>. HIDE DEF e
        <3>. QED BY <1>1, <3>1, Joined
    <2>9. Bare(p) = nick \o e /\ WrittenPrefix(p) = (a \o U) \o H
        BY <2>1 DEF colon
    <2>. QED BY <2>6, <2>7, <2>8, <2>9 DEF colon
<1>. QED BY <1>3, <1>4

\* The space before a command is skipped.
LEMMA SkipSpaceSkipsOne ==
    ASSUME NEW s \in Seq(Symbols), s # <<>>, s[1] \notin Blanks
    PROVE  skipSpace(<<"SP">> \o s) = s
<1>. DEFINE x == <<"SP">> \o s
<1>1. x \in Seq(Symbols) /\ Len(x) = Len(s) + 1 /\ x[1] \in Blanks /\ \A i \in 1..Len(s) : x[i + 1] = s[i]
    BY Symbol, OneBefore, BlanksAreTwo
<1>2. Drop(x, 1) = s
    <2>. DEFINE o == <<"SP">>
    <2>1. o \in Seq(Symbols) /\ Len(o) = 1
        BY Symbol
    <2>. HIDE DEF o
    <2>2. Drop(o \o s, Len(o)) = s
        BY <2>1, Joined
    <2>. QED BY <2>1, <2>2 DEF o
<1>. HIDE DEF x
<1>3. Len(s) \in Nat \ {0}
    BY EmptySeq, LenProperties
<1>4. PICK n \in 0..Len(x) :
         /\ skipSpace(x) = Drop(x, n) /\ \A i \in 1..n : x[i] \in Blanks
         /\ n < Len(x) => x[n + 1] \notin Blanks
    BY <1>1, SkipSpaceSkips
<1>5. n # 0
    BY <1>1, <1>3, <1>4
<1>6. x[2] \notin Blanks
    <2>1. 1 \in 1..Len(s) /\ 1 + 1 = 2
        BY <1>3
    <2>. QED BY <1>1, <2>1
<1>7. ~(n > 1)
    <2>1. n > 1 => 2 \in 1..n
        BY <1>1, <1>3
    <2>. QED BY <1>4, <1>6, <2>1
<1>8. n = 1
    BY <1>1, <1>3, <1>5, <1>7
<1>. QED BY <1>2, <1>4, <1>8 DEF x

\* A command's line before anything but a blank and a colon is its own prefix' end.
LEMMA NoPrefixIsRead ==
    ASSUME NEW x \in Seq(Symbols), x # <<>>, x[1] \notin Separators
    PROVE  parseString(x) = parseCommand(NoPrefix, x)
<1>1. x[1] \notin Blanks /\ x[1] # ":"
    BY DEF Separators
<1>2. ~First(x, ":")
    BY <1>1 DEF First
<1>3. skipSpace(x) = x
    BY <1>1, SkipSpaceSkipsNothing
<1>. QED BY <1>2, <1>3 DEF parseString

\* The prefix of a line is read as it was.
LEMMA PrefixIsRead ==
    ASSUME ClassesAssumption, NEW p, Readable(p), NEW x \in Seq(Symbols), x # <<>>, x[1] \notin Separators
    PROVE  parseString((WrittenPrefix(p) \o <<"SP">>) \o x) = parseCommand(p, x)
<1>. DEFINE b == Bare(p)
            r == <<"SP">> \o x
            y == b \o r
            s == <<":">> \o y
<1>1. b \in Seq(Symbols) /\ WrittenPrefix(p) = <<":">> \o b
    BY BareIsText
<1>2. r \in Seq(Symbols) /\ r # <<>> /\ r[1] = "SP"
    BY Symbol, OneBefore
<1>3. skipSpace(r) = x
    <2>1. x[1] \notin Blanks
        BY DEF Separators
    <2>. QED BY <2>1, SkipSpaceSkipsOne
<1>4. parsePrefix(y) = [is |-> "prefix", rest |-> r, prefix |-> p]
    <2>. HIDE DEF r
    <2>1. CASE p.nick = <<>>
        BY <1>2, <2>1, ServerIsRead
    <2>2. CASE p.nick # <<>>
        BY <1>2, <2>2, NickIsRead
    <2>. QED BY <2>1, <2>2
<1>. HIDE DEF b
<1>5. (WrittenPrefix(p) \o <<"SP">>) \o x = s
    <2>. DEFINE colon == <<":">>
                sp == <<"SP">>
                a == colon \o b
    <2>1. colon \in Seq(Symbols) /\ sp \in Seq(Symbols)
        BY Symbol
    <2>. HIDE DEF colon, sp
    <2>2. b \in Seq(Symbols) /\ a \in Seq(Symbols)
        BY <1>1, <2>1, Joined
    <2>. HIDE DEF a
    <2>3. (a \o sp) \o x = a \o (sp \o x)
        <3>1. a \in Seq(Symbols)
            BY <2>2
        <3>2. sp \in Seq(Symbols)
            BY <2>1
        <3>9. Associative(a, sp, x)
            BY <3>1, <3>2, JoinedTwice
        <3>. QED BY <3>9 DEF Associative
    <2>. DEFINE q == sp \o x
    <2>4. q \in Seq(Symbols)
        BY <2>1, Joined
    <2>. HIDE DEF q
    <2>5. (colon \o b) \o q = colon \o (b \o q)
        <3>1. Associative(colon, b, q)
            BY <2>1, <2>2, <2>4, JoinedTwice
        <3>. QED BY <2>1, <2>2, <2>4, <3>1 DEF Associative
    <2>6. WrittenPrefix(p) = a
        BY <1>1 DEF a, colon
    <2>. QED BY <2>3, <2>5, <2>6 DEF a, q, sp, colon
<1>. HIDE DEF r
<1>6. y \in Seq(Symbols)
    BY <1>1, <1>2, Joined
<1>. HIDE DEF y
<1>7. First(s, ":") /\ Tail(s) = y
    BY <1>6, Symbol, OneBefore DEF First
<1>. HIDE DEF s
<1>8. parseString(s) = parseCommand(p, skipSpace(r))
    <2>1. parsePrefix(y).is = "prefix" /\ parsePrefix(y).rest = r /\ parsePrefix(y).prefix = p
        BY <1>4
    <2>2. parseString(s) = IF parsePrefix(y).is # "prefix" THEN parsePrefix(y)
                           ELSE parseCommand(parsePrefix(y).prefix, skipSpace(parsePrefix(y).rest))
        BY <1>7 DEF parseString
    <2>. QED BY <2>1, <2>2
<1>. QED BY <1>3, <1>5, <1>8

-----------------------------------------------------------------------------
(* What was written is read.                                               *)

\* What is written after the prefix.
Body(c, ps, t) == c \o (FlattenSeq([i \in DOMAIN ps |-> <<"SP">> \o ps[i]]) \o Trailer(t))

LEMMA BodyIsRead ==
    ASSUME ClassesAssumption, NEW prefix, NEW c \in Seq(Symbols), IsCommand(c),
           NEW ps \in Seq(Seq(Symbols)), \A i \in 1..Len(ps) : Sayable(ps[i]), NEW t \in Seq(Symbols)
    PROVE  /\ Body(c, ps, t) \in Seq(Symbols) /\ Body(c, ps, t) # <<>>
           /\ Body(c, ps, t)[1] \notin Separators
           /\ parseCommand(prefix, Body(c, ps, t)) = RawMessage(prefix, c, ps, t)
<1>. DEFINE s == FlattenSeq([i \in DOMAIN ps |-> <<"SP">> \o ps[i]])
            x == c \o (s \o Trailer(t))
<1>1. s \in Seq(Symbols) /\ NoColon(s) /\ parseParameters(s) = ps /\ (s # <<>> => s[1] \in Blanks)
    BY WrittenParametersParse
<1>2. Body(c, ps, t) = x
    BY DEF Body
<1>. HIDE DEF s
<1>3. ReadsBody(prefix, c, s, t)
    <2>1. s \in Seq(Symbols) /\ NoColon(s) /\ (s # <<>> => s[1] \in Blanks)
        BY <1>1
    <2>. QED BY <2>1, BodyParses
<1>. HIDE DEF x
<1>4. /\ x \in Seq(Symbols) /\ x # <<>> /\ x[1] \notin Separators
      /\ parseCommand(prefix, x) = RawMessage(prefix, c, parseParameters(s), t)
    BY <1>3 DEF ReadsBody, x
<1>. QED BY <1>1, <1>2, <1>4

\* Four texts, joined from the left and from the right.
Left(a, b, c, d) == ((a \o b) \o c) \o d
Right(a, b, c, d) == a \o (b \o (c \o d))

LEMMA LeftIsRight ==
    ASSUME NEW a \in Seq(Symbols), NEW b \in Seq(Symbols), NEW c \in Seq(Symbols), NEW d \in Seq(Symbols)
    PROVE  Left(a, b, c, d) = Right(a, b, c, d)
<1>. DEFINE m == a \o b
            n == c \o d
<1>1. m \in Seq(Symbols)
    BY Joined
<1>2. n \in Seq(Symbols)
    BY Joined
<1>3. (a \o b) \o n = a \o (b \o n)
    <2>. HIDE DEF n
    <2>9. Associative(a, b, n)
        BY <1>2, JoinedTwice
    <2>. QED BY <2>9 DEF Associative
<1>4. (m \o c) \o d = m \o (c \o d)
    <2>. HIDE DEF m
    <2>9. Associative(m, c, d)
        BY <1>1, JoinedTwice
    <2>. QED BY <2>9 DEF Associative
<1>. QED BY <1>3, <1>4 DEF Left, Right

\* What operator<< writes before the command.
Start(prefix) == IF prefix.present THEN WrittenPrefix(prefix) \o <<"SP">> ELSE <<>>

\* operator<< writes the body after the prefix.
WritesBody(prefix, c, ps, t) ==
    Written(RawMessage(prefix, c, ps, t)) = Start(prefix) \o Body(c, ps, t)

LEMMA WrittenIsBody ==
    ASSUME NEW prefix, Start(prefix) \in Seq(Symbols), NEW c \in Seq(Symbols),
           NEW ps \in Seq(Seq(Symbols)), \A i \in 1..Len(ps) : Sayable(ps[i]), NEW t \in Seq(Symbols)
    PROVE  WritesBody(prefix, c, ps, t)
<1>. DEFINE start == Start(prefix)
            raw == RawMessage(prefix, c, ps, t)
            s == FlattenSeq([i \in DOMAIN ps |-> <<"SP">> \o ps[i]])
            e == Trailer(t)
<1>1. raw.prefix = prefix /\ raw.command = c /\ raw.parameters = ps /\ raw.trailing = t
    BY DEF RawMessage
<1>2. s \in Seq(Symbols)
    BY WrittenParametersParse
<1>3. e \in Seq(Symbols)
    <2>1. <<"SP", ":">> \in Seq(Symbols)
        BY Symbol
    <2>. DEFINE o == <<"SP", ":">>
    <2>. HIDE DEF o
    <2>2. o \o t \in Seq(Symbols)
        BY <2>1, Joined DEF o
    <2>. QED BY <2>2 DEF Trailer, o
<1>4. Written(raw) = Left(start, c, s, e)
    <2>. HIDE DEF raw
    <2>. QED BY <1>1 DEF Written, Trailer, Start, Left
<1>5. start \o Body(c, ps, t) = Right(start, c, s, e)
    BY DEF Body, Right
<1>. HIDE DEF raw, s, e, start
<1>6. Left(start, c, s, e) = Right(start, c, s, e)
    BY <1>2, <1>3, LeftIsRight DEF start
<1>. QED BY <1>4, <1>5, <1>6 DEF WritesBody, raw, start

\* A message of what RawParser can leave in one.
LEMMA WrittenIsRead ==
    ASSUME ClassesAssumption, NEW prefix, prefix = NoPrefix \/ Readable(prefix),
           NEW c \in Seq(Symbols), IsCommand(c),
           NEW ps \in Seq(Seq(Symbols)), \A i \in 1..Len(ps) : Sayable(ps[i]), NEW t \in Seq(Symbols)
    PROVE  parseString(Written(RawMessage(prefix, c, ps, t))) = RawMessage(prefix, c, ps, t)
<1>. DEFINE x == Body(c, ps, t)
            raw == RawMessage(prefix, c, ps, t)
<1>1. /\ x \in Seq(Symbols) /\ x # <<>> /\ x[1] \notin Separators
      /\ parseCommand(prefix, x) = raw
    BY BodyIsRead
<1>2. Start(prefix) \in Seq(Symbols) /\ parseString(Start(prefix) \o x) = parseCommand(prefix, x)
    <2>. HIDE DEF x
    <2>1. CASE prefix = NoPrefix
        <3>1. Start(prefix) = <<>>
            BY <2>1 DEF NoPrefix, Start
        <3>2. <<>> \o x = x /\ <<>> \in Seq(Symbols)
            BY <1>1, ConcatEmptySeq
        <3>3. parseString(x) = parseCommand(NoPrefix, x)
            BY <1>1, NoPrefixIsRead
        <3>. QED BY <2>1, <3>1, <3>2, <3>3
    <2>2. CASE Readable(prefix)
        <3>1. prefix.present
            <4>1. prefix = Prefix(prefix.nick, prefix.user, prefix.host)
                BY <2>2 DEF Readable
            <4>2. \A n, u, h : Prefix(n, u, h).present
                BY DEF Prefix
            <4>. QED BY <4>1, <4>2
        <3>2. Start(prefix) = WrittenPrefix(prefix) \o <<"SP">>
            BY <3>1 DEF Start
        <3>3. Start(prefix) \in Seq(Symbols)
            <4>. DEFINE b == Bare(prefix)
                        w == <<":">> \o b
                        o == <<"SP">>
            <4>1. b \in Seq(Symbols) /\ WrittenPrefix(prefix) = w
                BY <2>2, BareIsText
            <4>. HIDE DEF b
            <4>2. w \in Seq(Symbols)
                <5>1. b \in Seq(Symbols) /\ ":" \in Symbols
                    BY <4>1, Symbol
                <5>. QED BY <5>1, OneBefore
            <4>3. o \in Seq(Symbols)
                BY Symbol
            <4>. HIDE DEF w, o
            <4>4. w \o o \in Seq(Symbols)
                BY <4>2, <4>3, Joined
            <4>. QED BY <3>2, <4>1, <4>4 DEF o
        <3>4. parseString((WrittenPrefix(prefix) \o <<"SP">>) \o x) = parseCommand(prefix, x)
            BY <1>1, <2>2, PrefixIsRead
        <3>. QED BY <3>2, <3>3, <3>4
    <2>. QED BY <2>1, <2>2
<1>3. Start(prefix) \in Seq(Symbols)
    BY <1>2
<1>4. Written(raw) = Start(prefix) \o x
    <2>1. WritesBody(prefix, c, ps, t)
        BY <1>3, WrittenIsBody
    <2>. QED BY <2>1 DEF WritesBody
<1>. QED BY <1>1, <1>2, <1>4

\* Whatever the line: if it parses and has no tab in its prefix, what operator<< writes of
\* it parses as the same message, prefix, parameters and text.
THEOREM WhatIsWrittenIsRead == Spec => []WrittenParses
<1>1. ASSUME IsText
      PROVE  WrittenParses
    <2>. DEFINE raw == parseString(line)
    <2>1. SUFFICES ASSUME raw.is = "message", ~TabInPrefix(line)
                   PROVE  parseString(Written(raw)) = raw
        BY DEF WrittenParses
    <2>2. PICK u, prefix :
             /\ u \in Seq(Symbols)
             /\ raw = parseCommand(prefix, u) /\ IsCommand(WordAt(u, 1))
             /\ \/ prefix = NoPrefix
                \/ \E v \in Seq(Symbols) :
                      /\ parsePrefix(v).is = "prefix" /\ prefix = parsePrefix(v).prefix
                      /\ "TAB" \notin ToSet(Spaceless(v))
        BY <1>1, <2>1, MessageParts DEF IsText
    <2>. HIDE DEF raw
    <2>3. prefix = NoPrefix \/ Readable(prefix)
        BY <2>2, ParsedPrefix
    <2>. DEFINE c == WordAt(u, 1)
                rest == Drop(u, Len(c))
                ps == parseParameters(rest)
                t == parseTrailing(rest)
    <2>4. rest \in Seq(Symbols) /\ parseCommand(prefix, u) = RawMessage(prefix, c, ps, t)
        BY <2>2, MessageFields
    <2>5. c \in Seq(Symbols) /\ IsCommand(c)
        BY <2>2, FirstWord
    <2>. HIDE DEF c, rest
    <2>6. ps \in Seq(Seq(Symbols)) /\ \A i \in 1..Len(ps) : Sayable(ps[i])
        BY <2>4, ParametersAreWords, ParametersAreSayable
    <2>7. t \in Seq(Symbols)
        BY <2>4, TrailingIsText
    <2>. HIDE DEF ps, t
    <2>8. parseString(Written(RawMessage(prefix, c, ps, t))) = RawMessage(prefix, c, ps, t)
        BY <2>3, <2>5, <2>6, <2>7, ClassesAssumption, WrittenIsRead
    <2>. QED BY <2>2, <2>4, <2>8
<1>. QED BY <1>1, LineIsText, PTL

\* A PRIVMSG or PART with one parameter is taken as it is.
LEMMA OneWordIsRead ==
    ASSUME ClassesAssumption, NEW prefix, prefix.present, NEW type \in {"PRIVMSG", "PART"},
           NEW w \in Seq(Symbols), NEW t
    PROVE  parseRaw(RawMessage(prefix, <<type>>, <<w>>, t)) = Message(type, <<w>>, t)
<1>. DEFINE raw == RawMessage(prefix, <<type>>, <<w>>, t)
            c == <<type>>
            ps == <<w>>
<1>1. raw.prefix = prefix /\ raw.command = c /\ raw.parameters = ps /\ raw.trailing = t
    BY DEF RawMessage
<1>2. Len(c) = 1 /\ c[1] = type
    OBVIOUS
<1>3. ps # <<>> /\ SubSeq(ps, 1, 1) = ps
    <2>1. ps \in Seq(Seq(Symbols)) /\ Len(ps) = 1 /\ ps # <<>>
        OBVIOUS
    <2>. HIDE DEF ps
    <2>2. SubSeq(ps, 1, Len(ps)) = ps
        BY <2>1, SubSeqFull
    <2>. QED BY <2>1, <2>2
<1>4. type \notin Replies
    <2>1. type \in Alphabetic
        BY DEF Alphabetic, Commands
    <2>. QED BY <2>1 DEF ClassesAssumption
<1>5. type \notin {"PING", "PONG"} /\ type \notin {"NICK", "JOIN"} /\ type # "QUIT"
    OBVIOUS
<1>. HIDE DEF raw, c, ps
<1>6. parseRaw(raw) = Message(type, ps, t)
    BY <1>1, <1>2, <1>3, <1>4, <1>5 DEF parseRaw
<1>. QED BY <1>6 DEF raw, c, ps

\* Whatever the bot says, to whomever, is read as it was said.
THEOREM WhatIsSaidIsRead == Spec => []SaidIsRead
<1>1. ASSUME IsText
      PROVE  SaidIsRead
    <2>. DEFINE prefix == Prefix(<<"x">>, <<>>, <<>>)
    <2>1. Readable(prefix) /\ prefix.present /\ Start(prefix) = <<":", "x", "SP">>
        <3>1. "x" \in Symbols /\ "x" \in Alphabetic
            BY ClassesAssumption DEF Symbols, Alphabetic
        <3>2. /\ prefix.nick = <<"x">> /\ prefix.user = <<>> /\ prefix.host = <<>> /\ prefix.present
            BY DEF Prefix
        <3>3. /\ <<"x">> \in Seq(Symbols) /\ <<>> \in Seq(Symbols) /\ <<"x">> # <<>>
              /\ Len(<<"x">>) = 1 /\ <<"x">>[1] = "x" /\ Len(<<>>) = 0
            BY <3>1
        <3>4. /\ \A i \in 1..Len(<<"x">>) : <<"x">>[i] \in Alphabetic
              /\ \A i \in 1..Len(<<>>) : FALSE
            BY <3>1, <3>3
        <3>5. Readable(prefix)
            <4>1. prefix = Prefix(prefix.nick, prefix.user, prefix.host)
                BY <3>2
            <4>. HIDE DEF prefix
            <4>. QED BY <3>2, <3>3, <3>4, <4>1 DEF Readable
        <3>6. Start(prefix) = <<":", "x", "SP">>
            <4>1. WrittenPrefix(prefix) = ((<<":">> \o <<"x">>) \o <<>>) \o <<>>
                BY <3>2, <3>3 DEF WrittenPrefix
            <4>. DEFINE b == <<"x">>
                        o == <<"SP">>
                        a == <<":">> \o b
                        y == a \o o
                        q == <<":", "x", "SP">>
            <4>2. b \in Seq(Symbols) /\ Len(b) = 1 /\ b[1] = "x" /\ o \in Seq(Symbols) /\ Len(o) = 1 /\ o[1] = "SP"
                BY <3>1, Symbol
            <4>3. q \in Seq(Symbols) /\ Len(q) = 3 /\ q[1] = ":" /\ q[2] = "x" /\ q[3] = "SP"
                BY <3>1, Symbol
            <4>. HIDE DEF b, o, q
            <4>4. a \in Seq(Symbols) /\ Len(a) = 2 /\ a[1] = ":" /\ a[2] = "x"
                <5>1. ":" \in Symbols
                    BY Symbol
                <5>2. a \in Seq(Symbols) /\ Len(a) = Len(b) + 1 /\ a[1] = ":" /\ \A i \in 1..Len(b) : a[i + 1] = b[i]
                    BY <4>2, <5>1, OneBefore
                <5>. HIDE DEF a
                <5>3. a[1 + 1] = b[1]
                    BY <4>2, <5>2
                <5>. QED BY <4>2, <5>2, <5>3
            <4>. HIDE DEF a
            <4>5. y \in Seq(Symbols) /\ Len(y) = 3 /\ y[1] = ":" /\ y[2] = "x" /\ y[3] = "SP"
                <5>1. /\ y \in Seq(Symbols) /\ Len(y) = Len(a) + Len(o) /\ \A i \in 1..Len(a) : y[i] = a[i]
                      /\ \A i \in 1..Len(o) : y[Len(a) + i] = o[i]
                    BY <4>2, <4>4, Joined
                <5>. HIDE DEF y
                <5>2. y[2 + 1] = o[1]
                    BY <4>2, <4>4, <5>1
                <5>. QED BY <4>2, <4>4, <5>1, <5>2
            <4>. HIDE DEF y
            <4>6. \A i \in 1..3 : y[i] = q[i]
                <5>1. \A i \in 1..3 : i = 1 \/ i = 2 \/ i = 3
                    OBVIOUS
                <5>. QED BY <4>3, <4>5, <5>1
            <4>7. y = q
                BY <4>3, <4>5, <4>6, SeqEqual
            <4>8. (a \o <<>>) \o <<>> = a
                BY <4>4, ConcatEmptySeq
            <4>9. WrittenPrefix(prefix) = a
                BY <4>1, <4>8 DEF a, b
            <4>. QED BY <3>2, <4>7, <4>9 DEF Start, y, o, q
        <3>. QED BY <3>2, <3>5, <3>6
    <2>2. SUFFICES ASSUME NEW type \in {"PRIVMSG", "PART"}, NEW n \in 1..Len(line),
                          Sayable(Take(line, n))
                   PROVE  LET m == Message(type, <<Take(line, n)>>, Drop(line, n))
                          IN  parseMessage(<<":", "x", "SP">> \o Written(ToRaw(m))) = m
        BY DEF SaidIsRead
    <2>. DEFINE w == Take(line, n)
                t == Drop(line, n)
                c == <<type>>
                ps == <<w>>
                m == Message(type, ps, t)
                x == Body(c, ps, t)
                raw == RawMessage(prefix, c, ps, t)
    <2>3. line \in Seq(Symbols) /\ n \in 0..Len(line)
        BY <1>1 DEF IsText
    <2>4. w \in Seq(Symbols) /\ t \in Seq(Symbols) /\ Sayable(w)
        BY <2>2, <2>3, TakeIsBeginning, DropIsRest
    <2>5. m.type = type /\ m.words = ps /\ m.text = t
        BY DEF Message
    <2>. HIDE DEF w, t, prefix
    <2>6. ToRaw(m) = RawMessage(NoPrefix, c, ps, t)
        <3>. HIDE DEF m, ps
        <3>. QED BY <2>5 DEF ToRaw
    <2>7. c \in Seq(Symbols) /\ IsCommand(c)
        <3>1. type \in Alphabetic /\ type \in Symbols
            BY DEF Alphabetic, Commands, Symbols
        <3>2. c # <<>> /\ ToSet(c) = {type}
            BY DEF ToSet
        <3>3. IsCommand(c)
            <4>. HIDE DEF c
            <4>. QED BY <3>1, <3>2 DEF IsCommand
        <3>. QED BY <3>1, <3>3
    <2>8. ps \in Seq(Seq(Symbols)) /\ \A i \in 1..Len(ps) : Sayable(ps[i])
        <3>1. ps \in Seq(Seq(Symbols)) /\ Len(ps) = 1 /\ ps[1] = w
            BY <2>4
        <3>. HIDE DEF ps
        <3>. QED BY <2>4, <3>1
    <2>9. parseRaw(raw) = m
        BY <2>1, <2>4, ClassesAssumption, OneWordIsRead
    <2>. HIDE DEF c, ps, m
    <2>10. x \in Seq(Symbols) /\ x # <<>> /\ x[1] \notin Separators /\ parseCommand(prefix, x) = raw
        BY <2>4, <2>7, <2>8, ClassesAssumption, BodyIsRead
    <2>11. Written(ToRaw(m)) = x
        <3>1. Start(NoPrefix) = <<>>
            BY DEF NoPrefix, Start
        <3>2. Start(NoPrefix) \in Seq(Symbols)
            BY <3>1
        <3>3. WritesBody(NoPrefix, c, ps, t)
            BY <2>4, <2>7, <2>8, <3>2, WrittenIsBody
        <3>. HIDE DEF x
        <3>4. <<>> \o x = x
            BY <2>10, ConcatEmptySeq
        <3>. QED BY <2>6, <3>1, <3>3, <3>4 DEF WritesBody, x
    <2>. HIDE DEF x
    <2>12. parseString((WrittenPrefix(prefix) \o <<"SP">>) \o x) = parseCommand(prefix, x)
        BY <2>1, <2>10, ClassesAssumption, PrefixIsRead
    <2>13. Start(prefix) = WrittenPrefix(prefix) \o <<"SP">>
        BY <2>1 DEF Start
    <2>14. parseString(<<":", "x", "SP">> \o x) = raw
        BY <2>1, <2>10, <2>12, <2>13
    <2>15. raw.is = "message"
        BY DEF RawMessage
    <2>. HIDE DEF raw
    <2>16. parseMessage(<<":", "x", "SP">> \o Written(ToRaw(m))) = m
        BY <2>9, <2>11, <2>14, <2>15 DEF parseMessage
    <2>. QED BY <2>16 DEF m, ps, w, t
<1>. QED BY <1>1, LineIsText, PTL
=============================================================================
