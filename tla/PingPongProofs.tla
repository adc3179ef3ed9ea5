--------------------------- MODULE PingPongProofs ---------------------------
(***************************************************************************)
(* What holds of PingPong for all limits, pauses and delays.               *)
(***************************************************************************)
EXTENDS PingPong, SequenceTheorems, TLAPS

LEMMA ServerType ==
    ASSUME PingPongAssumption, NEW s \in Servers
    PROVE  s.answers \in BOOLEAN /\ s.interval \in Nat \ {0}
  <1>1. s \in [answers : BOOLEAN, interval : Nat \ {0}]
    BY DEF PingPongAssumption
  <1>. QED BY <1>1

LEMMA InitType ==
    ASSUME PingPongAssumption, Init
    PROVE  TypeOK
  <1>1. server \in Servers /\ server.interval \in Nat
    BY ServerType DEF Init
  <1>. QED BY <1>1 DEF Init, TypeOK

LEMMA NextType ==
    ASSUME PingPongAssumption, TypeOK, [Next]_vars
    PROVE  TypeOK'
  <1>. USE DEF PingPongAssumption, TypeOK
  <1>a. server.interval \in Nat
    BY ServerType
  <1>1. CASE OnPing
    BY <1>1 DEF OnPing
  <1>2. CASE OnPong
    BY <1>2 DEF OnPong
  <1>3. CASE OnTimeTrigger
    <2>1. Append(pings, now) \in Seq(Nat)
      OBVIOUS
    <2>2. lastPing' \in Nat /\ pings' \in Seq(Nat) /\ status' \in {"up", "disconnecting", "lost"}
      BY <1>3, <2>1 DEF OnTimeTrigger, SendPing
    <2>. QED BY <1>3, <2>2 DEF OnTimeTrigger
  <1>4. CASE OnDisconnect
    BY <1>a, <1>4 DEF OnDisconnect
  <1>5. CASE ServerPings \/ ServerAnswers
    <2>1. \A m \in {"PING", "PONG"} : Append(inbox, m) \in Seq({"PING", "PONG"})
      OBVIOUS
    <2>2. inbox' \in Seq({"PING", "PONG"})
      BY <1>5, <2>1 DEF ServerPings, ServerAnswers
    <2>3. pings' \in Seq(Nat) /\ serverPinged' \in Int
      <3>1. pings # <<>> => Tail(pings) \in Seq(Nat)
        OBVIOUS
      <3>2. CASE ServerPings
        BY <3>2 DEF ServerPings
      <3>3. CASE ServerAnswers
        BY <3>1, <3>3 DEF ServerAnswers
      <3>. QED BY <1>5, <3>2, <3>3
    <2>4. UNCHANGED <<now, server, status, lastPing, lastPong, triggered, heard>>
      BY <1>5 DEF ServerPings, ServerAnswers
    <2>. QED BY <2>2, <2>3, <2>4
  <1>6. CASE ConnectionLost \/ Tick
    BY <1>6 DEF ConnectionLost, Tick
  <1>7. CASE UNCHANGED vars
    BY <1>7 DEF vars
  <1>. QED BY <1>1, <1>2, <1>3, <1>4, <1>5, <1>6, <1>7 DEF Next

\* The times of the plug-in stay well typed.
THEOREM TypeCorrect == Spec => []TypeOK
  <1>1. Init => TypeOK
    BY InitType, PingPongAssumption
  <1>2. TypeOK /\ [Next]_vars => TypeOK'
    BY NextType, PingPongAssumption
  <1>. QED BY <1>1, <1>2, PTL DEF Spec

-----------------------------------------------------------------------------
(* SilenceIsNoticed.  Right after an onTimeTrigger() that does not time    *)
(* out, either the last PING is at most PingAfter old and at most          *)
(* TimeoutAfter younger than the last PONG; or the plug-in has just sent a *)
(* PING, and the PING before that was so one call ago.                     *)

SilenceInv ==
    /\ TypeOK
    /\ lastPong = heard
    /\ lastPing <= now /\ lastPong <= now /\ triggered <= now
    /\ status = "up" => /\ now <= triggered + MaxPause
                        /\ triggered - lastPing <= PingAfter
                        /\ triggered - lastPong <= TimeoutAfter + PingAfter + MaxPause

\* SilenceInv is inductive.
LEMMA SilenceInvariance == Spec => []SilenceInv
  <1>. USE PingPongAssumption DEF PingPongAssumption
  <1>1. Init => SilenceInv
    BY InitType DEF Init, SilenceInv
  <1>2. ASSUME SilenceInv, [Next]_vars
        PROVE  SilenceInv'
    <2>. USE <1>2 DEF SilenceInv
    <2>a. TypeOK'
      BY NextType
    <2>b. /\ now \in Nat /\ lastPing \in Nat /\ lastPong \in Nat
          /\ triggered \in Nat /\ heard \in Nat
      BY DEF TypeOK
    <2>. USE <2>a, <2>b
    <2>1. CASE OnPing
      BY <2>1 DEF OnPing
    <2>2. CASE OnPong
      BY <2>2 DEF OnPong
    <2>3. CASE OnTimeTrigger
      <3>1. UNCHANGED <<now, lastPong, heard>> /\ triggered' = now /\ status = "up"
        BY <2>3 DEF OnTimeTrigger
      <3>2. CASE status' = "disconnecting"
        BY <2>3, <3>1, <3>2 DEF OnTimeTrigger, SendPing
      <3>3. CASE lastPing - lastPong <= TimeoutAfter
        <4>1. now - lastPong <= TimeoutAfter + PingAfter + MaxPause
          BY <3>1, <3>3
        <4>2. \/ lastPing' = now
              \/ lastPing' = lastPing /\ now - lastPing <= PingAfter
          BY <2>3, <3>1, <3>3 DEF OnTimeTrigger, SendPing
        <4>3. lastPing' <= now /\ now - lastPing' <= PingAfter
          BY <4>2
        <4>. QED BY <3>1, <4>1, <4>3
      <3>. QED BY <2>3, <3>2, <3>3 DEF OnTimeTrigger
    <2>4. CASE OnDisconnect
      BY <2>4 DEF OnDisconnect
    <2>5. CASE ServerPings \/ ServerAnswers \/ ConnectionLost
      BY <2>5 DEF ServerPings, ServerAnswers, ConnectionLost
    <2>6. CASE Tick
      BY <2>6 DEF Tick
    <2>7. CASE UNCHANGED vars
      BY <2>7 DEF vars
    <2>. QED BY <2>1, <2>2, <2>3, <2>4, <2>5, <2>6, <2>7 DEF Next
  <1>. QED BY <1>1, <1>2, PTL DEF Spec

\* A server that answers no PING is noticed within TimeoutAfter, PingAfter and two
\* pauses, whatever PINGs of its own it sends: 125 s, 60 s and the loop's sleep.
THEOREM DeadServerIsNoticed == Spec => []SilenceIsNoticed
  <1>1. SilenceInv => SilenceIsNoticed
    BY PingPongAssumption DEF PingPongAssumption, SilenceInv, SilenceIsNoticed, TypeOK
  <1>. QED BY <1>1, SilenceInvariance, PTL

-----------------------------------------------------------------------------
(* AnsweringIsKept.  A connection to a server that answers goes round a    *)
(* diagram of seven situations, by what is under way in either direction.  *)
(* From one PONG to the next the last PING is at most two cycles ahead of  *)
(* the last PONG: one until the server PINGs, one until the bot does; then *)
(* the PONG comes before either can PING again.                            *)

Cycle == PingAfter + MaxPause

\* The limits suit each other, as 60, 125 and a pause of 2 do: two cycles are no timeout, a
\* PING is answered before the next is due, and the server's own PINGs leave room for one
\* of the bot's and its answer.
Patience ==
    /\ Cycle + Cycle <= TimeoutAfter
    /\ MaxDelay <= PingAfter
    /\ \A s \in Servers : s.answers => s.interval > Cycle + MaxPause + MaxDelay

UnderWay(messages, unanswered) == inbox = messages /\ pings = unanswered

\* How far the last PING may be ahead of the last PONG.
Ahead(time) == lastPing - lastPong <= time

\* The server has PINGed since the last onTimeTrigger().
JustPinged == serverPinged >= triggered

Quiet ==
    /\ UnderWay(<<>>, <<>>)
    /\ lastPing <= lastPong \/ (lastPing <= serverPinged + MaxPause /\ Ahead(Cycle))
Pinged ==
    UnderWay(<<"PING">>, <<>>) /\ JustPinged /\ lastPing <= lastPong
Answered ==
    UnderWay(<<"PONG">>, <<>>) /\ Ahead(Cycle + Cycle)
PingedThenAnswered ==
    UnderWay(<<"PING", "PONG">>, <<>>) /\ JustPinged /\ Ahead(Cycle) /\ triggered <= lastPing + MaxDelay
AnsweredThenPinged ==
    UnderWay(<<"PONG", "PING">>, <<>>) /\ JustPinged /\ Ahead(Cycle + Cycle)
Waiting(n) ==
    /\ UnderWay(<<>>, <<n>>) /\ n <= lastPing /\ now <= n + MaxDelay /\ Ahead(Cycle + Cycle)
    /\ (lastPing = n /\ Ahead(Cycle)) \/ n <= serverPinged + Cycle + MaxPause
WaitingPinged(n) ==
    UnderWay(<<"PING">>, <<n>>) /\ lastPing = n /\ now <= n + MaxDelay /\ Ahead(Cycle) /\ JustPinged

KeptUp ==
    /\ serverPinged <= now
    /\ \/ Quiet \/ Pinged \/ Answered \/ PingedThenAnswered \/ AnsweredThenPinged
       \/ \E n \in Nat : Waiting(n) \/ WaitingPinged(n)

KeepInv ==
    /\ SilenceInv
    /\ server.answers => status # "disconnecting" /\ (status = "up" => KeptUp)

\* The hypotheses of the lemmas below: one step of a connection that is up.
Up == PingPongAssumption /\ Patience /\ SilenceInv /\ status = "up" /\ KeptUp

\* What the numbers are, and how they lie while the connection is up.
Numbers ==
    /\ now \in Nat /\ lastPing \in Nat /\ lastPong \in Nat /\ triggered \in Nat
    /\ serverPinged \in Int /\ server.interval \in Nat \ {0}
    /\ PingAfter \in Nat /\ TimeoutAfter \in Nat /\ MaxPause \in Nat \ {0} /\ MaxDelay \in Nat
    /\ Cycle \in Nat /\ Cycle = PingAfter + MaxPause
    /\ Cycle + Cycle <= TimeoutAfter /\ MaxDelay <= PingAfter
    /\ lastPing <= now /\ lastPong <= now /\ triggered <= now /\ serverPinged <= now
    /\ now <= triggered + MaxPause /\ triggered - lastPing <= PingAfter

LEMMA UpNumbers ==
    ASSUME Up
    PROVE  Numbers
  <1>1. server \in Servers
    BY DEF Up, SilenceInv, TypeOK
  <1>2. server.interval \in Nat \ {0}
    BY <1>1, ServerType DEF Up
  <1>. QED BY <1>2 DEF Numbers, Up, PingPongAssumption, Patience, SilenceInv, TypeOK, Cycle, KeptUp

LEMMA AppendToOne == \A a, b : Append(<<a>>, b) = <<a, b>>
  <1>. TAKE a, b
  <1>1. <<a>> \in Seq({a, b}) /\ Len(<<a>>) = 1 /\ <<a>>[1] = a
    OBVIOUS
  <1>2. /\ Append(<<a>>, b) \in Seq({a, b}) /\ Len(Append(<<a>>, b)) = 2
        /\ Append(<<a>>, b)[1] = a /\ Append(<<a>>, b)[2] = b
    BY <1>1, b \in {a, b}, AppendProperties
  <1>3. /\ <<a, b>> \in Seq({a, b}) /\ Len(<<a, b>>) = 2
        /\ <<a, b>>[1] = a /\ <<a, b>>[2] = b
    OBVIOUS
  <1>. QED BY <1>2, <1>3, SeqEqual, 1 .. 2 = {1, 2}

\* The queues hold at most two messages: what comes first, what stays, what is added.
LEMMA Queues ==
    /\ Head(<<"PING">>) = "PING" /\ Tail(<<"PING">>) = <<>>
    /\ Head(<<"PONG">>) = "PONG" /\ Tail(<<"PONG">>) = <<>>
    /\ Head(<<"PING", "PONG">>) = "PING" /\ Tail(<<"PING", "PONG">>) = <<"PONG">>
    /\ Head(<<"PONG", "PING">>) = "PONG" /\ Tail(<<"PONG", "PING">>) = <<"PING">>
    /\ \A m : Append(<<>>, m) = <<m>>
    /\ \A n : Tail(<<n>>) = <<>> /\ <<n>> # <<>>
    /\ Append(<<"PING">>, "PONG") = <<"PING", "PONG">>
    /\ Append(<<"PONG">>, "PING") = <<"PONG", "PING">>
    /\ <<"PING">> # <<>> /\ <<"PONG">> # <<>> /\ <<"PING", "PONG">> # <<>> /\ <<"PONG", "PING">> # <<>>
  <1>1. Head(<<"PING">>) = "PING" /\ Tail(<<"PING">>) = <<>>
    OBVIOUS
  <1>2. Head(<<"PONG">>) = "PONG" /\ Tail(<<"PONG">>) = <<>>
    OBVIOUS
  <1>3. Head(<<"PING", "PONG">>) = "PING" /\ Tail(<<"PING", "PONG">>) = <<"PONG">>
    OBVIOUS
  <1>4. Head(<<"PONG", "PING">>) = "PONG" /\ Tail(<<"PONG", "PING">>) = <<"PING">>
    OBVIOUS
  <1>5. \A m : Append(<<>>, m) = <<m>>
    OBVIOUS
  <1>6. \A n : Tail(<<n>>) = <<>> /\ <<n>> # <<>>
    OBVIOUS
  <1>7. Append(<<"PING">>, "PONG") = <<"PING", "PONG">>
    BY AppendToOne
  <1>8. Append(<<"PONG">>, "PING") = <<"PONG", "PING">>
    BY AppendToOne
  <1>9. <<"PING">> # <<>> /\ <<"PONG">> # <<>> /\ <<"PING", "PONG">> # <<>> /\ <<"PONG", "PING">> # <<>>
    OBVIOUS
  <1>. QED BY <1>1, <1>2, <1>3, <1>4, <1>5, <1>6, <1>7, <1>8, <1>9

LEMMA KeepOnPing ==
    ASSUME Up, OnPing
    PROVE  KeptUp'
  <1>n. Numbers
    BY UpNumbers
  <1>1. /\ lastPing' = now /\ inbox' = Tail(inbox)
        /\ UNCHANGED <<now, lastPong, pings, triggered, serverPinged>>
        /\ UNCHANGED Cycle
    BY DEF OnPing, Cycle
  <1>2. inbox # <<>> /\ Head(inbox) = "PING"
    BY DEF OnPing
  <1>3. CASE Pinged
    <2>1. UnderWay(<<>>, <<>>)'
      BY <1>1, <1>3, Queues DEF Pinged, UnderWay
    <2>2. now <= serverPinged + MaxPause /\ now - lastPong <= Cycle
      BY <1>3, <1>n DEF Numbers, Pinged, JustPinged
    <2>3. Quiet'
      BY <1>1, <2>1, <2>2 DEF Quiet, Ahead
    <2>. QED BY <1>1, <2>3, <1>n DEF Numbers, KeptUp
  <1>4. CASE PingedThenAnswered
    <2>1. UnderWay(<<"PONG">>, <<>>)'
      BY <1>1, <1>4, Queues DEF PingedThenAnswered, UnderWay
    <2>2. now - lastPong <= Cycle + Cycle
      BY <1>4, <1>n DEF Numbers, PingedThenAnswered, Ahead
    <2>3. Answered'
      BY <1>1, <2>1, <2>2 DEF Answered, Ahead
    <2>. QED BY <1>1, <2>3, <1>n DEF Numbers, KeptUp
  <1>5. ASSUME NEW n \in Nat, WaitingPinged(n)
        PROVE  KeptUp'
    <2>1. UnderWay(<<>>, <<n>>)'
      BY <1>1, <1>5, Queues DEF WaitingPinged, UnderWay
    <2>2. /\ n <= now /\ now <= n + MaxDelay
          /\ now - lastPong <= Cycle + Cycle /\ n <= serverPinged + Cycle + MaxPause
      BY <1>5, <1>n DEF Numbers, WaitingPinged, JustPinged, Ahead
    <2>3. Waiting(n)'
      BY <1>1, <2>1, <2>2 DEF Waiting, Ahead
    <2>. QED BY <1>1, <2>3, <1>n DEF Numbers, KeptUp
  <1>6. ~ Quiet /\ ~ Answered /\ ~ AnsweredThenPinged /\ \A n \in Nat : ~ Waiting(n)
    BY <1>2, Queues DEF Quiet, Answered, AnsweredThenPinged, Waiting, UnderWay
  <1>. QED BY <1>3, <1>4, <1>5, <1>6 DEF Up, KeptUp

LEMMA KeepOnPong ==
    ASSUME Up, OnPong
    PROVE  KeptUp'
  <1>n. Numbers
    BY UpNumbers
  <1>1. /\ lastPong' = now /\ inbox' = Tail(inbox)
        /\ UNCHANGED <<now, lastPing, pings, triggered, serverPinged>>
    BY DEF OnPong
  <1>2. inbox # <<>> /\ Head(inbox) = "PONG"
    BY DEF OnPong
  <1>3. CASE Answered
    <2>1. UnderWay(<<>>, <<>>)'
      BY <1>1, <1>3, Queues DEF Answered, UnderWay
    <2>2. Quiet'
      BY <1>1, <2>1, <1>n DEF Numbers, Quiet
    <2>. QED BY <1>1, <2>2, <1>n DEF Numbers, KeptUp
  <1>4. CASE AnsweredThenPinged
    <2>1. UnderWay(<<"PING">>, <<>>)'
      BY <1>1, <1>4, Queues DEF AnsweredThenPinged, UnderWay
    <2>2. Pinged'
      BY <1>1, <1>4, <2>1, <1>n DEF Numbers, Pinged, AnsweredThenPinged, JustPinged
    <2>. QED BY <1>1, <2>2, <1>n DEF Numbers, KeptUp
  <1>5. /\ ~ Quiet /\ ~ Pinged /\ ~ PingedThenAnswered
        /\ \A n \in Nat : ~ Waiting(n) /\ ~ WaitingPinged(n)
    BY <1>2, Queues DEF Quiet, Pinged, PingedThenAnswered, Waiting, WaitingPinged, UnderWay
  <1>. QED BY <1>3, <1>4, <1>5 DEF Up, KeptUp

LEMMA KeepOnTimeTrigger ==
    ASSUME Up, OnTimeTrigger
    PROVE  KeptUp' /\ status' = "up"
  <1>n. Numbers
    BY UpNumbers
  <1>1. inbox = <<>> /\ triggered' = now /\ UNCHANGED <<now, lastPong, inbox, serverPinged>>
    BY DEF OnTimeTrigger
  <1>2. Quiet \/ \E n \in Nat : Waiting(n)
    BY <1>1, Queues DEF Up, KeptUp, Pinged, Answered, PingedThenAnswered, AnsweredThenPinged,
        WaitingPinged, UnderWay
  <1>3. lastPing - lastPong <= Cycle + Cycle
    <2>1. Quiet => lastPing - lastPong <= Cycle + Cycle
      BY <1>n DEF Numbers, Quiet, Ahead
    <2>2. \A n \in Nat : Waiting(n) => lastPing - lastPong <= Cycle + Cycle
      BY DEF Waiting, Ahead
    <2>. QED BY <1>2, <2>1, <2>2
  <1>4. status' = "up" /\ ((SendPing /\ now - lastPing > PingAfter) \/ UNCHANGED <<lastPing, pings>>)
    BY <1>3, <1>n DEF Numbers, OnTimeTrigger, Up
  <1>5. CASE UNCHANGED <<lastPing, pings>>
    <2>1. CASE Quiet
      <3>1. Quiet'
        BY <1>1, <1>5, <2>1 DEF Quiet, UnderWay, Ahead, Cycle
      <3>. QED BY <1>1, <1>4, <3>1, <1>n DEF Numbers, KeptUp
    <2>2. ASSUME NEW n \in Nat, Waiting(n)
          PROVE  KeptUp'
      <3>1. Waiting(n)'
        BY <1>1, <1>5, <2>2 DEF Waiting, UnderWay, Ahead, Cycle
      <3>. QED BY <1>1, <1>4, <3>1, <1>n DEF Numbers, KeptUp
    <2>. QED BY <1>2, <1>4, <2>1, <2>2
  <1>6. CASE SendPing /\ now - lastPing > PingAfter
    <2>1. \A n \in Nat : ~ Waiting(n)
      BY <1>6, <1>n DEF Numbers, Waiting
    <2>2. Quiet
      BY <1>2, <2>1
    <2>3. UnderWay(<<>>, <<now>>)' /\ lastPing' = now
      BY <1>1, <1>6, <2>2, Queues DEF Quiet, UnderWay, SendPing
    <2>4. /\ now - lastPong <= Cycle + Cycle
          /\ now - lastPong <= Cycle \/ now <= serverPinged + Cycle + MaxPause
      BY <2>2, <1>n DEF Numbers, Quiet, Ahead
    <2>5. UNCHANGED Cycle /\ now <= now + MaxDelay
      BY <1>n DEF Numbers, Cycle
    <2>6. Waiting(now)'
      BY <1>1, <2>3, <2>4, <2>5, <1>n DEF Numbers, Waiting, Ahead
    <2>. QED BY <1>1, <1>4, <2>6, <1>n DEF Numbers, KeptUp
  <1>. QED BY <1>4, <1>5, <1>6
LEMMA KeepServerPings ==
    ASSUME Up, ServerPings, server.answers
    PROVE  KeptUp'
  <1>n. Numbers
    BY UpNumbers
  <1>1. /\ inbox' = Append(inbox, "PING") /\ serverPinged' = now
        /\ UNCHANGED <<now, lastPing, lastPong, pings, triggered>>
    BY DEF ServerPings
  <1>2. now - serverPinged >= server.interval /\ server.interval > Cycle + MaxPause + MaxDelay
    BY DEF ServerPings, Up, Patience, SilenceInv, TypeOK
  <1>3. /\ ~ JustPinged /\ now > serverPinged + Cycle + MaxPause + MaxDelay
    BY <1>2, <1>n DEF Numbers, JustPinged
  <1>4. JustPinged'
    BY <1>1, <1>n DEF Numbers, JustPinged
  <1>5. CASE Quiet
    <2>1. UnderWay(<<"PING">>, <<>>)'
      BY <1>1, <1>5, Queues DEF Quiet, UnderWay
    <2>2. lastPing <= lastPong
      BY <1>3, <1>5, <1>n DEF Numbers, Quiet
    <2>3. Pinged'
      BY <1>1, <1>4, <2>1, <2>2 DEF Pinged
    <2>. QED BY <1>1, <2>3, <1>n DEF Numbers, KeptUp
  <1>6. CASE Answered
    <2>1. UnderWay(<<"PONG", "PING">>, <<>>)'
      BY <1>1, <1>6, Queues DEF Answered, UnderWay
    <2>2. AnsweredThenPinged'
      BY <1>1, <1>4, <1>6, <2>1 DEF AnsweredThenPinged, Answered, Ahead, Cycle
    <2>. QED BY <1>1, <2>2, <1>n DEF Numbers, KeptUp
  <1>7. ASSUME NEW n \in Nat, Waiting(n)
        PROVE  KeptUp'
    <2>1. UnderWay(<<"PING">>, <<n>>)'
      BY <1>1, <1>7, Queues DEF Waiting, UnderWay
    <2>2. lastPing = n /\ now <= n + MaxDelay /\ Ahead(Cycle)
      BY <1>3, <1>7, <1>n DEF Numbers, Waiting
    <2>3. WaitingPinged(n)'
      BY <1>1, <1>4, <2>1, <2>2 DEF WaitingPinged, Ahead, Cycle
    <2>. QED BY <1>1, <2>3, <1>n DEF Numbers, KeptUp
  <1>8. ~ Pinged /\ ~ PingedThenAnswered /\ ~ AnsweredThenPinged /\ \A n \in Nat : ~ WaitingPinged(n)
    BY <1>3 DEF Pinged, PingedThenAnswered, AnsweredThenPinged, WaitingPinged
  <1>. QED BY <1>5, <1>6, <1>7, <1>8 DEF Up, KeptUp

LEMMA KeepServerAnswers ==
    ASSUME Up, ServerAnswers
    PROVE  KeptUp'
  <1>n. Numbers
    BY UpNumbers
  <1>1. /\ inbox' = Append(inbox, "PONG") /\ pings' = Tail(pings) /\ pings # <<>>
        /\ UNCHANGED <<now, lastPing, lastPong, triggered, serverPinged>>
    BY DEF ServerAnswers
  <1>2. ASSUME NEW n \in Nat, Waiting(n)
        PROVE  KeptUp'
    <2>1. UnderWay(<<"PONG">>, <<>>)'
      BY <1>1, <1>2, Queues DEF Waiting, UnderWay
    <2>2. Answered'
      BY <1>1, <1>2, <2>1 DEF Answered, Waiting, Ahead, Cycle
    <2>. QED BY <1>1, <2>2, <1>n DEF Numbers, KeptUp
  <1>3. ASSUME NEW n \in Nat, WaitingPinged(n)
        PROVE  KeptUp'
    <2>1. UnderWay(<<"PING", "PONG">>, <<>>)'
      BY <1>1, <1>3, Queues DEF WaitingPinged, UnderWay
    <2>2. triggered <= lastPing + MaxDelay
      BY <1>3, <1>n DEF Numbers, WaitingPinged
    <2>3. PingedThenAnswered'
      BY <1>1, <1>3, <2>1, <2>2 DEF PingedThenAnswered, WaitingPinged, JustPinged, Ahead, Cycle
    <2>. QED BY <1>1, <2>3, <1>n DEF Numbers, KeptUp
  <1>4. ~ Quiet /\ ~ Pinged /\ ~ Answered /\ ~ PingedThenAnswered /\ ~ AnsweredThenPinged
    BY <1>1 DEF Quiet, Pinged, Answered, PingedThenAnswered, AnsweredThenPinged, UnderWay
  <1>. QED BY <1>2, <1>3, <1>4 DEF Up, KeptUp

LEMMA KeepTick ==
    ASSUME Up, Tick, server.answers
    PROVE  KeptUp'
  <1>n. Numbers
    BY UpNumbers
  <1>1. /\ now' = now + 1
        /\ UNCHANGED <<lastPing, lastPong, inbox, pings, triggered, serverPinged>>
    BY DEF Tick
  <1>2. \A n \in DOMAIN pings : now' <= pings[n] + MaxDelay
    BY DEF Tick, Up
  <1>3. \A n \in Nat : pings = <<n>> => now' <= n + MaxDelay
    BY <1>2
  <1>4. \A n \in Nat : /\ Waiting(n) => Waiting(n)'
                       /\ WaitingPinged(n) => WaitingPinged(n)'
    BY <1>1, <1>3 DEF Waiting, WaitingPinged, UnderWay, JustPinged, Ahead, Cycle
  <1>5. /\ Quiet => Quiet'
        /\ Pinged => Pinged'
        /\ Answered => Answered'
        /\ PingedThenAnswered => PingedThenAnswered'
        /\ AnsweredThenPinged => AnsweredThenPinged'
    BY <1>1 DEF Quiet, Pinged, Answered, PingedThenAnswered, AnsweredThenPinged, UnderWay,
        JustPinged, Ahead, Cycle
  <1>6. serverPinged' <= now'
    BY <1>1, <1>n DEF Numbers
  <1>. QED BY <1>4, <1>5, <1>6 DEF Up, KeptUp

LEMMA KeepOnDisconnect ==
    ASSUME PingPongAssumption, SilenceInv, OnDisconnect
    PROVE  KeptUp'
  <1>1. server.interval \in Nat
    BY ServerType DEF SilenceInv, TypeOK
  <1>2. /\ UnderWay(<<>>, <<>>)' /\ lastPing' = lastPong' /\ lastPong' = now /\ now' = now
        /\ serverPinged' = now - server.interval
    BY DEF OnDisconnect, UnderWay
  <1>3. now \in Nat
    BY DEF SilenceInv, TypeOK
  <1>4. Quiet' /\ serverPinged' <= now'
    BY <1>1, <1>2, <1>3 DEF Quiet
  <1>. QED BY <1>4 DEF KeptUp

\* KeepInv is inductive.
LEMMA KeepInvariance == Patience => (Spec => []KeepInv)
  <1>. SUFFICES ASSUME Patience
                PROVE  Spec => []KeepInv
    OBVIOUS
  <1>1. Init => (SilenceInv => KeepInv)
    <2>. SUFFICES ASSUME Init, SilenceInv
                  PROVE  KeepInv
      OBVIOUS
    <2>1. server.interval \in Nat
      BY ServerType, PingPongAssumption DEF Init
    <2>2. Quiet /\ serverPinged <= now
      BY <2>1 DEF Init, Quiet, UnderWay
    <2>. QED BY <2>2 DEF Init, KeepInv, KeptUp
  <1>2. ASSUME KeepInv, SilenceInv', [Next]_vars
        PROVE  KeepInv'
    <2>. SUFFICES ASSUME server.answers
                  PROVE  status' # "disconnecting" /\ (status' = "up" => KeptUp')
      <3>1. server' = server
        BY <1>2 DEF Next, vars, OnPing, OnPong, OnTimeTrigger, OnDisconnect, ServerPings,
            ServerAnswers, ConnectionLost, Tick
      <3>. QED BY <1>2, <3>1 DEF KeepInv
    <2>1. PingPongAssumption /\ Patience /\ SilenceInv /\ (status = "up" => Up)
      BY <1>2, PingPongAssumption DEF KeepInv, Up
    <2>2. CASE OnPing
      BY <2>1, <2>2, KeepOnPing DEF OnPing
    <2>3. CASE OnPong
      BY <2>1, <2>3, KeepOnPong DEF OnPong
    <2>4. CASE OnTimeTrigger
      <3>1. KeptUp' /\ status' = "up"
        BY <2>1, <2>4, KeepOnTimeTrigger DEF OnTimeTrigger
      <3>. QED BY <3>1
    <2>5. CASE OnDisconnect
      BY <2>1, <2>5, KeepOnDisconnect DEF OnDisconnect
    <2>6. CASE ServerPings
      BY <2>1, <2>6, KeepServerPings DEF ServerPings
    <2>7. CASE ServerAnswers
      BY <2>1, <2>7, KeepServerAnswers DEF ServerAnswers
    <2>8. CASE ConnectionLost
      BY <2>8 DEF ConnectionLost
    <2>9. CASE Tick
      <3>1. status' = status /\ status # "disconnecting"
        BY <1>2, <2>9 DEF Tick, KeepInv
      <3>. QED BY <2>1, <2>9, <3>1, KeepTick
    <2>10. CASE UNCHANGED vars
      <3>1. status' = status /\ status # "disconnecting"
        BY <1>2, <2>10 DEF vars, KeepInv
      <3>2. KeptUp => KeptUp'
        BY <2>10 DEF vars, KeptUp, Quiet, Pinged, Answered, PingedThenAnswered,
            AnsweredThenPinged, Waiting, WaitingPinged, UnderWay, JustPinged, Ahead, Cycle
      <3>. QED BY <2>1, <3>1, <3>2 DEF Up
    <2>. QED BY <1>2, <2>2, <2>3, <2>4, <2>5, <2>6, <2>7, <2>8, <2>9, <2>10 DEF Next
  <1>. QED BY <1>1, <1>2, SilenceInvariance, PTL DEF Spec

\* A server that answers each PING in time, and leaves its own far enough apart, is never
\* taken for dead by onTimeTrigger(), however the PINGs of the two sides interleave.
THEOREM LivingServerIsKept == Patience => (Spec => []AnsweringIsKept)
  <1>1. KeepInv => AnsweringIsKept
    BY DEF KeepInv, AnsweringIsKept
  <1>. QED BY <1>1, KeepInvariance, PTL
=============================================================================
