------------------------------ MODULE PingPong ------------------------------
(***************************************************************************)
(* PlugInPingPong against a clock: when the bot PINGs its server, and when *)
(* it takes the connection for dead.  ZeroBot.tla lets the plug-in decide  *)
(* either at any time; here the decision is the code's, with time(NULL) as *)
(* the variable now, and of the rest of the bot only what the plug-in sees *)
(* is left: messages handed to onPacket() until none is left, then one     *)
(* onTimeTrigger(), again and again, and onDisconnect() between two        *)
(* connections.  A definition named ...Mutant is the one after it with a   *)
(* plausible bug; nothing else uses it.                                    *)
(***************************************************************************)
EXTENDS Integers, Sequences

CONSTANTS
    PingAfter,       \* 60: idle time after which onTimeTrigger() PINGs
    TimeoutAfter,    \* 125: time from PONG to PING that means a timeout
    MaxPause,        \* the longest time between two calls of onTimeTrigger()
    Servers,         \* the servers there are: whether one answers PINGs, and the
                     \*   shortest time between two PINGs of its own
    MaxDelay,        \* the longest time until a PING is answered, if it is
    MaxTime          \* bound: the clock stops there

ASSUME PingPongAssumption ==
    /\ PingAfter \in Nat /\ TimeoutAfter \in Nat
    /\ MaxPause \in Nat \ {0} /\ MaxDelay \in Nat /\ MaxTime \in Nat
    /\ Servers \subseteq [answers : BOOLEAN, interval : Nat \ {0}]

VARIABLES
    now,         \* time( NULL )
    server,      \* the server, which is always the same one
    status,      \* "up", "disconnecting" after a timeout, "lost"
    lastPing,    \* PlugInPingPong::lastPing
    lastPong,    \* PlugInPingPong::lastPong
    inbox,       \* the messages the bot has yet to process
    pings,       \* when the PINGs were sent that the server has not answered
    triggered,   \* history: the last onTimeTrigger(), or the connection's start
    heard,       \* history: the last PONG processed, or the connection's start
    serverPinged \* history: the server's last PING

vars ==
    <<now, server, status, lastPing, lastPong, inbox, pings, triggered, heard, serverPinged>>

TypeOK ==
    /\ server \in Servers
    /\ now \in Nat /\ lastPing \in Nat /\ lastPong \in Nat
    /\ triggered \in Nat /\ heard \in Nat /\ serverPinged \in Int
    /\ status \in {"up", "disconnecting", "lost"}
    /\ inbox \in Seq({"PING", "PONG"})
    /\ pings \in Seq(Nat)

Init ==
    /\ server \in Servers
    /\ now = 0 /\ status = "up"
    /\ lastPing = now /\ lastPong = now
    /\ inbox = <<>> /\ pings = <<>>
    /\ triggered = now /\ heard = now /\ serverPinged = -server.interval

-----------------------------------------------------------------------------
(* The bot.                                                                *)

\* Takes any message for a sign of life.
OnPingMutant ==
    /\ status = "up" /\ inbox # <<>> /\ Head(inbox) = "PING"
    /\ lastPing' = now /\ lastPong' = now
    /\ inbox' = Tail(inbox)
    /\ UNCHANGED <<now, server, status, pings, triggered, heard, serverPinged>>

\* onPacket() for a PING: the PONG it returns leaves at once.
OnPing ==
    /\ status = "up" /\ inbox # <<>> /\ Head(inbox) = "PING"
    /\ lastPing' = now
    /\ inbox' = Tail(inbox)
    /\ UNCHANGED <<now, server, status, lastPong, pings, triggered, heard, serverPinged>>

\* Sets the wrong one of the two times.
OnPongMutant ==
    /\ status = "up" /\ inbox # <<>> /\ Head(inbox) = "PONG"
    /\ lastPing' = now /\ heard' = now
    /\ inbox' = Tail(inbox)
    /\ UNCHANGED <<now, server, status, lastPong, pings, triggered, serverPinged>>

\* onPacket() for a PONG.
OnPong ==
    /\ status = "up" /\ inbox # <<>> /\ Head(inbox) = "PONG"
    /\ lastPong' = now /\ heard' = now
    /\ inbox' = Tail(inbox)
    /\ UNCHANGED <<now, server, status, lastPing, pings, triggered, serverPinged>>

SendPing == lastPing' = now /\ pings' = Append(pings, now)

\* onTimeTrigger(), when receiveMessages() has found nothing more.
OnTimeTrigger ==
    /\ status = "up" /\ inbox = <<>>
    /\ triggered' = now
    /\ \/ /\ lastPing - lastPong > TimeoutAfter
          /\ status' = "disconnecting"
          /\ UNCHANGED <<lastPing, pings>>
       \/ /\ lastPing - lastPong <= TimeoutAfter
          /\ now - lastPing > PingAfter
          /\ SendPing
          /\ status' = status
       \/ /\ lastPing - lastPong <= TimeoutAfter
          /\ now - lastPing <= PingAfter
          /\ UNCHANGED <<status, lastPing, pings>>
    /\ UNCHANGED <<now, server, lastPong, inbox, heard, serverPinged>>

\* Has the new connection PINGed at once.
OnDisconnectMutant ==
    /\ status # "up"
    /\ status' = "up"
    /\ lastPing' = now - PingAfter /\ lastPong' = now
    /\ inbox' = <<>> /\ pings' = <<>>
    /\ triggered' = now /\ heard' = now /\ serverPinged' = now - server.interval
    /\ UNCHANGED <<now, server>>

\* The last onDisconnect() pass resets the plug-in, then PlugInReconnect has a new
\* socket opened.
OnDisconnect ==
    /\ status # "up"
    /\ status' = "up"
    /\ lastPing' = now /\ lastPong' = now
    /\ inbox' = <<>> /\ pings' = <<>>
    /\ triggered' = now /\ heard' = now /\ serverPinged' = now - server.interval
    /\ UNCHANGED <<now, server>>

-----------------------------------------------------------------------------
(* The server, the network and the clock.                                  *)

ServerPings ==
    /\ status = "up" /\ now - serverPinged >= server.interval
    /\ inbox' = Append(inbox, "PING")
    /\ serverPinged' = now
    /\ UNCHANGED <<now, server, status, lastPing, lastPong, pings, triggered, heard>>

ServerAnswers ==
    /\ status = "up" /\ pings # <<>>
    /\ inbox' = Append(inbox, "PONG")
    /\ pings' = Tail(pings)
    /\ UNCHANGED <<now, server, status, lastPing, lastPong, triggered, heard, serverPinged>>

ConnectionLost ==
    /\ status = "up"
    /\ status' = "lost"
    /\ UNCHANGED <<now, server, lastPing, lastPong, inbox, pings, triggered, heard, serverPinged>>

\* Time passes, but not beyond what the bot's next onTimeTrigger() and an answer
\* that is due allow.
Tick ==
    /\ now < MaxTime
    /\ now' = now + 1
    /\ status = "up" =>
         /\ now' <= triggered + MaxPause
         /\ server.answers => \A n \in DOMAIN pings : now' <= pings[n] + MaxDelay
    /\ UNCHANGED <<server, status, lastPing, lastPong, inbox, pings, triggered, heard, serverPinged>>

Next ==
    \/ OnPing \/ OnPong \/ OnTimeTrigger \/ OnDisconnect
    \/ ServerPings \/ ServerAnswers \/ ConnectionLost \/ Tick

Spec == Init /\ [][Next]_vars

-----------------------------------------------------------------------------
\* Whatever else the server sends, the bot does not keep a connection on which no
\* PING is answered for longer than the two limits and the pauses of its own loop
\* add up to.
SilenceIsNoticed ==
    status = "up" => now - heard <= TimeoutAfter + PingAfter + 2 * MaxPause

\* A connection whose server answers every PING in time is not taken for dead (RFC
\* 1459, rfc/rfc1459.txt:2030, has those closed that fail "to respond to a PING").
AnsweringIsKept == server.answers => status # "disconnecting"
=============================================================================
