----------------------------- MODULE MCPingPong -----------------------------
(***************************************************************************)
(* PingPong for TLC.  The unit of time is some ten seconds.  The limits 6  *)
(* and 14 of the configurations stand for 60 and 125, with a pause of 1    *)
(* for the two seconds that receive() may wait: what matters is that       *)
(* 2 * (PingAfter + MaxPause) <= TimeoutAfter holds of both.               *)
(***************************************************************************)
EXTENDS PingPong

Server(answers, interval) == [answers |-> answers, interval |-> interval]

\* One that PINGs but is deaf, one that answers and leaves enough time between its own
\* PINGs for one of the bot's: more than PingAfter + 2 * MaxPause + MaxDelay.
MCServers == {Server(FALSE, 3), Server(TRUE, 11)}
=============================================================================
