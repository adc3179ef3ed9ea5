----------------------------- MODULE IRCSession -----------------------------
(***************************************************************************)
(* What the bot promises its IRC server, socket by socket: NICK, then USER,*)
(* then anything else, QUIT last.  A working socket is given up only after *)
(* a QUIT; a lost one is replaced, or the bot ends.                        *)
(***************************************************************************)
EXTENDS Naturals

VARIABLES
    session,  \* what has been said on this socket
    link,     \* whether the connection stands
    conn,     \* the number of this socket
    alive     \* whether the bot runs

vars == <<session, link, conn, alive>>

Init == session = "opened" /\ link = "up" /\ conn = 1 /\ alive = TRUE

Say(from, to) ==
    /\ alive /\ session = from
    /\ session' = to
    /\ UNCHANGED <<link, conn, alive>>

Nick == Say("opened", "nick")
User == Say("nick", "registered")
Quit == Say("registered", "quit")

Lose == link = "up" /\ link' = "closed" /\ UNCHANGED <<session, conn, alive>>

Over == link = "closed" \/ session = "quit"

Redial ==
    /\ alive /\ Over
    /\ session' = "opened" /\ link' = "up" /\ conn' = conn + 1
    /\ UNCHANGED alive

Stop == alive /\ Over /\ alive' = FALSE /\ UNCHANGED <<session, link, conn>>

\* A lost connection is not left alone.
Recover == link = "closed" /\ (Redial \/ Stop)

Next == Nick \/ User \/ Quit \/ Lose \/ Redial \/ Stop

Safety == Init /\ [][Next]_vars

Spec == Safety /\ WF_vars(Recover)
=============================================================================
