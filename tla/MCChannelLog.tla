---------------------------- MODULE MCChannelLog ----------------------------
(***************************************************************************)
(* ChannelLog for TLC: the bot and two users, one of them with a second    *)
(* nickname to change to.                                                  *)
(***************************************************************************)
EXTENDS ChannelLog, TLC

CONSTANTS zero, alice, bob

MCNicks == {zero, alice, bob}

\* The users are interchangeable.
MCSymmetry == Permutations({alice, bob})
=============================================================================
