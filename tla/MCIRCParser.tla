---------------------------- MODULE MCIRCParser ----------------------------
(***************************************************************************)
(* IRCParser for TLC: a symbol or two of each class, lines from nothing    *)
(* and lines whose first parts are already there.                          *)
(***************************************************************************)
EXTENDS IRCParser

MCBeginnings ==
    {<<>>, <<":", "x", "!">>, <<":", "x", "SP", "PING">>, <<":", ".", "SP", "PRIVMSG">>}
=============================================================================
