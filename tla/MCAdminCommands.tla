-------------------------- MODULE MCAdminCommands --------------------------
(***************************************************************************)
(* AdminCommands for TLC: every short text, and texts that begin like a    *)
(* command or like one after a nickname; nicknames in use and one to spare.*)
(***************************************************************************)
EXTENDS AdminCommands

CONSTANTS alice, bob

MCUsers == {alice, bob}
MCOwn == <<"zero">>
MCAdmin == <<"alice">>
MCNicknames == {MCOwn, MCAdmin, <<"x">>, <<"zero", "x">>}
MCChannel == <<"#", "x">>

UpTo(S, n) == UNION {[1..k -> S] : k \in 0..n}

After(beginning, S, n) == {beginning \o s : s \in UpTo(S, n)}

MCTexts ==
    UpTo({"SP", ":", "!", "zero", "x", "quit"}, 3)
    \cup After(<<"zero", ":">>, {"SP", ":", "!", "quit"}, 3)
    \cup After(<<"zero", ":", "SP", "x">>, {"SP", ":", "!", "quit"}, 4)
    \cup After(<<"!", "SP">>, {"SP", ":", "!", "zero", "quit"}, 4)
    \cup After(<<"!", "leave">>, {"SP", ":", "#", "x"}, 3)
    \cup After(<<"!", "leave", "SP", "#">>, {"SP", "#", "x"}, 3)
    \cup After(<<"zero", ":", "SP", "!", "join">>, {"SP", "#", "x"}, 3)
    \cup After(<<"zero", "x", ":", "SP", "!">>, {"leave", "SP", "#", "version"}, 3)
=============================================================================
