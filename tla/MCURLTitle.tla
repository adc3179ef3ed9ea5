----------------------------- MODULE MCURLTitle -----------------------------
(***************************************************************************)
(* URLTitle for TLC: every short text, every short page, and every title   *)
(* of a few symbols.                                                       *)
(***************************************************************************)
EXTENDS URLTitle

UpTo(S, n) == UNION {[1..k -> S] : k \in 0..n}

MCTexts ==
    UpTo({"word", "://"}, 2)
    \cup {<<"SP", "://">>, <<"^A", "word", "://", "^A">>, <<"word", "SP", "://", "word">>,
          <<"word", "SP", "word", "://", "word", "SP", "://">>}

Titled(s) == <<"<title>">> \o s \o <<"</title>">>

MCPages ==
    UpTo({"<title>", "</title>", "<p>", "NUL", "word"}, 3)
    \cup {Titled(s) : s \in UpTo({"word", "SP", "^A"}, 5)
                          \cup UpTo({"word", "SP", "TAB", "LF"}, 4)
                          \cup UpTo({"word", "SP", "://"}, 3)}
=============================================================================
