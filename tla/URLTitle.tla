------------------------------ MODULE URLTitle ------------------------------
(***************************************************************************)
(* PlugInURLTitle: the first URL of a message is fetched, and the title of *)
(* the page is said where the message was.                                 *)
(*                                                                         *)
(* Texts and pages are sequences of symbols.  A symbol is a run of         *)
(* characters the code does not look into: a word, a tag, "://", or one    *)
(* space or control character.  libcurl, libtidy, expat, the web and the   *)
(* server are the environment.                                             *)
(*                                                                         *)
(* A definition named ...Mutant is the one after it with a plausible bug;  *)
(* nothing else uses it.                                                   *)
(***************************************************************************)
EXTENDS Naturals, Sequences, SequencesExt, SortedSets

CONSTANTS
    Words,       \* symbols of printable characters, "://" and "Title:" among them
    Spaces,      \* isspace(), the space "SP" among them, but for CR and LF
    Controls,    \* iscntrl() and not isspace(), but for NUL
    Texts,       \* what users may say
    Pages,       \* what the web may serve
    Limit,       \* CurlHTMLDownloader::MAX_BUFFER_SIZE
    MaxMessages  \* bound: messages that reach the bot

Breaks == {"CR", "LF"}

\* PlugInURLTitle::whitespace.
Whitespace == Spaces \cup Breaks \cup Controls

TitleTags == {"<title>", "</title>"}

Symbols == Words \cup Whitespace \cup TitleTags \cup {"<p>", "NUL"}

\* A character is of one class.
ASSUME SymbolsAssumption ==
    /\ {"://", "Title:"} \subseteq Words /\ "SP" \in Spaces
    /\ (Words \cup Whitespace) \cap (TitleTags \cup {"<p>", "NUL"}) = {}
    /\ Words \cap Whitespace = {} /\ Spaces \cap (Breaks \cup Controls) = {} /\ Breaks \cap Controls = {}

ASSUME URLTitleAssumption ==
    /\ Texts \subseteq Seq(Words \cup Spaces \cup Controls)
    /\ Pages \subseteq Seq(Symbols)
    /\ Limit \in Nat /\ MaxMessages \in Nat

\* Where a message goes: a channel, or to the bot alone.
Receivers == {"channel", "bot"}

VARIABLES
    inbox,      \* messages to the bot that it has not received
    heard,      \* messages that have reached it
    pc,         \* how far onPacket() is
    message,    \* the MessagePrivMsg, {} between two of them
    url,        \* CurlHTMLDownloader::url
    page,       \* what the web serves for it
    received,   \* how much of that libcurl has handed over
    buffer,     \* CurlHTMLDownloader::buffer
    transfer,   \* what came of curl_easy_perform()
    document,   \* HTMLTidy::resultDocument
    result      \* the message of the PlugInResult, {} for none

said == <<inbox, heard>>
download == <<url, page, received, buffer, transfer>>
vars == <<said, pc, message, download, document, result>>

Message == [receiver : Receivers, text : Seq(Words \cup Spaces \cup Controls)]

TypeOK ==
    /\ inbox \in Seq(Message) /\ heard \in Nat
    /\ pc \in {"idle", "perform", "tidy", "parse", "result"}
    /\ message \subseteq Message
    /\ url \in Seq(Words)
    /\ page \in Seq(Symbols) /\ received \in 0..Len(page)
    /\ buffer \in Seq(Symbols) /\ document \in Seq(Symbols)
    /\ transfer \in {"running", "done", "write_error", "failed"}
    /\ result \subseteq [receiver : Receivers, text : Seq(Words \cup Spaces)]

Init ==
    /\ inbox = <<>> /\ heard = 0
    /\ pc = "idle" /\ message = {}
    /\ url = <<>> /\ page = <<>> /\ received = 0 /\ buffer = <<>> /\ transfer = "running"
    /\ document = <<>> /\ result = {}

-----------------------------------------------------------------------------
(* What is computed.                                                       *)

HasURL(text) == "://" \in ToSet(text)

\* Looks for the whitespace before the URL from the end of the text.
URLMutant(text) ==
    LET at    == SelectInSeq(text, LAMBDA c : c = "://")
        begin == Max({0} \cup {i \in DOMAIN text : text[i] \in Whitespace})
        end   == Min({Len(text) + 1} \cup {i \in at..Len(text) : text[i] \in Whitespace})
    IN  SubSeq(text, begin + 1, end - 1)

\* find( "://" ), find_last_of() and find_first_of(); npos + 1 is 0.
URL(text) ==
    LET at    == SelectInSeq(text, LAMBDA c : c = "://")
        begin == Max({0} \cup {i \in 1..at : text[i] \in Whitespace})
        end   == Min({Len(text) + 1} \cup {i \in at..Len(text) : text[i] \in Whitespace})
    IN  SubSeq(text, begin + 1, end - 1)

\* Compares what is there instead of what will be.
WriteSizeMutant(size, n) == IF size > Limit THEN 0 ELSE n

\* How much of n more writeDataCallback() appends to a buffer of this size.
WriteSize(size, n) == IF size + n > Limit THEN Limit - size ELSE n

\* document.c_str(), as libtidy reads it.
CString(s) ==
    LET nul == SelectInSeq(s, LAMBDA c : c = "NUL") IN IF nul = 0 THEN s ELSE SubSeq(s, 1, nul - 1)

\* What libtidy makes of it: a title that is left open is closed.
Repaired(s) ==
    LET last == SelectLastInSeq(s, LAMBDA c : c \in TitleTags)
    IN  IF last > 0 /\ s[last] = "<title>" THEN Append(s, "</title>") ELSE s

\* ExpatHTMLTitleParser's handlers for one symbol of the document.
Handle(parser, c) ==
    CASE c = "<title>"              -> [parser EXCEPT !.inTitle = TRUE]
      [] c = "</title>"             -> [parser EXCEPT !.inTitle = FALSE]
      [] c \in Words \cup Whitespace -> IF parser.inTitle THEN [parser EXCEPT !.title = Append(@, c)]
                                                         ELSE parser
      [] OTHER                      -> parser

Title(s) == FoldLeft(Handle, [inTitle |-> FALSE, title |-> <<>>], s).title

\* One character of the title in canonicalizeTitle(): erased or kept, by what is kept
\* before it.
Keep(kept, c) ==
    CASE c \in Spaces   -> IF kept = <<>> \/ Last(kept) \in Spaces THEN kept ELSE Append(kept, c)
      [] c \in Controls -> kept
      [] OTHER          -> Append(kept, c)

\* Leaves the line breaks.
canonicalizeTitleBreaksMutant(title) ==
    LET kept == FoldLeft(Keep, <<>>, title)
    IN  IF kept # <<>> /\ Last(kept) \in Spaces THEN Front(kept) ELSE kept

\* Leaves the space at the end.
canonicalizeTitleMutant(title) ==
    FoldLeft(Keep, <<>>, [i \in DOMAIN title |-> IF title[i] \in Breaks THEN "SP" ELSE title[i]])

canonicalizeTitle(title) ==
    LET kept == FoldLeft(Keep, <<>>,
                         [i \in DOMAIN title |-> IF title[i] \in Breaks THEN "SP" ELSE title[i]])
    IN  IF kept # <<>> /\ Last(kept) \in Spaces THEN Front(kept) ELSE kept

-----------------------------------------------------------------------------
(* PlugInURLTitle::onPacket().  An exception on the way is caught at the   *)
(* end of it and leaves it without a result.                               *)

Finish(newResult) == pc' = "result" /\ result' = newResult

\* The constructor of the downloader, which throws if libcurl cannot be initialised.
NewDownloader(text) ==
    /\ url' = URL(text)
    /\ \/ page' \in Pages /\ pc' = "perform" /\ UNCHANGED result
       \/ Finish({}) /\ UNCHANGED page

OnPacket ==
    /\ pc = "idle" /\ inbox # <<>>
    /\ message' = {Head(inbox)}
    /\ inbox' = Tail(inbox)
    /\ IF HasURL(Head(inbox).text) THEN NewDownloader(Head(inbox).text)
                                  ELSE Finish({}) /\ UNCHANGED <<url, page>>
    /\ UNCHANGED <<heard, received, buffer, transfer, document>>

\* libcurl hands over n symbols more, and gives up when not all of them are taken.
WriteData ==
    /\ pc = "perform"
    /\ \E n \in 1..(Len(page) - received) :
         LET writeSize == WriteSize(Len(buffer), n) IN
         /\ received' = received + n
         /\ buffer' = buffer \o SubSeq(page, received + 1, received + writeSize)
         /\ IF writeSize < n THEN pc' = "tidy" /\ transfer' = "write_error"
                             ELSE UNCHANGED <<pc, transfer>>
    /\ UNCHANGED <<said, message, url, page, document, result>>

\* curl_easy_perform() returns: all was handed over, or anything else has gone wrong.
\* perform() goes on with what there is.
TransferEnds ==
    /\ pc = "perform"
    /\ \/ received = Len(page) /\ transfer' = "done"
       \/ transfer' = "failed"
    /\ pc' = "tidy"
    /\ UNCHANGED <<said, message, url, page, received, buffer, document, result>>

\* HTMLTidy::run(), which throws when libtidy reports a severe error.
Tidy ==
    /\ pc = "tidy"
    /\ \/ pc' = "parse" /\ document' = Repaired(CString(buffer)) /\ UNCHANGED result
       \/ Finish({}) /\ UNCHANGED document
    /\ UNCHANGED <<said, message, download>>

\* ExpatHTMLTitleParser::parse(), which throws when expat rejects the document, and
\* the result.
Parse ==
    /\ pc = "parse"
    /\ \/ LET title == canonicalizeTitle(Title(document)) IN
          Finish({[receiver |-> m.receiver, text |-> <<"Title:", "SP">> \o title] :
                      m \in {x \in message : title # <<>>}})
       \/ Finish({})
    /\ UNCHANGED <<said, message, download, document>>

-----------------------------------------------------------------------------
(* The bot sends the result, and the server delivers it; a message to the  *)
(* bot's own nickname comes back.                                          *)

SendResult ==
    /\ pc = "result"
    /\ \/ /\ heard < MaxMessages
          /\ \E r \in result : r.receiver = "bot" /\ inbox' = Append(inbox, r)
          /\ heard' = heard + 1
       \/ /\ \A r \in result : r.receiver = "channel"
          /\ UNCHANGED said
    /\ pc' = "idle" /\ message' = {} /\ result' = {}
    /\ url' = <<>> /\ page' = <<>> /\ received' = 0 /\ buffer' = <<>> /\ transfer' = "running"
    /\ document' = <<>>

\* What is said while the bot is busy waits in the socket and is left out.
UserSays ==
    /\ pc = "idle" /\ inbox = <<>> /\ heard < MaxMessages
    /\ \E text \in Texts, receiver \in Receivers :
         inbox' = Append(inbox, [receiver |-> receiver, text |-> text])
    /\ heard' = heard + 1
    /\ UNCHANGED <<pc, message, download, document, result>>

Next == OnPacket \/ WriteData \/ TransferEnds \/ Tidy \/ Parse \/ SendResult \/ UserSays

Spec == Init /\ [][Next]_vars

-----------------------------------------------------------------------------
(* Properties.                                                             *)

\* The buffer is what the page begins with, up to the limit and no more: nothing is
\* missing in between, however the page comes in pieces, and a transfer that was
\* not disturbed yields everything the limit admits.
DownloadIsCut ==
    /\ buffer = SubSeq(page, 1, Min({received, Limit}))
    /\ transfer = "done" => received = Len(page)
    /\ transfer = "write_error" => Len(buffer) = Limit

\* The words of s: what is between white space.
WordsOf(s, white) ==
    LET starts == {i \in DOMAIN s : s[i] \notin white /\ (i > 1 => s[i - 1] \in white)}
        End(i) == CHOOSE j \in i..Len(s) : /\ \A k \in i..j : s[k] \notin white
                                           /\ j < Len(s) => s[j + 1] \in white
        in == Sorted(starts)
    IN  [k \in DOMAIN in |-> SubSeq(s, in[k], End(in[k]))]

\* What is fetched is a whole word of the message, and the first that looks like a URL.
URLIsAWord ==
    pc # "result" => \A m \in message :
        LET words == WordsOf(m.text, Whitespace) IN
        \E k \in DOMAIN words :
            /\ words[k] = url /\ HasURL(url)
            /\ \A j \in 1..(k - 1) : ~HasURL(words[j])

\* What a document says between <title> and </title>, but for the control characters,
\* which nobody sees.
TitleSymbols(s) ==
    LET inside == {i \in DOMAIN s :
            /\ s[i] \in Words \cup Spaces \cup Breaks
            /\ \E j \in 1..i : s[j] = "<title>" /\ \A k \in j..i : s[k] # "</title>"}
        in == Sorted(inside)
    IN  [k \in DOMAIN in |-> s[in[k]]]

\* What the bot says has the words of the title in what was received of the page, up to
\* the limit and to where the transfer ended or failed, in one line, with one space
\* between two of them.  The title may go on where that ends: perform() goes on after
\* any error, where its TODO wants it to "abort" but for the limit (urltitle.cpp:107-108).
TitleWasReceived ==
    pc = "result" => \A r \in result :
        LET seen  == CString(SubSeq(page, 1, Min({received, Limit})))
            words == WordsOf(TitleSymbols(seen), Spaces \cup Breaks)
        IN  /\ words # <<>>
            /\ WordsOf(r.text, Spaces) = <<<<"Title:">>>> \o words
            /\ Cardinality({i \in DOMAIN r.text : r.text[i] \in Spaces}) = Len(words)
=============================================================================
