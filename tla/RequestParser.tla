--------------------------- MODULE RequestParser ---------------------------
(***************************************************************************)
(* class RequestParser (src/src/request_parser.cc): the hand-written       *)
(* character state machine that turns the text of a request into a Request.*)
(*                                                                         *)
(* Text is a sequence of lexemes, the units the machine treats alike: a    *)
(* word of token characters, a blank, a URI, the version, a header name    *)
(* with its colon, a CRLF.  The states that only spell out one lexeme      *)
(* (_version_firstT .. _version_minor_start, _newline_1 .. _newline_3) are *)
(* folded into the state before it; every other state is kept.  Digits are *)
(* lexemes one by one: a number is spelt by several of them.               *)
(*                                                                         *)
(* A parser lives as long as the process and is shared by every session:   *)
(* its fields survive a Parse that ends `undefined'.                       *)
(***************************************************************************)
EXTENDS Naturals, Sequences

CONSTANTS
    Methods,     \* the method names Utils::check_method knows
    Uppers,      \* other words in capitals
    Lowers,      \* words that are not in capitals
    Digits,      \* the digits, a function to their values
    Paths,       \* URIs that begin with a slash
    Urls,        \* URIs that begin with http
    FieldNames,  \* header names, colon included
    ULLONG_MAX   \* the largest number std::stoull can return

SP      == " "
CRLF    == "CRLF"
VERSION == "HTTP/1.1"
JUNK    == "junk"        \* a byte above 127
CONTENT_LENGTH == "Content-Length:"

Letters == Methods \cup Uppers \cup Lowers
Tokens  == Letters \cup DOMAIN Digits
Uris    == Paths \cup Urls
Lexemes == Tokens \cup Uris \cup FieldNames \cup {SP, CRLF, VERSION, JUNK}
Text    == Seq(Lexemes)

ASSUME DigitsAssumption == \A d \in DOMAIN Digits : Digits[d] \in 0..9

ASSUME MaxAssumption == ULLONG_MAX \in Nat

ASSUME LexemesAssumption ==
    /\ {SP, CRLF, VERSION, JUNK} \cap (Tokens \cup Uris \cup FieldNames) = {}
    /\ Tokens \cap Uris = {} /\ Tokens \cap FieldNames = {} /\ Uris \cap FieldNames = {}
    /\ CONTENT_LENGTH \notin Tokens          \* a colon is no token character

-----------------------------------------------------------------------------
(* The fields of the parser that decide what it does.                      *)

States == {"_method_start", "_method", "_uri", "_version_h", "_version_minor",
           "_header_start", "_header_lws", "_header_name",
           "_space_before_header_value", "_header_value", "_body"}

Header == [name : Text, value : Text]

Parser == [state : States, uri : Text, headers : Seq(Header), remaining : Nat]

\* req_parser is a global object, so `remaining' starts as zero.
FreshParser == [state |-> "_method_start", uri |-> <<>>, headers |-> <<>>, remaining |-> 0]

\* (Faulty: the next request's URI is put behind this one's.)
ResetKeepingUri(p) == [p EXCEPT !.state = "_method_start", !.headers = <<>>]

\* Reset leaves `remaining' alone.
Reset(p) == [p EXCEPT !.state = "_method_start", !.uri = <<>>, !.headers = <<>>]

\* The positions of the digits std::stoull reads: those that come first in v,
\* blanks left out, up to the first lexeme that is no digit.
NumberPlaces(v) ==
    {i \in 1..Len(v) : \E k \in 1..i : /\ \A j \in 1..(k - 1) : v[j] = SP
                                       /\ \A j \in k..i : v[j] \in DOMAIN Digits}

\* What std::stoull returns for v.  It is 0 here where stoull throws, as there
\* is no digit or the number is too large: the caller catches the exception and
\* returns good, as it does for 0.
stoull(v) ==
    LET value[i \in 0..Len(v)] ==
            IF i = 0 THEN 0
            ELSE IF i \in NumberPlaces(v) THEN 10 * value[i - 1] + Digits[v[i]]
            ELSE value[i - 1]
        n == value[Len(v)]
    IN  IF n \in 0..ULLONG_MAX THEN n ELSE 0

\* The first header of that name, as GetHeaderValue searches them in order.
GetHeaderValue(p, name) ==
    LET named == {i \in 1..Len(p.headers) : p.headers[i].name = <<name>>}
    IN  IF named = {}
        THEN <<>>
        ELSE p.headers[CHOOSE i \in named : \A j \in named : i <= j].value

-----------------------------------------------------------------------------
(* One input character (here, lexeme): the result and the parser after it. *)

Undefined(p) == [result |-> "undefined", parser |-> p]
Good(p)      == [result |-> "good", parser |-> p]
Bad(p)       == [result |-> "bad", parser |-> p]

Goto(p, st)    == Undefined([p EXCEPT !.state = st])
PushUri(p, c)  == Undefined([p EXCEPT !.uri = Append(@, c)])

NewHeader(p, st, c) ==
    Undefined([p EXCEPT !.state = st,
                        !.headers = Append(@, [name |-> <<c>>, value |-> <<>>])])

\* headers_.back(), which needs a header to be there
PushName(p, st, c) ==
    Undefined([p EXCEPT !.state = st, !.headers[Len(p.headers)].name = Append(@, c)])
PushValue(p, c) ==
    Undefined([p EXCEPT !.state = "_header_value",
                        !.headers[Len(p.headers)].value = Append(@, c)])

\* (Faulty: a body is expected although none is announced.)
EndOfHeadersAlwaysBody(p) ==
    Undefined([p EXCEPT !.state = "_body",
                        !.remaining = stoull(GetHeaderValue(p, CONTENT_LENGTH))])

\* (Faulty: Content-Length is not looked at.)
EndOfHeadersNoBody(p) == Good(p)

\* The blank line: the body that Content-Length announces, if any.
EndOfHeaders(p) ==
    LET n == stoull(GetHeaderValue(p, CONTENT_LENGTH))
    IN  IF n > 0 THEN Undefined([p EXCEPT !.state = "_body", !.remaining = n])
                 ELSE Good([p EXCEPT !.remaining = n])

BodyChar(p) ==
    LET q == [p EXCEPT !.remaining = @ - 1]
    IN  IF q.remaining > 0 THEN Undefined(q) ELSE Good(q)

NextCharHandler(p, c) ==
    CASE p.state = "_method_start" ->
            IF c \in Tokens THEN Goto(p, "_method") ELSE Bad(p)
      [] p.state = "_method" ->
            IF c = SP THEN Goto(p, "_uri")
            ELSE IF c \in Tokens THEN Undefined(p) ELSE Bad(p)
      [] p.state = "_uri" ->
            IF c = SP THEN Goto(p, "_version_h")
            ELSE IF c = CRLF THEN Bad(p) ELSE PushUri(p, c)
      [] p.state = "_version_h" ->
            IF c = VERSION THEN Goto(p, "_version_minor") ELSE Bad(p)
      [] p.state = "_version_minor" ->
            IF c = CRLF THEN Goto(p, "_header_start")
            ELSE IF c \in DOMAIN Digits THEN Undefined(p) ELSE Bad(p)
      [] p.state = "_header_start" ->
            IF c = CRLF THEN EndOfHeaders(p)
            ELSE IF c = SP /\ p.headers # <<>> THEN Goto(p, "_header_lws")
            ELSE IF c \in FieldNames THEN NewHeader(p, "_space_before_header_value", c)
            ELSE IF c \in Tokens THEN NewHeader(p, "_header_name", c)
            ELSE Bad(p)
      [] p.state = "_header_lws" ->
            IF c = CRLF THEN Goto(p, "_header_start")
            ELSE IF c = SP THEN Undefined(p) ELSE PushValue(p, c)
      [] p.state = "_header_name" ->
            IF c \in FieldNames THEN PushName(p, "_space_before_header_value", c)
            ELSE IF c \in Tokens THEN PushName(p, "_header_name", c)
            ELSE Bad(p)
      [] p.state = "_space_before_header_value" ->
            IF c = SP THEN Goto(p, "_header_value") ELSE Bad(p)
      [] p.state = "_header_value" ->
            IF c = CRLF THEN Goto(p, "_header_start") ELSE PushValue(p, c)
      [] p.state = "_body" -> BodyChar(p)

-----------------------------------------------------------------------------
(* Parse: characters are consumed until one is decisive.  Only a decisive  *)
(* result is written to the Request (here, its uri_) and resets the parser.*)

\* One turn of the loop, unless a decisive result has ended it.
Turn(r, c) ==
    LET next == NextCharHandler(r.parser, c)
    IN  IF r.result # "undefined" THEN r
        ELSE IF next.result = "undefined" THEN [r EXCEPT !.parser = next.parser]
        ELSE [result |-> next.result, parser |-> Reset(next.parser), uri |-> next.parser.uri]

\* The outcome after each prefix of the input.  (The turn is taken inside a set
\* so that TLC evaluates run[i - 1] once.)
Consume(p, uri, input) ==
    LET run[i \in 0..Len(input)] ==
            IF i = 0 THEN [result |-> "undefined", parser |-> p, uri |-> uri]
            ELSE CHOOSE r \in {Turn(before, input[i]) : before \in {run[i - 1]}} : TRUE
    IN  run

Parse(p, uri, input) == Consume(p, uri, input)[Len(input)]

\* What the parser must satisfy between two characters for the next one to be
\* handled at all: headers_.back() exists where it is used, and `remaining',
\* unsigned, is not yet zero where it is decremented.
WellFormed(p) ==
    /\ p.state \in {"_header_lws", "_header_name", "_space_before_header_value",
                    "_header_value"} => p.headers # <<>>
    /\ p.state = "_body" => p.remaining > 0
=============================================================================
