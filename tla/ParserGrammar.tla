--------------------------- MODULE ParserGrammar ---------------------------
(***************************************************************************)
(* The parser against the language it is meant to accept.  A client sends  *)
(* one character (lexeme) after another; `input' remembers them all.  The  *)
(* grammar is stated on the finished text, by positions, with no state     *)
(* machine: the two must agree on every text up to MaxInput lexemes.       *)
(***************************************************************************)
EXTENDS RequestParser, FiniteSets

CONSTANT MaxInput      \* bound on the length of the text

ASSUME MaxInputAssumption == MaxInput \in Nat

VARIABLES
    req_parser,   \* the parser
    input,        \* every lexeme it was given since it was fresh
    result        \* what NextCharHandler returned last

vars == <<req_parser, input, result>>

Init ==
    /\ req_parser = FreshParser
    /\ input = <<>>
    /\ result = "undefined"

\* One turn of Parse's loop, which ends at a decisive result.
Feed(c) ==
    /\ result = "undefined"
    /\ Len(input) < MaxInput
    /\ LET next == NextCharHandler(req_parser, c)
       IN  /\ req_parser' = next.parser
           /\ result' = next.result
    /\ input' = Append(input, c)

Next == \E c \in Lexemes : Feed(c)

Spec == Init /\ [][Next]_vars

-----------------------------------------------------------------------------
(* The grammar.                                                            *)

Blank(t, i)    == i \in 1..Len(t) /\ t[i] = SP
LineEnd(t, i)  == i \in 1..Len(t) /\ t[i] = CRLF

\* t[1..a-1] is the method, and a blank follows.
MethodPart(t, a) == a > 1 /\ Blank(t, a) /\ \A i \in 1..(a - 1) : t[i] \in Tokens

\* t[a+1..b-1] is the target, with no blank in it.
TargetPart(t, a, b) == a < b /\ \A i \in (a + 1)..(b - 1) : t[i] \notin {SP, CRLF}

\* The version follows b; its minor number may have more digits.  The line ends at r.
VersionPart(t, b, r) ==
    /\ b + 1 < r /\ LineEnd(t, r) /\ t[b + 1] = VERSION
    /\ \A i \in (b + 2)..(r - 1) : t[i] \in DOMAIN Digits

\* A header line starts at j: token characters, a colon, a blank.
HeaderLine(t, j) ==
    \E k \in j..Len(t) : /\ t[k] \in FieldNames
                         /\ \A i \in j..(k - 1) : t[i] \in Tokens
                         /\ Blank(t, k + 1)

\* The lines between the request line's end r and the blank line at e.
HeaderSection(t, r, e) ==
    /\ LineEnd(t, e) /\ LineEnd(t, e - 1)
    /\ \A j \in (r + 1)..(e - 1) :
          LineEnd(t, j - 1) => \/ HeaderLine(t, j)
                               \/ Blank(t, j) /\ j > r + 1

\* The header lines before e whose name is Content-Length
LengthLines(t, r, e) ==
    {j \in (r + 1)..(e - 1) : LineEnd(t, j - 1) /\ t[j] = CONTENT_LENGTH}

\* The header line at f goes on up to i: each line end on the way is followed by
\* a continuation line.
Continued(t, f, i) == \A m \in (f + 2)..(i - 1) : t[m] = CRLF => t[m + 1] = SP

\* Only blanks stand between i and the start of the continuation line it is on.
Indenting(t, f, i) ==
    \E m \in (f + 2)..(i - 1) : t[m] = CRLF /\ \A k \in (m + 1)..(i - 1) : t[k] = SP

\* The positions that make up the value of the header line at f: what follows the
\* blank after its name, over continuation lines, less line ends and indentation.
ValuePlaces(t, f, e) ==
    {i \in (f + 2)..(e - 1) : /\ Continued(t, f, i) /\ t[i] # CRLF
                             /\ ~(t[i] = SP /\ Indenting(t, f, i))}

\* The lexemes of t at the given positions, in order
Selected(t, places) ==
    LET upto[i \in 0..Len(t)] ==
            IF i = 0 THEN <<>>
            ELSE IF i \in places THEN Append(upto[i - 1], t[i]) ELSE upto[i - 1]
    IN  upto[Len(t)]

FirstOf(lines) == CHOOSE j \in lines : \A k \in lines : j <= k

\* The number the first Content-Length header before e announces, 0 if there is
\* no such header or stoull reads no number in its value.
AnnouncedLength(t, r, e) ==
    LET lines == LengthLines(t, r, e)
    IN  IF lines = {} THEN 0 ELSE stoull(Selected(t, ValuePlaces(t, FirstOf(lines), e)))

\* t is one request, and its target is uri.
IsRequest(t, uri) ==
    \E a \in 1..Len(t) : MethodPart(t, a) /\
        \E b \in 1..Len(t) : TargetPart(t, a, b) /\ Blank(t, b) /\ uri = SubSeq(t, a + 1, b - 1) /\
            \E r \in 1..Len(t) : VersionPart(t, b, r) /\
                \E e \in (r + 1)..Len(t) : /\ HeaderSection(t, r, e)
                                           /\ Len(t) - e = AnnouncedLength(t, r, e)

-----------------------------------------------------------------------------

\* The parser's fields keep their types whatever text NextCharHandler is given;
\* the body counter, unsigned in the code, does not wrap.
TypeOK ==
    /\ req_parser \in Parser
    /\ input \in Text
    /\ result \in {"good", "bad", "undefined"}

\* The parser answers `good' at exactly the texts of the grammar, no sooner and
\* no later, and reports the text's own target as the URI (NextCharHandler,
\* Content-Length and continuation lines included).
ParseMatchesGrammar ==
    (result = "good") <=> IsRequest(input, req_parser.uri)

\* While the parser waits for more, the field accesses it will make are
\* defined: headers_.back() has a header, `remaining' does not wrap below zero.
ParserWellFormed == result = "undefined" => WellFormed(req_parser)
=============================================================================
