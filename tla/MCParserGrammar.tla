-------------------------- MODULE MCParserGrammar --------------------------
(***************************************************************************)
(* Small lexicon for ParserGrammar.  The parts of a request in which every *)
(* lexeme is as good as another (method, target, words of a header value)  *)
(* are kept short and of one word, so that whole requests with headers,    *)
(* continuation lines and bodies fit in MaxInput.                          *)
(***************************************************************************)
EXTENDS ParserGrammar

MCDigits == [d \in {"0", "2"} |-> IF d = "0" THEN 0 ELSE 2]

Word == "GET"

\* Bound on the lexemes of one header value.
MaxValue == 2

\* Bound: one word of method, one lexeme of target, one more digit of version,
\* MaxValue lexemes of header values, which are digits, blanks and the Word.
ShortParts ==
    /\ req_parser.state = "_method" => Len(input) <= 1
    /\ req_parser.uri \in {<<>>, <<"/a">>}
    /\ req_parser.state = "_version_minor" =>
          input[Len(input)] = VERSION \/ input[Len(input) - 1] = VERSION
    /\ \A i \in 1..Len(req_parser.headers) :
          LET header == req_parser.headers[i]
          IN  /\ Len(header.name) <= 2 /\ Len(header.value) <= MaxValue
              /\ \A k \in 1..Len(header.value) :
                    header.value[k] \in DOMAIN Digits \cup {SP, Word}
=============================================================================
