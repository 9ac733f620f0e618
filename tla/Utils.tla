------------------------------- MODULE Utils -------------------------------
(***************************************************************************)
(* The request checks of class Utils (src/src/utils.cc): what the session  *)
(* asks of a chunk of text before any parsing.  A regex_match is a match of*)
(* the whole string, and in these patterns a dot also matches a line end.  *)
(***************************************************************************)
EXTENDS RequestParser

\* check_method(m) < 0 for every word it does not list
check_method(m) == m \in Methods

\* letters, a colon, anything
check_header(h) ==
    \E k \in 1..Len(h) : /\ h[k] \in FieldNames
                         /\ \A i \in 1..(k - 1) : h[i] \in Letters

\* The chunk is one CRLF and nothing else was read.
complete(request, bytes) == request = <<CRLF>> /\ bytes = 1

\* Every CRLF removed, what is left?
filter_CRLF(request) == SelectSeq(request, LAMBDA c : c # CRLF)

\* METHOD SP URI anything SP+ VERSION CRLF; a word in any case before a URL.
check_requestLine(request) ==
    LET n == Len(request)
    IN  /\ n >= 6
        /\ request[2] = SP
        /\ \/ request[1] \in Methods \cup Uppers /\ request[3] \in Paths
           \/ request[1] \in Letters /\ request[3] \in Urls
        /\ request[n - 2] \in {SP, CRLF}
        /\ request[n - 1] = VERSION
        /\ request[n] = CRLF

\* The first line is a request line with a method of the list, and the lines
\* up to the first empty one are headers.  What follows it is not looked at.
check_request(request) ==
    \E k \in 1..Len(request) :
        /\ request[k] = CRLF
        /\ \A i \in 1..(k - 1) : request[i] # CRLF
        /\ check_requestLine(SubSeq(request, 1, k))
        /\ check_method(request[1])
        /\ \E b \in (k + 1)..Len(request) :
              /\ request[b] = CRLF /\ request[b - 1] = CRLF
              /\ \A e \in k..(b - 2) : request[e] = CRLF =>
                    \E j \in (e + 1)..(b - 1) :
                        /\ request[j] = CRLF
                        /\ check_header(SubSeq(request, e + 1, j - 1))
                        /\ \A i \in (e + 1)..(j - 1) : request[i] # CRLF
=============================================================================
