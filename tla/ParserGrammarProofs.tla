------------------------ MODULE ParserGrammarProofs ------------------------
(***************************************************************************)
(* The parser under arbitrary input.                                       *)
(*                                                                         *)
(* First it is typed and never asked to do what it cannot.  The two are    *)
(* proved together, as neither is inductive: the type of `remaining' after *)
(* a body character needs it to be positive before, and headers_.back()    *)
(* needs a header.                                                         *)
(*                                                                         *)
(* Then it accepts the grammar.  The invariant, Agrees, says for each      *)
(* state of the machine which part of a request the text so far is and     *)
(* what the fields hold of it; the value of the first Content-Length       *)
(* header, which may go on over continuation lines, is the hard part.      *)
(***************************************************************************)
EXTENDS ParserGrammar, RequestParserProofs, SequenceTheorems

IInv == TypeOK /\ ParserWellFormed

LEMMA InitIInv == Init => IInv
<1> SUFFICES ASSUME Init PROVE IInv
  OBVIOUS
<1>1. req_parser \in Parser /\ WellFormed(req_parser)
  BY FreshParserType DEF Init
<1>2. input \in Text
  BY DEF Init, Text
<1>3. result \in {"good", "bad", "undefined"}
  BY DEF Init
<1> QED BY <1>1, <1>2, <1>3 DEF IInv, TypeOK, ParserWellFormed

LEMMA FeedIInv ==
  ASSUME IInv, NEW c \in Lexemes, Feed(c)
  PROVE  IInv'
<1> DEFINE next == NextCharHandler(req_parser, c)
<1>1. req_parser' = next.parser /\ result' = next.result /\ input' = Append(input, c)
  BY DEF Feed
<1>2. req_parser \in Parser /\ WellFormed(req_parser)
  BY DEF IInv, TypeOK, ParserWellFormed, Feed
<1>3. Sound(next)
  BY <1>2, NextCharSound
<1>4. next.parser \in Parser /\ next.result \in {"good", "bad", "undefined"}
      /\ (next.result = "undefined" => WellFormed(next.parser))
  BY <1>3 DEF Sound, Outcome, Results
<1>5. Append(input, c) \in Text
  BY DEF IInv, TypeOK, Text
<1> HIDE DEF next
<1> QED BY <1>1, <1>4, <1>5 DEF IInv, TypeOK, ParserWellFormed

LEMMA NextIInv == IInv /\ [Next]_vars => IInv'
<1> SUFFICES ASSUME IInv, [Next]_vars PROVE IInv'
  OBVIOUS
<1>1. CASE Next
  BY <1>1, FeedIInv DEF Next
<1>2. CASE UNCHANGED vars
  BY <1>2 DEF vars, IInv, TypeOK, ParserWellFormed
<1> QED BY <1>1, <1>2

\* The parser's fields keep their types for every text a client can send, body
\* and continuation lines included (NextCharHandler).
THEOREM ParserTyped == Spec => []TypeOK
<1>1. IInv => TypeOK
  BY DEF IInv
<1> QED BY <1>1, InitIInv, NextIInv, PTL DEF Spec

\* No text makes NextCharHandler use headers_.back() on an empty list or wrap
\* `remaining' below zero.
THEOREM ParserNeverStuck == Spec => []ParserWellFormed
<1>1. IInv => ParserWellFormed
  BY DEF IInv
<1> QED BY <1>1, InitIInv, NextIInv, PTL DEF Spec
-----------------------------------------------------------------------------
(* What the parser's fields say about the text so far, state by state.  t  *)
(* is the text and p the parser that has read it.                          *)

\* No blank line yet, so t is no request.
NoBlankLine(t) == \A i \in 1..(Len(t) - 1) : ~(t[i] = CRLF /\ t[i + 1] = CRLF)

\* The parts of the request line, which ends at r
RequestLine(t, a, b, r) ==
    MethodPart(t, a) /\ TargetPart(t, a, b) /\ Blank(t, b) /\ VersionPart(t, b, r)

\* The states of the request line
InRequestLine(t, p) ==
    /\ p.headers = <<>>
    /\ p.state = "_method_start" => t = <<>> /\ p.uri = <<>>
    /\ p.state = "_method" => /\ Len(t) > 0 /\ p.uri = <<>>
                              /\ \A i \in 1..Len(t) : t[i] \in Tokens
    /\ p.state = "_uri" => \E a \in 1..Len(t) :
          /\ MethodPart(t, a) /\ TargetPart(t, a, Len(t) + 1)
          /\ p.uri = SubSeq(t, a + 1, Len(t))
    /\ p.state = "_version_h" => \E a \in 1..Len(t) :
          /\ MethodPart(t, a) /\ TargetPart(t, a, Len(t)) /\ Blank(t, Len(t))
          /\ p.uri = SubSeq(t, a + 1, Len(t) - 1)
    /\ p.state = "_version_minor" => \E a, b \in 1..Len(t) :
          /\ MethodPart(t, a) /\ TargetPart(t, a, b) /\ Blank(t, b)
          /\ b < Len(t) /\ t[b + 1] = VERSION
          /\ \A i \in (b + 2)..Len(t) : t[i] \in DOMAIN Digits
          /\ p.uri = SubSeq(t, a + 1, b - 1)

\* The lines that start after r and not after m are header lines.
LinesDone(t, r, m) ==
    \A j \in (r + 1)..m : LineEnd(t, j - 1) => HeaderLine(t, j) \/ (Blank(t, j) /\ j > r + 1)

\* A header line starts at j, and its name goes on to m.
NameFrom(t, r, j, m) ==
    /\ j \in (r + 1)..(m + 1) /\ LineEnd(t, j - 1) /\ \A i \in j..m : t[i] \in Tokens
    /\ LinesDone(t, r, j - 1)

HeaderLines(t, p, r) ==
    /\ p.state = "_header_start" => /\ LineEnd(t, Len(t)) /\ LinesDone(t, r, Len(t))
                                    /\ p.headers # <<>> <=> Len(t) > r
    /\ p.state \in {"_header_lws", "_header_value"} => Len(t) > r /\ LinesDone(t, r, Len(t))
    /\ p.state = "_header_name" => \E j \in 1..Len(t) : NameFrom(t, r, j, Len(t))
    /\ p.state = "_space_before_header_value" =>
          /\ t[Len(t)] \in FieldNames
          /\ \E j \in 1..Len(t) : NameFrom(t, r, j, Len(t) - 1)

\* The n-th header's value holds what the text so far has of the value of the
\* header line at f.  That line may still go on if it is the last one.
Gathered(t, p, f, n) == p.headers[n].value = Selected(t, ValuePlaces(t, f, Len(t) + 1))

ValueOf(t, p, f, n) ==
    /\ Gathered(t, p, f, n)
    /\ \/ ~Continued(t, f, Len(t)) /\ n < Len(p.headers)
       \/ /\ Continued(t, f, Len(t)) /\ n = Len(p.headers)
          /\ Len(t) = f <=> p.state = "_space_before_header_value"
          /\ Indenting(t, f, Len(t) + 1) <=> p.state \in {"_header_start", "_header_lws"}

Unnamed(p) == \A n \in 1..Len(p.headers) : p.headers[n].name # <<CONTENT_LENGTH>>

FirstNamed(p, n) ==
    /\ n \in 1..Len(p.headers) /\ p.headers[n].name = <<CONTENT_LENGTH>>
    /\ \A m \in 1..(n - 1) : p.headers[m].name # <<CONTENT_LENGTH>>

FirstLine(t, r, f) ==
    f \in LengthLines(t, r, Len(t) + 1) /\ \A k \in LengthLines(t, r, Len(t) + 1) : f <= k

\* What the parser has gathered of the length that the text announces.
LengthKnown(t, p, r) ==
    /\ p.state = "_header_name" =>
          p.headers[Len(p.headers)].name \notin {<<>>, <<CONTENT_LENGTH>>}
    /\ \/ LengthLines(t, r, Len(t) + 1) = {} /\ Unnamed(p)
       \/ \E f, n \in Nat : FirstLine(t, r, f) /\ FirstNamed(p, n) /\ ValueOf(t, p, f, n)

RequestLineStates == {"_method_start", "_method", "_uri", "_version_h", "_version_minor"}

HeaderStates == {"_header_start", "_header_lws", "_header_name", "_space_before_header_value",
                 "_header_value"}

TargetIs(t, p, a, b, r) == RequestLine(t, a, b, r) /\ p.uri = SubSeq(t, a + 1, b - 1)

InHeaders(t, p) ==
    \E a, b, r \in 1..Len(t) : /\ TargetIs(t, p, a, b, r)
                               /\ HeaderLines(t, p, r) /\ LengthKnown(t, p, r)

InBody(t, p) ==
    \E a, b, r \in 1..Len(t) : /\ TargetIs(t, p, a, b, r)
                               /\ \E e \in (r + 1)..Len(t) :
                                     /\ HeaderSection(t, r, e)
                                     /\ AnnouncedLength(t, r, e) = (Len(t) - e) + p.remaining

Describes(t, p) ==
    /\ p.state \in RequestLineStates => InRequestLine(t, p)
    /\ p.state \in HeaderStates => InHeaders(t, p)
    /\ p.state = "_body" => InBody(t, p)
    /\ p.state # "_body" => NoBlankLine(t)
    /\ p.state \notin {"_header_start", "_body"} => ~LineEnd(t, Len(t))

Agrees ==
    /\ result = "undefined" => Describes(input, req_parser)
    /\ result = "good" => IsRequest(input, req_parser.uri)
    /\ result = "bad" => NoBlankLine(input)

-----------------------------------------------------------------------------
(* One more lexeme.  u is t with c at its end; what the grammar says about *)
(* positions of t it says about the same positions of u.                   *)

Longer(t, c, u) ==
    /\ t \in Text /\ c \in Lexemes /\ u \in Text
    /\ Len(u) = Len(t) + 1 /\ u[Len(t) + 1] = c
    /\ \A i \in 1..Len(t) : u[i] = t[i]

LEMMA AppendLonger ==
  ASSUME NEW t \in Text, NEW c \in Lexemes
  PROVE  Longer(t, c, Append(t, c))
  BY DEF Longer, Text

LEMMA LongerLen ==
  ASSUME NEW t, NEW c, NEW u, Longer(t, c, u)
  PROVE  Len(t) \in Nat /\ Len(u) \in Nat /\ Len(u) = Len(t) + 1
  BY DEF Longer, Text

LEMMA SubSeqLonger ==
  ASSUME NEW t, NEW c, NEW u, Longer(t, c, u), NEW m \in Nat \ {0}, NEW n \in Int, n <= Len(t)
  PROVE  SubSeq(u, m, n) = SubSeq(t, m, n)
  BY DEF Longer, Text

LEMMA SubSeqAppend ==
  ASSUME NEW t, NEW c, NEW u, Longer(t, c, u), NEW m \in Nat \ {0}, m <= Len(t) + 1
  PROVE  Append(SubSeq(t, m, Len(t)), c) = SubSeq(u, m, Len(u))
<1>1. /\ t \in Seq(Lexemes) /\ u \in Seq(Lexemes) /\ c \in Lexemes
      /\ Len(t) \in Nat /\ Len(u) = Len(t) + 1 /\ u[Len(u)] = c
  BY DEF Longer, Text
<1>2. m \in 1..Len(u) /\ Len(u) \in m..Len(u) /\ Len(u) - 1 = Len(t) /\ Len(t) \in Int
  BY <1>1
<1>3. SubSeq(u, m, Len(u)) = SubSeq(u, m, Len(u) - 1) \o <<u[Len(u)]>>
  BY <1>1, <1>2, SubSeqRecursiveSecond
<1>4. SubSeq(u, m, Len(t)) = SubSeq(t, m, Len(t))
  BY <1>2, SubSeqLonger
<1>5. SubSeq(t, m, Len(t)) \in Seq(Lexemes)
  BY <1>1
<1>6. Append(SubSeq(t, m, Len(t)), c) = SubSeq(t, m, Len(t)) \o <<c>>
  BY <1>1, <1>5, AppendIsConcat
<1> QED BY <1>1, <1>2, <1>3, <1>4, <1>6

LEMMA PositionsLonger ==
  ASSUME NEW t, NEW c, NEW u, Longer(t, c, u), NEW i \in Int, i <= Len(t)
  PROVE  (LineEnd(u, i) <=> LineEnd(t, i)) /\ (Blank(u, i) <=> Blank(t, i))
<1>1. Len(t) \in Nat /\ Len(u) = Len(t) + 1
  BY LongerLen
<1>2. i \in 1..Len(u) <=> i \in 1..Len(t)
  BY <1>1
<1>3. i \in 1..Len(t) => u[i] = t[i]
  BY DEF Longer
<1> QED BY <1>2, <1>3 DEF LineEnd, Blank

LEMMA LastLonger ==
  ASSUME NEW t, NEW c, NEW u, Longer(t, c, u)
  PROVE  /\ LineEnd(u, Len(u)) <=> c = CRLF
         /\ Blank(u, Len(u)) <=> c = SP
         /\ u[Len(u)] = c
  BY LongerLen DEF Longer, LineEnd, Blank

LEMMA MethodPartLonger ==
  ASSUME NEW t, NEW c, NEW u, Longer(t, c, u), NEW a \in 1..Len(t), MethodPart(t, a)
  PROVE  MethodPart(u, a)
<1>1. Len(t) \in Nat /\ Blank(u, a)
  BY LongerLen, PositionsLonger DEF MethodPart
<1>2. \A i \in 1..(a - 1) : i \in 1..Len(t)
  BY <1>1
<1> QED BY <1>1, <1>2 DEF MethodPart, Longer

LEMMA TargetPartLonger ==
  ASSUME NEW t, NEW c, NEW u, Longer(t, c, u), NEW a \in 1..Len(t), NEW b \in Nat,
         b <= Len(t) + 1, TargetPart(t, a, b)
  PROVE  TargetPart(u, a, b)
<1>1. Len(t) \in Nat
  BY LongerLen
<1>2. \A i \in (a + 1)..(b - 1) : i \in 1..Len(t)
  BY <1>1
<1> QED BY <1>2 DEF TargetPart, Longer

LEMMA VersionPartLonger ==
  ASSUME NEW t, NEW c, NEW u, Longer(t, c, u), NEW b \in 1..Len(t), NEW r \in 1..Len(t),
         VersionPart(t, b, r)
  PROVE  VersionPart(u, b, r)
<1>1. Len(t) \in Nat /\ b + 1 < r
  BY LongerLen DEF VersionPart
<1>2. LineEnd(u, r)
  BY PositionsLonger DEF VersionPart
<1>3. b + 1 \in 1..Len(t) /\ \A i \in (b + 2)..(r - 1) : i \in 1..Len(t)
  BY <1>1
<1> QED BY <1>1, <1>2, <1>3 DEF VersionPart, Longer

LEMMA RequestLineLonger ==
  ASSUME NEW t, NEW c, NEW u, Longer(t, c, u), NEW a \in 1..Len(t), NEW b \in 1..Len(t),
         NEW r \in 1..Len(t), RequestLine(t, a, b, r)
  PROVE  RequestLine(u, a, b, r)
<1>1. b \in Nat /\ b <= Len(t) + 1
  BY LongerLen
<1>2. MethodPart(t, a) /\ TargetPart(t, a, b) /\ Blank(t, b) /\ VersionPart(t, b, r)
  BY DEF RequestLine
<1>3. Blank(u, b)
  BY <1>2, LongerLen, PositionsLonger
<1> QED BY <1>1, <1>2, <1>3, MethodPartLonger, TargetPartLonger, VersionPartLonger
        DEF RequestLine

\* The request in one row of quantifiers
LEMMA IsRequestParts ==
  ASSUME NEW t, NEW uri
  PROVE  IsRequest(t, uri) <=>
            \E a, b, r \in 1..Len(t) :
                /\ RequestLine(t, a, b, r)
                /\ uri = SubSeq(t, a + 1, b - 1)
                /\ \E e \in (r + 1)..Len(t) : /\ HeaderSection(t, r, e)
                                              /\ Len(t) - e = AnnouncedLength(t, r, e)
  BY Zenon DEF IsRequest, RequestLine

LEMMA HeaderLineLonger ==
  ASSUME NEW t, NEW c, NEW u, Longer(t, c, u), NEW j \in Nat \ {0}, HeaderLine(t, j)
  PROVE  HeaderLine(u, j)
<1>1. Len(t) \in Nat /\ Len(u) = Len(t) + 1
  BY LongerLen
<1>2. PICK k \in j..Len(t) : /\ t[k] \in FieldNames
                             /\ \A i \in j..(k - 1) : t[i] \in Tokens
                             /\ Blank(t, k + 1)
  BY DEF HeaderLine
<1>3. k + 1 \in Int /\ k + 1 <= Len(t)
  BY <1>1, <1>2 DEF Blank
<1>4. Blank(u, k + 1)
  BY <1>2, <1>3, PositionsLonger
<1>5. k \in j..Len(u) /\ k \in 1..Len(t) /\ \A i \in j..(k - 1) : i \in 1..Len(t)
  BY <1>1, <1>2
<1>6. u[k] \in FieldNames /\ \A i \in j..(k - 1) : u[i] \in Tokens
  BY <1>2, <1>5 DEF Longer
<1> QED BY <1>4, <1>5, <1>6 DEF HeaderLine

LEMMA LinesDoneLonger ==
  ASSUME NEW t, NEW c, NEW u, Longer(t, c, u), NEW r \in Nat \ {0}, NEW m \in Int, m <= Len(t),
         LinesDone(t, r, m)
  PROVE  LinesDone(u, r, m)
<1> SUFFICES ASSUME NEW j \in (r + 1)..m, LineEnd(u, j - 1)
             PROVE  HeaderLine(u, j) \/ (Blank(u, j) /\ j > r + 1)
  BY DEF LinesDone
<1>1. Len(t) \in Nat
  BY LongerLen
<1>2. j \in Nat \ {0} /\ j - 1 \in Int /\ j - 1 <= Len(t) /\ j \in Int /\ j <= Len(t)
  BY <1>1
<1>3. LineEnd(t, j - 1)
  BY <1>2, PositionsLonger
<1>4. HeaderLine(t, j) \/ (Blank(t, j) /\ j > r + 1)
  BY <1>3 DEF LinesDone
<1> QED BY <1>2, <1>4, HeaderLineLonger, PositionsLonger

LEMMA HeaderSectionLines ==
  ASSUME NEW t, NEW r, NEW e
  PROVE  HeaderSection(t, r, e) <=> LineEnd(t, e) /\ LineEnd(t, e - 1) /\ LinesDone(t, r, e - 1)
  BY DEF HeaderSection, LinesDone

LEMMA HeaderSectionLonger ==
  ASSUME NEW t, NEW c, NEW u, Longer(t, c, u), NEW r \in Nat \ {0}, NEW e \in Nat, e <= Len(t),
         HeaderSection(t, r, e)
  PROVE  HeaderSection(u, r, e)
<1>1. LineEnd(t, e) /\ LineEnd(t, e - 1) /\ LinesDone(t, r, e - 1)
  BY HeaderSectionLines
<1>2. Len(t) \in Nat /\ e \in Int /\ e - 1 \in Int /\ e - 1 <= Len(t)
  BY LongerLen
<1>3. LineEnd(u, e) /\ LineEnd(u, e - 1) /\ LinesDone(u, r, e - 1)
  BY <1>1, <1>2, PositionsLonger, LinesDoneLonger
<1> QED BY <1>3, HeaderSectionLines

LEMMA LengthLinesLonger ==
  ASSUME NEW t, NEW c, NEW u, Longer(t, c, u), NEW r \in Nat \ {0}, NEW e \in Nat, e <= Len(t) + 1
  PROVE  LengthLines(u, r, e) = LengthLines(t, r, e)
<1>1. Len(t) \in Nat
  BY LongerLen
<1>2. ASSUME NEW j \in (r + 1)..(e - 1)
      PROVE  (LineEnd(u, j - 1) <=> LineEnd(t, j - 1)) /\ u[j] = t[j]
  <2>1. j - 1 \in Int /\ j - 1 <= Len(t) /\ j \in 1..Len(t)
    BY <1>1
  <2> QED BY <2>1, PositionsLonger DEF Longer
<1> QED BY <1>2 DEF LengthLines

LEMMA ContinuedLonger ==
  ASSUME NEW t, NEW c, NEW u, Longer(t, c, u), NEW f \in Nat, NEW i \in Nat, i <= Len(t)
  PROVE  Continued(u, f, i) <=> Continued(t, f, i)
<1>1. \A m \in (f + 2)..(i - 1) : m \in 1..Len(t) /\ m + 1 \in 1..Len(t)
  BY LongerLen
<1>2. \A m \in (f + 2)..(i - 1) : u[m] = t[m] /\ u[m + 1] = t[m + 1]
  BY <1>1 DEF Longer
<1> QED BY <1>2 DEF Continued

LEMMA IndentingLonger ==
  ASSUME NEW t, NEW c, NEW u, Longer(t, c, u), NEW f \in Nat, NEW i \in Nat, i <= Len(t) + 1
  PROVE  Indenting(u, f, i) <=> Indenting(t, f, i)
<1>1. \A m \in (f + 2)..(i - 1) : m \in 1..Len(t) /\ \A k \in (m + 1)..(i - 1) : k \in 1..Len(t)
  BY LongerLen
<1>2. \A m \in (f + 2)..(i - 1) : u[m] = t[m] /\ \A k \in (m + 1)..(i - 1) : u[k] = t[k]
  BY <1>1 DEF Longer
<1> QED BY <1>2 DEF Indenting

\* Whether a position of t belongs to the value does not depend on what follows.
LEMMA ValuePlacesLonger ==
  ASSUME NEW t, NEW c, NEW u, Longer(t, c, u), NEW f \in Nat,
         NEW d \in Nat, NEW e \in Nat, NEW i \in 1..Len(t), i < d, i < e
  PROVE  i \in ValuePlaces(u, f, d) <=> i \in ValuePlaces(t, f, e)
<1>1. i \in Nat /\ i <= Len(t) /\ i <= Len(t) + 1
  BY LongerLen
<1>2. i \in (f + 2)..(d - 1) <=> i \in (f + 2)..(e - 1)
  BY <1>1
<1>3. u[i] = t[i] /\ (Continued(u, f, i) <=> Continued(t, f, i))
      /\ (Indenting(u, f, i) <=> Indenting(t, f, i))
  BY <1>1, ContinuedLonger, IndentingLonger DEF Longer
<1> QED BY <1>2, <1>3 DEF ValuePlaces

\* Selected, by its recursion
LEMMA SelectedDef ==
  ASSUME NEW t, Len(t) \in Nat, NEW places
  PROVE  \E f : /\ Selected(t, places) = f[Len(t)]
                /\ f[0] = <<>>
                /\ \A i \in 1..Len(t) :
                      f[i] = IF i \in places THEN Append(f[i - 1], t[i]) ELSE f[i - 1]
<1> DEFINE step(f, i) == IF i \in places THEN Append(f[i - 1], t[i]) ELSE f[i - 1]
           T == {k \in Nat : \E f : f = [i \in 0..k |-> IF i = 0 THEN <<>> ELSE step(f, i)]}
<1>1. 0 \in T
  <2> DEFINE f == [i \in 0..0 |-> <<>>]
  <2>1. f = [i \in 0..0 |-> IF i = 0 THEN <<>> ELSE step(f, i)]
    OBVIOUS
  <2> QED BY <2>1
<1>2. \A k \in Nat : k \in T => k + 1 \in T
  <2> SUFFICES ASSUME NEW k \in Nat, k \in T PROVE k + 1 \in T
    OBVIOUS
  <2>1. PICK f : f = [i \in 0..k |-> IF i = 0 THEN <<>> ELSE step(f, i)]
    OBVIOUS
  <2> DEFINE last == IF k + 1 \in places THEN Append(f[k], t[k + 1]) ELSE f[k]
             g == [i \in 0..(k + 1) |-> IF i \in 0..k THEN f[i] ELSE last]
  <2>2. \A i \in 0..(k + 1) : g[i] = IF i = 0 THEN <<>> ELSE step(g, i)
    <3> TAKE i \in 0..(k + 1)
    <3>1. CASE i = 0
      BY <3>1, <2>1
    <3>2. CASE i \in 1..k
      <4>1. i \in 0..k /\ i - 1 \in 0..k /\ i - 1 \in 0..(k + 1) /\ i # 0
        BY <3>2
      <4>2. f[i] = step(f, i) /\ g[i] = f[i] /\ g[i - 1] = f[i - 1]
        <5>1. f[i] = step(f, i)
          BY <4>1, <2>1
        <5> HIDE DEF last
        <5> QED BY <5>1, <4>1
      <4> HIDE DEF g
      <4> QED BY <4>1, <4>2
    <3>3. CASE i = k + 1
      <4>1. i # 0 /\ i \notin 0..k /\ i - 1 = k /\ k \in 0..k /\ k \in 0..(k + 1)
        BY <3>3
      <4>2. g[i] = last /\ g[k] = f[k]
        <5> HIDE DEF last
        <5> QED BY <4>1
      <4> HIDE DEF g
      <4> QED BY <3>3, <4>1, <4>2
    <3> QED BY <3>1, <3>2, <3>3
  <2>3. g = [i \in 0..(k + 1) |-> IF i = 0 THEN <<>> ELSE step(g, i)]
    BY <2>2
  <2>4. \E h : h = [i \in 0..(k + 1) |-> IF i = 0 THEN <<>> ELSE step(h, i)]
    BY <2>3, Zenon
  <2>5. k + 1 \in Nat
    OBVIOUS
  <2> QED BY <2>4, <2>5, Zenon
<1>3. Len(t) \in T
  <2> HIDE DEF T
  <2> QED BY <1>1, <1>2, SetInduction
<1> DEFINE upto == CHOOSE f : f = [i \in 0..Len(t) |-> IF i = 0 THEN <<>> ELSE step(f, i)]
<1>4. upto = [i \in 0..Len(t) |-> IF i = 0 THEN <<>> ELSE step(upto, i)]
  BY <1>3
<1>5. Selected(t, places) = upto[Len(t)]
  BY Zenon DEF Selected
<1> HIDE DEF upto
<1>6. 0 \in 0..Len(t) /\ \A i \in 1..Len(t) : i \in 0..Len(t) /\ i # 0
  OBVIOUS
<1>7. upto[0] = <<>> /\ \A i \in 1..Len(t) : upto[i] = step(upto, i)
  BY <1>4, <1>6
<1> QED BY <1>5, <1>7

LEMMA SelectedLonger ==
  ASSUME NEW t, NEW c, NEW u, Longer(t, c, u), NEW P, NEW Q,
         \A i \in 1..Len(t) : i \in Q <=> i \in P
  PROVE  Selected(u, Q) = IF Len(u) \in Q THEN Append(Selected(t, P), c) ELSE Selected(t, P)
<1>1. Len(t) \in Nat /\ Len(u) \in Nat /\ Len(u) = Len(t) + 1 /\ u[Len(u)] = c
  BY LongerLen, LastLonger
<1>2. PICK f : /\ Selected(t, P) = f[Len(t)] /\ f[0] = <<>>
               /\ \A i \in 1..Len(t) : f[i] = IF i \in P THEN Append(f[i - 1], t[i]) ELSE f[i - 1]
  BY <1>1, SelectedDef
<1>3. PICK g : /\ Selected(u, Q) = g[Len(u)] /\ g[0] = <<>>
               /\ \A i \in 1..Len(u) : g[i] = IF i \in Q THEN Append(g[i - 1], u[i]) ELSE g[i - 1]
  BY <1>1, SelectedDef
<1> DEFINE T == {k \in Nat : k <= Len(t) => g[k] = f[k]}
<1>4. 0 \in T
  BY <1>2, <1>3
<1>5. \A k \in Nat : k \in T => k + 1 \in T
  <2> SUFFICES ASSUME NEW k \in Nat, k \in T, k + 1 <= Len(t) PROVE g[k + 1] = f[k + 1]
    OBVIOUS
  <2>1. k + 1 \in 1..Len(t) /\ k + 1 \in 1..Len(u) /\ (k + 1) - 1 = k /\ g[k] = f[k]
    BY <1>1
  <2>2. u[k + 1] = t[k + 1] /\ (k + 1 \in Q <=> k + 1 \in P)
    BY <2>1 DEF Longer
  <2> QED BY <1>2, <1>3, <2>1, <2>2
<1>6. Len(t) \in T
  <2> HIDE DEF T
  <2> QED BY <1>1, <1>4, <1>5, SetInduction
<1>7. g[Len(t)] = f[Len(t)] /\ Len(u) \in 1..Len(u) /\ Len(u) - 1 = Len(t)
  BY <1>1, <1>6
<1> QED BY <1>1, <1>2, <1>3, <1>7

LEMMA SelectedNone ==
  ASSUME NEW t \in Text
  PROVE  Selected(t, {}) = <<>>
<1>1. Len(t) \in Nat
  BY DEF Text
<1>2. PICK f : /\ Selected(t, {}) = f[Len(t)] /\ f[0] = <<>>
               /\ \A i \in 1..Len(t) : f[i] = IF i \in {} THEN Append(f[i - 1], t[i]) ELSE f[i - 1]
  BY <1>1, SelectedDef
<1> DEFINE T == {k \in Nat : k <= Len(t) => f[k] = <<>>}
<1>3. 0 \in T
  BY <1>2
<1>4. \A k \in Nat : k \in T => k + 1 \in T
  <2> SUFFICES ASSUME NEW k \in Nat, k \in T, k + 1 <= Len(t) PROVE f[k + 1] = <<>>
    OBVIOUS
  <2>1. k + 1 \in 1..Len(t) /\ (k + 1) - 1 = k /\ f[k] = <<>>
    BY <1>1
  <2> QED BY <1>2, <2>1
<1>5. Len(t) \in T
  <2> HIDE DEF T
  <2> QED BY <1>1, <1>3, <1>4, SetInduction
<1> QED BY <1>1, <1>2, <1>5

LEMMA FirstOfIs ==
  ASSUME NEW lines, lines \subseteq Nat, NEW f \in lines, \A k \in lines : f <= k
  PROVE  FirstOf(lines) = f
<1>1. \E j \in lines : \A k \in lines : j <= k
  OBVIOUS
<1>2. FirstOf(lines) \in lines /\ \A k \in lines : FirstOf(lines) <= k
  BY <1>1, Zenon DEF FirstOf
<1>3. FirstOf(lines) <= f /\ f <= FirstOf(lines) /\ FirstOf(lines) \in Nat /\ f \in Nat
  BY <1>2
<1> QED BY <1>3

LEMMA AnnouncedLonger ==
  ASSUME NEW t, NEW c, NEW u, Longer(t, c, u), NEW r \in Nat \ {0}, NEW e \in Nat, e <= Len(t) + 1
  PROVE  AnnouncedLength(u, r, e) = AnnouncedLength(t, r, e)
<1>1. PICK lines : lines = LengthLines(t, r, e)
  OBVIOUS
<1>2. LengthLines(u, r, e) = lines /\ Len(t) \in Nat /\ Len(u) = Len(t) + 1
  BY <1>1, LengthLinesLonger, LongerLen
<1>3. CASE lines = {}
  BY <1>1, <1>2, <1>3, Zenon DEF AnnouncedLength
<1>4. CASE lines # {}
  <2>1. lines \subseteq Nat
    BY <1>1 DEF LengthLines
  <2>2. PICK f \in lines : \A k \in lines : f <= k
    BY <1>4, <2>1, LeastElement
  <2>3. FirstOf(lines) = f /\ f \in Nat
    BY <2>1, <2>2, FirstOfIs
  <2>4. PICK P, Q : P = ValuePlaces(t, f, e) /\ Q = ValuePlaces(u, f, e)
    OBVIOUS
  <2>5. ASSUME NEW i \in 1..Len(t) PROVE i \in Q <=> i \in P
    <3>1. CASE i < e
      BY <2>3, <2>4, <3>1, ValuePlacesLonger
    <3>2. CASE ~(i < e)
      <4>1. ~(i \in (f + 2)..(e - 1))
        BY <1>2, <2>3, <3>2
      <4> QED BY <2>4, <4>1 DEF ValuePlaces
    <3> QED BY <3>1, <3>2
  <2>6. Len(u) \notin Q
    <3>1. ~(Len(u) \in (f + 2)..(e - 1))
      BY <1>2, <2>3
    <3> QED BY <2>4, <3>1 DEF ValuePlaces
  <2>7. Selected(u, Q) = Selected(t, P)
    BY <2>5, <2>6, SelectedLonger
  <2>8. AnnouncedLength(t, r, e) = stoull(Selected(t, P))
    BY <1>1, <1>4, <2>3, <2>4, Zenon DEF AnnouncedLength
  <2>9. AnnouncedLength(u, r, e) = stoull(Selected(u, Q))
    BY <1>2, <1>4, <2>3, <2>4, Zenon DEF AnnouncedLength
  <2> QED BY <2>7, <2>8, <2>9
<1> QED BY <1>3, <1>4

-----------------------------------------------------------------------------
(* Blank lines                                                             *)

LEMMA NoBlankLineStep ==
  ASSUME NEW t, NEW c, NEW u, Longer(t, c, u), NoBlankLine(t), ~(LineEnd(t, Len(t)) /\ c = CRLF)
  PROVE  NoBlankLine(u)
<1> SUFFICES ASSUME NEW i \in 1..(Len(u) - 1), u[i] = CRLF, u[i + 1] = CRLF
             PROVE  FALSE
  BY DEF NoBlankLine
<1>1. Len(t) \in Nat /\ Len(u) = Len(t) + 1
  BY LongerLen
<1>2. i \in 1..Len(t) /\ t[i] = CRLF
  BY <1>1 DEF Longer
<1>3. CASE i = Len(t)
  BY <1>1, <1>2, <1>3 DEF Longer, LineEnd
<1>4. CASE i < Len(t)
  <2>1. i \in 1..(Len(t) - 1) /\ i + 1 \in 1..Len(t)
    BY <1>1, <1>2, <1>4
  <2>2. t[i + 1] = CRLF
    BY <2>1 DEF Longer
  <2> QED BY <1>2, <2>1, <2>2 DEF NoBlankLine
<1> QED BY <1>1, <1>2, <1>3, <1>4

LEMMA NoRequestYet ==
  ASSUME NEW t \in Text, NoBlankLine(t), NEW uri
  PROVE  ~IsRequest(t, uri)
<1> SUFFICES ASSUME IsRequest(t, uri) PROVE FALSE
  OBVIOUS
<1>1. PICK r \in 1..Len(t) : \E e \in (r + 1)..Len(t) : HeaderSection(t, r, e)
  BY Zenon DEF IsRequest
<1> PICK e \in (r + 1)..Len(t) : HeaderSection(t, r, e)
  BY <1>1
<1>2. LineEnd(t, e) /\ LineEnd(t, e - 1)
  BY DEF HeaderSection
<1>3. Len(t) \in Nat
  BY DEF Text
<1>4. e - 1 \in 1..(Len(t) - 1) /\ (e - 1) + 1 = e
  BY <1>1, <1>3
<1> QED BY <1>2, <1>4 DEF NoBlankLine, LineEnd

\* The outcome of the lexeme that makes the text u
Fits(r, u) ==
    /\ r.result = "undefined" => Describes(u, r.parser)
    /\ r.result = "good" => IsRequest(u, r.parser.uri)
    /\ r.result = "bad" => NoBlankLine(u)

LEMMA FitsBad ==
  ASSUME NEW t, NEW c, NEW u, Longer(t, c, u), NoBlankLine(t),
         ~(LineEnd(t, Len(t)) /\ c = CRLF), NEW p
  PROVE  Fits(Bad(p), u)
<1>1. NoBlankLine(u)
  BY NoBlankLineStep
<1> QED BY <1>1 DEF Fits, Bad

LEMMA FitsUndefined ==
  ASSUME NEW q, NEW u, Describes(u, q)
  PROVE  Fits(Undefined(q), u)
  BY DEF Fits, Undefined

\* The lexemes that are not told apart by their names
LEMMA LexemeKinds ==
  /\ SP # CRLF /\ VERSION # CRLF /\ VERSION # SP
  /\ SP \notin Tokens /\ CRLF \notin Tokens /\ SP \notin FieldNames /\ CRLF \notin FieldNames
  /\ CONTENT_LENGTH \notin {SP, CRLF}
  /\ \A c \in FieldNames : c \notin Tokens
<1>1. /\ SP # CRLF /\ VERSION # CRLF /\ VERSION # SP /\ CONTENT_LENGTH \notin {SP, CRLF}
  BY DEF SP, CRLF, VERSION, CONTENT_LENGTH
<1> QED BY <1>1, LexemesAssumption

-----------------------------------------------------------------------------
(* The request line                                                        *)

LEMMA GotoFields ==
  ASSUME NEW p \in Parser, NEW st
  PROVE  /\ Goto(p, st).result = "undefined"
         /\ Goto(p, st).parser.state = st
         /\ Goto(p, st).parser.uri = p.uri
         /\ Goto(p, st).parser.headers = p.headers
  BY DEF Goto, Undefined, Parser

LEMMA PushUriFields ==
  ASSUME NEW p \in Parser, NEW c
  PROVE  /\ PushUri(p, c).result = "undefined"
         /\ PushUri(p, c).parser.state = p.state
         /\ PushUri(p, c).parser.uri = Append(p.uri, c)
         /\ PushUri(p, c).parser.headers = p.headers
  BY DEF PushUri, Undefined, Parser

LEMMA RequestLineFits ==
  ASSUME NEW r, NEW u, r.result = "undefined", r.parser.state \in RequestLineStates,
         InRequestLine(u, r.parser), NoBlankLine(u), ~LineEnd(u, Len(u))
  PROVE  Fits(r, u)
<1>1. r.parser.state \notin HeaderStates /\ r.parser.state # "_body"
      /\ r.parser.state # "_header_start"
  BY DEF RequestLineStates, HeaderStates
<1> QED BY <1>1 DEF Fits, Describes

LEMMA MethodStartFits ==
  ASSUME NEW p \in Parser, NEW t, NEW c, NEW u, Longer(t, c, u), Describes(t, p),
         p.state = "_method_start"
  PROVE  Fits(NextCharHandler(p, c), u)
<1>1. /\ p.headers = <<>> /\ t = <<>> /\ p.uri = <<>> /\ NoBlankLine(t) /\ ~LineEnd(t, Len(t))
  BY DEF Describes, InRequestLine, RequestLineStates
<1>0. Len(t) = 0
  BY <1>1
<1>2. CASE c \in Tokens
  <2>1. PICK r : r = Goto(p, "_method")
    OBVIOUS
  <2>2. r.result = "undefined" /\ r.parser.state = "_method" /\ r.parser.uri = <<>>
        /\ r.parser.headers = <<>>
    BY <1>1, <2>1, GotoFields
  <2>3. NextCharHandler(p, c) = r
    BY <1>2, <2>1 DEF NextCharHandler
  <2>4. Len(t) = 0 /\ Len(u) = 1 /\ u[Len(u)] = c
    <3>0. PICK n \in Nat : n = Len(t) /\ Len(u) = n + 1
      BY LongerLen
    <3>1. Len(u) = 1
      BY <1>0, <3>0
    <3>2. u[Len(u)] = c
      BY LastLonger
    <3> QED BY <1>0, <3>1, <3>2, Zenon
  <2>5. \A i \in 1..Len(u) : u[i] \in Tokens
    <3>1. \A i \in 1..Len(u) : i = Len(u)
      BY <2>4
    <3> QED BY <1>2, <2>4, <3>1
  <2>6. c # CRLF
    BY <1>2, LexemeKinds
  <2>7. NoBlankLine(u) /\ ~LineEnd(u, Len(u))
    BY <1>1, <2>6, NoBlankLineStep, LastLonger
  <2>8. InRequestLine(u, r.parser)
    BY <2>2, <2>4, <2>5 DEF InRequestLine
  <2>9. r.parser.state \in RequestLineStates
    BY <2>2 DEF RequestLineStates
  <2> QED BY <2>2, <2>3, <2>7, <2>8, <2>9, RequestLineFits
<1>3. CASE c \notin Tokens
  <2>1. NextCharHandler(p, c) = Bad(p)
    BY <1>3 DEF NextCharHandler
  <2> QED BY <1>1, <2>1, FitsBad
<1> QED BY <1>2, <1>3

LEMMA MethodFits ==
  ASSUME NEW p \in Parser, NEW t, NEW c, NEW u, Longer(t, c, u), Describes(t, p),
         p.state = "_method"
  PROVE  Fits(NextCharHandler(p, c), u)
<1>1. /\ p.headers = <<>> /\ Len(t) > 0 /\ p.uri = <<>>
      /\ NoBlankLine(t) /\ ~LineEnd(t, Len(t))
  BY DEF Describes, InRequestLine, RequestLineStates
<1>2. \A i \in 1..Len(t) : t[i] \in Tokens
  BY DEF Describes, InRequestLine, RequestLineStates
<1>3. Len(t) \in Nat /\ Len(u) = Len(t) + 1 /\ u[Len(u)] = c
  BY LongerLen, LastLonger
<1>4. \A i \in 1..Len(t) : u[i] \in Tokens
  BY <1>2 DEF Longer
<1>5. c # CRLF => NoBlankLine(u) /\ ~LineEnd(u, Len(u))
  BY <1>1, NoBlankLineStep, LastLonger
<1>6. CASE c = SP
  <2>1. PICK r : r = Goto(p, "_uri")
    OBVIOUS
  <2>2. r.result = "undefined" /\ r.parser.state = "_uri" /\ r.parser.uri = <<>>
        /\ r.parser.headers = <<>>
    BY <1>1, <2>1, GotoFields
  <2>3. NextCharHandler(p, c) = r
    BY <1>6, <2>1 DEF NextCharHandler
  <2>4. Len(u) \in 1..Len(u) /\ Len(u) > 1 /\ Len(u) - 1 = Len(t)
    BY <1>1, <1>3
  <2>5. MethodPart(u, Len(u))
    BY <1>4, <1>6, <2>4, LastLonger DEF MethodPart
  <2>6. TargetPart(u, Len(u), Len(u) + 1)
    BY <1>3 DEF TargetPart
  <2>7. SubSeq(u, Len(u) + 1, Len(u)) = <<>>
    BY <1>3 DEF Longer, Text
  <2>8. InRequestLine(u, r.parser)
    BY <2>2, <2>4, <2>5, <2>6, <2>7 DEF InRequestLine
  <2>9. r.parser.state \in RequestLineStates
    BY <2>2 DEF RequestLineStates
  <2> QED BY <1>5, <1>6, <2>2, <2>3, <2>8, <2>9, RequestLineFits, LexemeKinds
<1>7. CASE c \in Tokens
  <2>1. c # SP /\ c # CRLF
    BY <1>7, LexemeKinds
  <2>2. NextCharHandler(p, c) = Undefined(p)
    BY <1>7, <2>1 DEF NextCharHandler
  <2>3. \A i \in 1..Len(u) : u[i] \in Tokens
    <3>1. \A i \in 1..Len(u) : i \in 1..Len(t) \/ i = Len(u)
      BY <1>3
    <3> QED BY <1>3, <1>4, <1>7, <3>1
  <2>4. Len(u) > 0
    BY <1>3
  <2>5. InRequestLine(u, p)
    BY <1>1, <2>3, <2>4 DEF InRequestLine
  <2>6. p.state \in RequestLineStates
    BY DEF RequestLineStates
  <2>7. Undefined(p).result = "undefined" /\ Undefined(p).parser = p
    BY DEF Undefined
  <2> QED BY <1>5, <2>1, <2>2, <2>5, <2>6, <2>7, RequestLineFits
<1>8. CASE c # SP /\ c \notin Tokens
  <2>1. NextCharHandler(p, c) = Bad(p)
    BY <1>8 DEF NextCharHandler
  <2> QED BY <1>1, <2>1, FitsBad
<1> QED BY <1>6, <1>7, <1>8

LEMMA UriFits ==
  ASSUME NEW p \in Parser, NEW t, NEW c, NEW u, Longer(t, c, u), Describes(t, p),
         p.state = "_uri"
  PROVE  Fits(NextCharHandler(p, c), u)
<1>1. p.headers = <<>> /\ NoBlankLine(t) /\ ~LineEnd(t, Len(t))
  BY DEF Describes, InRequestLine, RequestLineStates
<1>2. PICK a \in 1..Len(t) : /\ MethodPart(t, a) /\ TargetPart(t, a, Len(t) + 1)
                             /\ p.uri = SubSeq(t, a + 1, Len(t))
  BY DEF Describes, InRequestLine, RequestLineStates
<1>3. Len(t) \in Nat /\ Len(u) = Len(t) + 1 /\ u[Len(u)] = c
  BY LongerLen, LastLonger
<1>4. a \in 1..Len(u) /\ MethodPart(u, a) /\ TargetPart(u, a, Len(u))
  BY <1>2, <1>3, MethodPartLonger, TargetPartLonger
<1>5. c # CRLF => NoBlankLine(u) /\ ~LineEnd(u, Len(u))
  BY <1>1, NoBlankLineStep, LastLonger
<1>6. CASE c = SP
  <2>1. PICK r : r = Goto(p, "_version_h")
    OBVIOUS
  <2>2. r.result = "undefined" /\ r.parser.state = "_version_h" /\ r.parser.uri = p.uri
        /\ r.parser.headers = <<>>
    BY <1>1, <2>1, GotoFields
  <2>3. NextCharHandler(p, c) = r
    BY <1>6, <2>1 DEF NextCharHandler
  <2>4. Blank(u, Len(u)) /\ Len(u) - 1 = Len(t)
    BY <1>3, <1>6, LastLonger
  <2>5. SubSeq(u, a + 1, Len(u) - 1) = p.uri
    <3>1. a + 1 \in Nat \ {0} /\ Len(t) \in Int /\ Len(t) <= Len(t)
      BY <1>3
    <3>2. SubSeq(u, a + 1, Len(t)) = SubSeq(t, a + 1, Len(t))
      BY <3>1, SubSeqLonger
    <3> QED BY <1>2, <2>4, <3>2, Zenon
  <2>6. InRequestLine(u, r.parser)
    BY <1>4, <2>2, <2>4, <2>5 DEF InRequestLine
  <2>7. r.parser.state \in RequestLineStates
    BY <2>2 DEF RequestLineStates
  <2> QED BY <1>5, <1>6, <2>2, <2>3, <2>6, <2>7, RequestLineFits, LexemeKinds
<1>7. CASE c = CRLF
  <2>1. NextCharHandler(p, c) = Bad(p)
    BY <1>7, LexemeKinds DEF NextCharHandler
  <2> QED BY <1>1, <2>1, FitsBad
<1>8. CASE c \notin {SP, CRLF}
  <2>1. PICK r : r = PushUri(p, c)
    OBVIOUS
  <2>2. r.result = "undefined" /\ r.parser.state = "_uri" /\ r.parser.uri = Append(p.uri, c)
        /\ r.parser.headers = <<>>
    BY <1>1, <2>1, PushUriFields
  <2>3. NextCharHandler(p, c) = r
    BY <1>8, <2>1 DEF NextCharHandler
  <2>4. TargetPart(u, a, Len(u) + 1)
    <3>1. \A i \in (a + 1)..((Len(u) + 1) - 1) : i \in (a + 1)..(Len(u) - 1) \/ i = Len(u)
      BY <1>3
    <3>2. a < Len(u) + 1
      BY <1>3
    <3> QED BY <1>3, <1>4, <1>8, <3>1, <3>2 DEF TargetPart
  <2>5. SubSeq(u, a + 1, Len(u)) = Append(p.uri, c)
    <3>1. PICK m \in Nat \ {0} : m = a + 1 /\ m <= Len(t) + 1
      BY <1>3
    <3>2. Append(SubSeq(t, m, Len(t)), c) = SubSeq(u, m, Len(u))
      BY <3>1, SubSeqAppend
    <3> QED BY <1>2, <3>1, <3>2, Zenon
  <2>6. InRequestLine(u, r.parser)
    BY <1>4, <2>2, <2>4, <2>5 DEF InRequestLine
  <2>7. r.parser.state \in RequestLineStates
    BY <2>2 DEF RequestLineStates
  <2> QED BY <1>5, <1>8, <2>2, <2>3, <2>6, <2>7, RequestLineFits
<1> QED BY <1>6, <1>7, <1>8

LEMMA VersionFits ==
  ASSUME NEW p \in Parser, NEW t, NEW c, NEW u, Longer(t, c, u), Describes(t, p),
         p.state = "_version_h"
  PROVE  Fits(NextCharHandler(p, c), u)
<1>1. p.headers = <<>> /\ NoBlankLine(t) /\ ~LineEnd(t, Len(t))
  BY DEF Describes, InRequestLine, RequestLineStates
<1>2. PICK a \in 1..Len(t) : /\ MethodPart(t, a) /\ TargetPart(t, a, Len(t)) /\ Blank(t, Len(t))
                             /\ p.uri = SubSeq(t, a + 1, Len(t) - 1)
  BY DEF Describes, InRequestLine, RequestLineStates
<1>3. Len(t) \in Nat /\ Len(u) = Len(t) + 1 /\ u[Len(u)] = c
  BY LongerLen, LastLonger
<1>4. CASE c = VERSION
  <2>1. PICK r : r = Goto(p, "_version_minor")
    OBVIOUS
  <2>2. r.result = "undefined" /\ r.parser.state = "_version_minor" /\ r.parser.uri = p.uri
        /\ r.parser.headers = <<>>
    BY <1>1, <2>1, GotoFields
  <2>3. NextCharHandler(p, c) = r
    BY <1>4, <2>1 DEF NextCharHandler
  <2>4. c # CRLF
    BY <1>4, LexemeKinds
  <2>5. NoBlankLine(u) /\ ~LineEnd(u, Len(u))
    BY <1>1, <2>4, NoBlankLineStep, LastLonger
  <2>6. Len(t) \in 1..Len(u) /\ a \in 1..Len(u) /\ Len(t) < Len(u) /\ Len(t) + 1 = Len(u)
        /\ \A i \in (Len(t) + 2)..Len(u) : FALSE
    BY <1>3
  <2>7. MethodPart(u, a) /\ TargetPart(u, a, Len(t)) /\ Blank(u, Len(t))
    BY <1>2, <1>3, MethodPartLonger, TargetPartLonger, PositionsLonger
  <2>8. SubSeq(u, a + 1, Len(t) - 1) = p.uri
    <3>1. a + 1 \in Nat \ {0} /\ Len(t) - 1 \in Int /\ Len(t) - 1 <= Len(t)
      BY <1>3
    <3>2. SubSeq(u, a + 1, Len(t) - 1) = SubSeq(t, a + 1, Len(t) - 1)
      BY <3>1, SubSeqLonger
    <3> QED BY <1>2, <3>2, Zenon
  <2>9. InRequestLine(u, r.parser)
    BY <1>3, <1>4, <2>2, <2>6, <2>7, <2>8 DEF InRequestLine
  <2>10. r.parser.state \in RequestLineStates
    BY <2>2 DEF RequestLineStates
  <2> QED BY <2>2, <2>3, <2>5, <2>9, <2>10, RequestLineFits
<1>5. CASE c # VERSION
  <2>1. NextCharHandler(p, c) = Bad(p)
    BY <1>5 DEF NextCharHandler
  <2> QED BY <1>1, <2>1, FitsBad
<1> QED BY <1>4, <1>5

-----------------------------------------------------------------------------
(* The header lines                                                        *)

LEMMA LinesDoneInLine ==
  ASSUME NEW t, NEW c, NEW u, Longer(t, c, u), NEW r \in Nat \ {0},
         LinesDone(t, r, Len(t)), ~LineEnd(t, Len(t))
  PROVE  LinesDone(u, r, Len(u))
<1>1. Len(t) \in Nat /\ Len(u) = Len(t) + 1
  BY LongerLen
<1>2. LinesDone(u, r, Len(t)) /\ ~LineEnd(u, Len(t))
  BY <1>1, LinesDoneLonger, PositionsLonger
<1> SUFFICES ASSUME NEW j \in (r + 1)..Len(u), LineEnd(u, j - 1)
             PROVE  HeaderLine(u, j) \/ (Blank(u, j) /\ j > r + 1)
  BY DEF LinesDone
<1>3. j # Len(u)
  BY <1>1, <1>2
<1>4. j \in (r + 1)..Len(t)
  BY <1>1, <1>3
<1> QED BY <1>2, <1>4 DEF LinesDone

LEMMA LinesDoneFolded ==
  ASSUME NEW t, NEW u, Longer(t, SP, u), NEW r \in Nat \ {0}, r < Len(t), LinesDone(t, r, Len(t))
  PROVE  LinesDone(u, r, Len(u))
<1>1. Len(t) \in Nat /\ Len(u) = Len(t) + 1
  BY LongerLen
<1>2. LinesDone(u, r, Len(t)) /\ Blank(u, Len(u))
  BY <1>1, LinesDoneLonger, LastLonger
<1> SUFFICES ASSUME NEW j \in (r + 1)..Len(u), LineEnd(u, j - 1)
             PROVE  HeaderLine(u, j) \/ (Blank(u, j) /\ j > r + 1)
  BY DEF LinesDone
<1>3. CASE j = Len(u)
  BY <1>1, <1>2, <1>3
<1>4. CASE j # Len(u)
  <2>1. j \in (r + 1)..Len(t)
    BY <1>1, <1>4
  <2> QED BY <1>2, <2>1 DEF LinesDone
<1> QED BY <1>3, <1>4

LEMMA NameFromLonger ==
  ASSUME NEW t, NEW c, NEW u, Longer(t, c, u), NEW r \in Nat \ {0}, NEW m \in Int, m <= Len(t),
         NEW j \in 1..Len(t), NameFrom(t, r, j, m)
  PROVE  NameFrom(u, r, j, m)
<1>1. Len(t) \in Nat
  BY LongerLen
<1>2. /\ j \in (r + 1)..(m + 1) /\ LineEnd(t, j - 1) /\ LinesDone(t, r, j - 1)
      /\ \A i \in j..m : t[i] \in Tokens
  BY DEF NameFrom
<1>3. j - 1 \in Int /\ j - 1 <= Len(t) /\ \A i \in j..m : i \in 1..Len(t)
  BY <1>1
<1>4. LineEnd(u, j - 1) /\ LinesDone(u, r, j - 1)
  BY <1>2, <1>3, PositionsLonger, LinesDoneLonger
<1>5. \A i \in j..m : u[i] \in Tokens
  BY <1>2, <1>3 DEF Longer
<1> QED BY <1>2, <1>4, <1>5 DEF NameFrom

LEMMA NameFromMore ==
  ASSUME NEW t, NEW c, NEW u, Longer(t, c, u), NEW r \in Nat \ {0}, c \in Tokens,
         NEW j \in 1..Len(t), NameFrom(t, r, j, Len(t))
  PROVE  NameFrom(u, r, j, Len(u))
<1>1. Len(t) \in Nat /\ Len(u) = Len(t) + 1 /\ u[Len(u)] = c
  BY LongerLen, LastLonger
<1>2. NameFrom(u, r, j, Len(t))
  BY <1>1, NameFromLonger
<1>3. j \in (r + 1)..(Len(u) + 1)
  BY <1>1, <1>2 DEF NameFrom
<1>4. \A i \in j..Len(u) : i \in j..Len(t) \/ i = Len(u)
  BY <1>1
<1> QED BY <1>1, <1>2, <1>3, <1>4 DEF NameFrom

LEMMA NameStarts ==
  ASSUME NEW t, NEW c, NEW u, Longer(t, c, u), NEW r \in Nat \ {0}, r <= Len(t),
         LineEnd(t, Len(t)), LinesDone(t, r, Len(t))
  PROVE  /\ c \in Tokens => NameFrom(u, r, Len(u), Len(u))
         /\ NameFrom(u, r, Len(u), Len(u) - 1)
<1>1. Len(t) \in Nat /\ Len(u) = Len(t) + 1 /\ u[Len(u)] = c /\ Len(u) - 1 = Len(t)
  BY LongerLen, LastLonger
<1>2. LineEnd(u, Len(u) - 1) /\ LinesDone(u, r, Len(u) - 1)
  BY <1>1, PositionsLonger, LinesDoneLonger
<1>3. \A i \in Len(u)..Len(u) : i = Len(u)
  BY <1>1
<1>4. \A i \in Len(u)..(Len(u) - 1) : FALSE
  BY <1>1
<1>5. Len(u) \in (r + 1)..(Len(u) + 1) /\ Len(u) \in (r + 1)..((Len(u) - 1) + 1)
  BY <1>1
<1> QED BY <1>1, <1>2, <1>3, <1>4, <1>5 DEF NameFrom

LEMMA NameEnds ==
  ASSUME NEW t, NEW u, Longer(t, SP, u), NEW r \in Nat \ {0}, t[Len(t)] \in FieldNames,
         NEW j \in 1..Len(t), NameFrom(t, r, j, Len(t) - 1)
  PROVE  LinesDone(u, r, Len(u))
<1>1. Len(t) \in Nat /\ Len(u) = Len(t) + 1 /\ Blank(u, Len(u))
  BY LongerLen, LastLonger
<1>2. NameFrom(u, r, j, Len(t) - 1) /\ u[Len(t)] \in FieldNames
  <2>1. Len(t) - 1 \in Int /\ Len(t) - 1 <= Len(t) /\ Len(t) \in 1..Len(t)
    BY <1>1
  <2> QED BY <2>1, NameFromLonger DEF Longer
<1>3. /\ j \in (r + 1)..Len(t) /\ LinesDone(u, r, j - 1)
      /\ \A i \in j..(Len(t) - 1) : u[i] \in Tokens
  BY <1>1, <1>2 DEF NameFrom
<1>4. HeaderLine(u, j)
  <2>1. Len(t) \in j..Len(u) /\ Len(t) + 1 = Len(u)
    BY <1>1, <1>3
  <2> QED BY <1>1, <1>2, <1>3, <2>1 DEF HeaderLine
<1> SUFFICES ASSUME NEW k \in (r + 1)..Len(u), LineEnd(u, k - 1)
             PROVE  HeaderLine(u, k) \/ (Blank(u, k) /\ k > r + 1)
  BY DEF LinesDone
<1>5. CASE k < j
  <2>1. k \in (r + 1)..(j - 1)
    BY <1>1, <1>5
  <2> QED BY <1>3, <2>1 DEF LinesDone
<1>6. CASE k = j
  BY <1>4, <1>6
<1>7. CASE k > j
  <2>1. k - 1 \in j..(Len(t) - 1) \/ k - 1 = Len(t)
    BY <1>1, <1>3, <1>7
  <2>2. u[k - 1] \in Tokens \cup FieldNames
    BY <1>2, <1>3, <2>1
  <2> QED BY <2>2, LexemeKinds DEF LineEnd
<1> QED BY <1>5, <1>6, <1>7

-----------------------------------------------------------------------------
(* The value of the first Content-Length header                            *)

LEMMA LengthLinesSame ==
  ASSUME NEW t, NEW c, NEW u, Longer(t, c, u), NEW r \in Nat \ {0},
         ~(LineEnd(t, Len(t)) /\ c = CONTENT_LENGTH)
  PROVE  LengthLines(u, r, Len(u) + 1) = LengthLines(t, r, Len(t) + 1)
<1>1. Len(t) \in Nat /\ Len(u) = Len(t) + 1 /\ u[Len(u)] = c
  BY LongerLen, LastLonger
<1>2. LengthLines(u, r, Len(t) + 1) = LengthLines(t, r, Len(t) + 1)
  BY <1>1, LengthLinesLonger
<1>3. LineEnd(u, Len(t)) <=> LineEnd(t, Len(t))
  BY <1>1, PositionsLonger
<1>4. LengthLines(u, r, Len(u) + 1) = LengthLines(u, r, Len(t) + 1)
  <2>1. ASSUME NEW j \in LengthLines(u, r, Len(u) + 1) PROVE j \in LengthLines(u, r, Len(t) + 1)
    <3>1. j \in (r + 1)..((Len(u) + 1) - 1) /\ LineEnd(u, j - 1) /\ u[j] = CONTENT_LENGTH
      BY DEF LengthLines
    <3>2. j # Len(u)
      BY <1>1, <1>3, <3>1
    <3>3. j \in (r + 1)..((Len(t) + 1) - 1)
      BY <1>1, <3>1, <3>2
    <3> QED BY <3>1, <3>3 DEF LengthLines
  <2>2. ASSUME NEW j \in LengthLines(u, r, Len(t) + 1) PROVE j \in LengthLines(u, r, Len(u) + 1)
    <3>1. j \in (r + 1)..((Len(u) + 1) - 1)
      BY <1>1 DEF LengthLines
    <3> QED BY <3>1 DEF LengthLines
  <2> QED BY <2>1, <2>2
<1> QED BY <1>2, <1>4

LEMMA LengthLinesNew ==
  ASSUME NEW t, NEW c, NEW u, Longer(t, c, u), NEW r \in Nat \ {0}, r <= Len(t),
         LineEnd(t, Len(t)), c = CONTENT_LENGTH
  PROVE  LengthLines(u, r, Len(u) + 1) = LengthLines(t, r, Len(t) + 1) \cup {Len(u)}
<1>1. Len(t) \in Nat /\ Len(u) = Len(t) + 1 /\ u[Len(u)] = c
  BY LongerLen, LastLonger
<1>2. LengthLines(u, r, Len(t) + 1) = LengthLines(t, r, Len(t) + 1)
  BY <1>1, LengthLinesLonger
<1>3. LineEnd(u, Len(u) - 1)
  BY <1>1, PositionsLonger
<1>4. ASSUME NEW j \in LengthLines(u, r, Len(u) + 1), j # Len(u)
      PROVE  j \in LengthLines(u, r, Len(t) + 1)
  <2>1. j \in (r + 1)..((Len(t) + 1) - 1)
    BY <1>1, <1>4 DEF LengthLines
  <2> QED BY <2>1 DEF LengthLines
<1>5. ASSUME NEW j \in LengthLines(u, r, Len(t) + 1) PROVE j \in LengthLines(u, r, Len(u) + 1)
  <2>1. j \in (r + 1)..((Len(u) + 1) - 1)
    BY <1>1 DEF LengthLines
  <2> QED BY <2>1 DEF LengthLines
<1>6. Len(u) \in LengthLines(u, r, Len(u) + 1)
  <2>1. Len(u) \in (r + 1)..((Len(u) + 1) - 1)
    BY <1>1
  <2> QED BY <1>1, <1>3, <2>1 DEF LengthLines
<1> QED BY <1>2, <1>4, <1>5, <1>6

LEMMA FirstLineStays ==
  ASSUME NEW t, NEW c, NEW u, Longer(t, c, u), NEW r \in Nat \ {0}, r <= Len(t), NEW f,
         FirstLine(t, r, f)
  PROVE  FirstLine(u, r, f) /\ f \in Nat /\ f > r /\ f <= Len(t) /\ t[f] = CONTENT_LENGTH
<1>1. Len(t) \in Nat /\ Len(u) = Len(t) + 1
  BY LongerLen
<1>2. f \in Nat /\ f > r /\ f <= Len(t) /\ t[f] = CONTENT_LENGTH
  BY <1>1 DEF FirstLine, LengthLines
<1>3. CASE LineEnd(t, Len(t)) /\ c = CONTENT_LENGTH
  <2>1. LengthLines(u, r, Len(u) + 1) = LengthLines(t, r, Len(t) + 1) \cup {Len(u)}
    BY <1>3, LengthLinesNew
  <2>2. f <= Len(u)
    BY <1>1, <1>2
  <2> QED BY <1>2, <2>1, <2>2 DEF FirstLine
<1>4. CASE ~(LineEnd(t, Len(t)) /\ c = CONTENT_LENGTH)
  <2>1. LengthLines(u, r, Len(u) + 1) = LengthLines(t, r, Len(t) + 1)
    BY <1>4, LengthLinesSame
  <2> QED BY <1>2, <2>1 DEF FirstLine
<1> QED BY <1>3, <1>4

\* What one more lexeme does to the positions of the value
LEMMA ContinuedStep ==
  ASSUME NEW t, NEW c, NEW u, Longer(t, c, u), NEW f \in Nat
  PROVE  Continued(u, f, Len(u)) <=>
            Continued(t, f, Len(t)) /\ (LineEnd(t, Len(t)) /\ Len(t) > f + 1 => c = SP)
<1>1. Len(t) \in Nat /\ Len(u) = Len(t) + 1 /\ u[Len(t) + 1] = c
  BY LongerLen, LastLonger
<1>2. Continued(u, f, Len(t)) <=> Continued(t, f, Len(t))
  BY <1>1, ContinuedLonger
<1>3. LineEnd(t, Len(t)) /\ Len(t) > f + 1 <=> Len(t) \in (f + 2)..Len(t) /\ u[Len(t)] = CRLF
  BY <1>1 DEF Longer, LineEnd
<1>4. \A m \in (f + 2)..(Len(u) - 1) : m \in (f + 2)..(Len(t) - 1) \/ m = Len(t)
  BY <1>1
<1>5. \A m \in (f + 2)..(Len(t) - 1) : m \in (f + 2)..(Len(u) - 1)
  BY <1>1
<1>6. Len(u) - 1 = Len(t)
  BY <1>1
<1> QED BY <1>1, <1>2, <1>3, <1>4, <1>5, <1>6 DEF Continued

LEMMA IndentingStep ==
  ASSUME NEW t, NEW c, NEW u, Longer(t, c, u), NEW f \in Nat
  PROVE  Indenting(u, f, Len(u) + 1) <=>
            (c = CRLF /\ Len(t) > f) \/ (c = SP /\ Indenting(t, f, Len(t) + 1))
<1>1. Len(t) \in Nat /\ Len(u) = Len(t) + 1 /\ u[Len(u)] = c
  BY LongerLen, LastLonger
<1>2. Indenting(u, f, Len(u)) <=> Indenting(t, f, Len(t) + 1)
  BY <1>1, IndentingLonger
<1>3. ASSUME Indenting(u, f, Len(u) + 1)
      PROVE  (c = CRLF /\ Len(t) > f) \/ (c = SP /\ Indenting(u, f, Len(u)))
  <2>1. PICK m \in (f + 2)..Len(u) : u[m] = CRLF /\ \A k \in (m + 1)..Len(u) : u[k] = SP
    BY <1>1, <1>3 DEF Indenting
  <2>2. CASE m = Len(u)
    BY <1>1, <2>1, <2>2
  <2>3. CASE m # Len(u)
    <3>1. m \in (f + 2)..(Len(u) - 1) /\ Len(u) \in (m + 1)..Len(u)
          /\ \A k \in (m + 1)..(Len(u) - 1) : k \in (m + 1)..Len(u)
      BY <1>1, <2>3
    <3> QED BY <1>1, <2>1, <3>1 DEF Indenting
  <2> QED BY <2>2, <2>3
<1>4. ASSUME c = CRLF, Len(t) > f PROVE Indenting(u, f, Len(u) + 1)
  <2>1. Len(u) \in (f + 2)..((Len(u) + 1) - 1) /\ \A k \in (Len(u) + 1)..((Len(u) + 1) - 1) : FALSE
    BY <1>1, <1>4
  <2> QED BY <1>1, <1>4, <2>1 DEF Indenting
<1>5. ASSUME c = SP, Indenting(u, f, Len(u)) PROVE Indenting(u, f, Len(u) + 1)
  <2>1. PICK m \in (f + 2)..(Len(u) - 1) :
           u[m] = CRLF /\ \A k \in (m + 1)..(Len(u) - 1) : u[k] = SP
    BY <1>5 DEF Indenting
  <2>2. m \in (f + 2)..((Len(u) + 1) - 1)
        /\ \A k \in (m + 1)..((Len(u) + 1) - 1) : k \in (m + 1)..(Len(u) - 1) \/ k = Len(u)
    BY <1>1
  <2> QED BY <1>1, <1>5, <2>1, <2>2 DEF Indenting
<1> QED BY <1>2, <1>3, <1>4, <1>5

\* Whether the last lexeme belongs to the value
LEMMA LastPlace ==
  ASSUME NEW t, NEW c, NEW u, Longer(t, c, u), NEW f \in Nat
  PROVE  Len(u) \in ValuePlaces(u, f, Len(u) + 1) <=>
            /\ Len(t) > f /\ Continued(u, f, Len(u)) /\ c # CRLF
            /\ ~(c = SP /\ Indenting(t, f, Len(t) + 1))
<1>1. Len(t) \in Nat /\ Len(u) = Len(t) + 1 /\ u[Len(u)] = c
  BY LongerLen, LastLonger
<1>2. Indenting(u, f, Len(u)) <=> Indenting(t, f, Len(t) + 1)
  BY <1>1, IndentingLonger
<1>3. Len(u) \in (f + 2)..((Len(u) + 1) - 1) <=> Len(t) > f
  BY <1>1
<1> QED BY <1>1, <1>2, <1>3 DEF ValuePlaces

LEMMA SelectedStep ==
  ASSUME NEW t, NEW c, NEW u, Longer(t, c, u), NEW f \in Nat
  PROVE  LET before == Selected(t, ValuePlaces(t, f, Len(t) + 1))
         IN  Selected(u, ValuePlaces(u, f, Len(u) + 1)) =
                IF Len(u) \in ValuePlaces(u, f, Len(u) + 1) THEN Append(before, c) ELSE before
<1>1. Len(t) \in Nat /\ Len(u) = Len(t) + 1
  BY LongerLen
<1>2. ASSUME NEW i \in 1..Len(t)
      PROVE  i \in ValuePlaces(u, f, Len(u) + 1) <=> i \in ValuePlaces(t, f, Len(t) + 1)
  <2>1. i < Len(u) + 1 /\ i < Len(t) + 1 /\ Len(u) + 1 \in Nat /\ Len(t) + 1 \in Nat
    BY <1>1
  <2> QED BY <2>1, ValuePlacesLonger
<1>3. PICK P, Q : P = ValuePlaces(t, f, Len(t) + 1) /\ Q = ValuePlaces(u, f, Len(u) + 1)
  OBVIOUS
<1>4. \A i \in 1..Len(t) : i \in Q <=> i \in P
  BY <1>2, <1>3
<1>5. Selected(u, Q) = IF Len(u) \in Q THEN Append(Selected(t, P), c) ELSE Selected(t, P)
  BY <1>4, SelectedLonger
<1> QED BY <1>3, <1>5

\* A lexeme that adds nothing to the value
LEMMA GatheredStays ==
  ASSUME NEW p, NEW q, NEW t, NEW c, NEW u, Longer(t, c, u), NEW f \in Nat, NEW n,
         Gathered(t, p, f, n), q.headers[n].value = p.headers[n].value,
         Len(u) \notin ValuePlaces(u, f, Len(u) + 1)
  PROVE  Gathered(u, q, f, n)
  BY SelectedStep DEF Gathered

\* The header line at f has ended, and its value stays what it is.
LEMMA EndedStays ==
  ASSUME NEW p, NEW q, NEW t, NEW c, NEW u, Longer(t, c, u), NEW f \in Nat, NEW n,
         Gathered(t, p, f, n), q.headers[n].value = p.headers[n].value,
         ~Continued(t, f, Len(t)), n < Len(q.headers)
  PROVE  ValueOf(u, q, f, n)
<1>1. ~Continued(u, f, Len(u))
  BY ContinuedStep
<1>2. Gathered(u, q, f, n)
  BY <1>1, LastPlace, GatheredStays
<1> QED BY <1>1, <1>2 DEF ValueOf

-----------------------------------------------------------------------------
(* What a lexeme does to the list of headers, and with it to LengthKnown   *)

ValuePushed(p, q, c) ==
    /\ Len(q.headers) = Len(p.headers)
    /\ \A n \in 1..Len(p.headers) : q.headers[n].name = p.headers[n].name
    /\ \A n \in 1..(Len(p.headers) - 1) : q.headers[n].value = p.headers[n].value
    /\ q.headers[Len(p.headers)].value = Append(p.headers[Len(p.headers)].value, c)

NamePushed(p, q, c) ==
    /\ Len(q.headers) = Len(p.headers)
    /\ \A n \in 1..Len(p.headers) : q.headers[n].value = p.headers[n].value
    /\ \A n \in 1..(Len(p.headers) - 1) : q.headers[n].name = p.headers[n].name
    /\ q.headers[Len(p.headers)].name = Append(p.headers[Len(p.headers)].name, c)

HeaderAdded(p, q, c) ==
    /\ Len(q.headers) = Len(p.headers) + 1
    /\ \A n \in 1..Len(p.headers) : q.headers[n] = p.headers[n]
    /\ q.headers[Len(q.headers)].name = <<c>>
    /\ q.headers[Len(q.headers)].value = <<>>

LEMMA HeadersTyped ==
  ASSUME NEW p \in Parser
  PROVE  /\ Len(p.headers) \in Nat
         /\ p.headers # <<>> <=> Len(p.headers) > 0
         /\ \A n \in 1..Len(p.headers) : p.headers[n].name \in Text /\ p.headers[n].value \in Text
<1>1. p.headers \in Seq(Header)
  BY DEF Parser
<1>2. \A n \in 1..Len(p.headers) : p.headers[n] \in Header
  BY <1>1
<1>3. Len(p.headers) \in Nat /\ (p.headers # <<>> <=> Len(p.headers) > 0)
  BY <1>1
<1> QED BY <1>2, <1>3 DEF Header

WithHeaders(p, st, hs) == Undefined([p EXCEPT !.state = st, !.headers = hs])

LEMMA WithHeadersFields ==
  ASSUME NEW p \in Parser, NEW st, NEW hs
  PROVE  /\ WithHeaders(p, st, hs).result = "undefined"
         /\ WithHeaders(p, st, hs).parser.state = st
         /\ WithHeaders(p, st, hs).parser.uri = p.uri
         /\ WithHeaders(p, st, hs).parser.headers = hs
  BY DEF WithHeaders, Undefined, Parser

LEMMA NewHeaderFields ==
  ASSUME NEW p \in Parser, NEW c \in Lexemes, NEW st
  PROVE  /\ NewHeader(p, st, c).result = "undefined"
         /\ NewHeader(p, st, c).parser.state = st
         /\ NewHeader(p, st, c).parser.uri = p.uri
         /\ HeaderAdded(p, NewHeader(p, st, c).parser, c)
<1>1. PICK h : h = [name |-> <<c>>, value |-> <<>>]
  OBVIOUS
<1>2. h.name = <<c>> /\ h.value = <<>> /\ h \in Header
  BY <1>1 DEF Header, Text
<1>3. PICK hs : hs = Append(p.headers, h)
  OBVIOUS
<1>4. p.headers \in Seq(Header)
  BY DEF Parser
<1>5. /\ Len(hs) = Len(p.headers) + 1 /\ hs[Len(hs)] = h
      /\ \A n \in 1..Len(p.headers) : hs[n] = p.headers[n]
  BY <1>2, <1>3, <1>4
<1>6. NewHeader(p, st, c) = WithHeaders(p, st, hs)
  BY <1>1, <1>3 DEF NewHeader, WithHeaders
<1>7. /\ NewHeader(p, st, c).result = "undefined"
      /\ NewHeader(p, st, c).parser.state = st
      /\ NewHeader(p, st, c).parser.uri = p.uri
      /\ NewHeader(p, st, c).parser.headers = hs
  BY <1>6, WithHeadersFields
<1> QED BY <1>2, <1>5, <1>7 DEF HeaderAdded

LEMMA PushNameFields ==
  ASSUME NEW p \in Parser, p.headers # <<>>, NEW c \in Lexemes, NEW st
  PROVE  /\ PushName(p, st, c).result = "undefined"
         /\ PushName(p, st, c).parser.state = st
         /\ PushName(p, st, c).parser.uri = p.uri
         /\ NamePushed(p, PushName(p, st, c).parser, c)
<1> DEFINE n == Len(p.headers)
           h == [p.headers[n] EXCEPT !.name = Append(p.headers[n].name, c)]
           hs == [p.headers EXCEPT ![n] = h]
<1>1. p.headers \in Seq(Header) /\ n \in 1..n /\ n \in Nat
  BY DEF Parser
<1>2. p.headers[n] \in Header
  BY <1>1
<1>3. h.name = Append(p.headers[n].name, c) /\ h.value = p.headers[n].value /\ h \in Header
  BY <1>2, AppendNameType DEF Header
<1>4. Len(hs) = n /\ hs[n] = h /\ \A m \in 1..n : m # n => hs[m] = p.headers[m]
  <2> HIDE DEF h
  <2> QED BY <1>1, <1>3
<1>5. PushName(p, st, c) = WithHeaders(p, st, hs)
  BY <1>1 DEF PushName, WithHeaders, Undefined, Parser
<1>6. /\ PushName(p, st, c).result = "undefined"
      /\ PushName(p, st, c).parser.state = st
      /\ PushName(p, st, c).parser.uri = p.uri
      /\ PushName(p, st, c).parser.headers = hs
  <2> HIDE DEF hs
  <2> QED BY <1>5, WithHeadersFields
<1>7. \A m \in 1..(n - 1) : m \in 1..n /\ m # n
  BY <1>1
<1> HIDE DEF hs, h
<1> QED BY <1>1, <1>3, <1>4, <1>6, <1>7 DEF NamePushed

LEMMA PushValueFields ==
  ASSUME NEW p \in Parser, p.headers # <<>>, NEW c \in Lexemes
  PROVE  /\ PushValue(p, c).result = "undefined"
         /\ PushValue(p, c).parser.state = "_header_value"
         /\ PushValue(p, c).parser.uri = p.uri
         /\ ValuePushed(p, PushValue(p, c).parser, c)
<1> DEFINE n == Len(p.headers)
           h == [p.headers[n] EXCEPT !.value = Append(p.headers[n].value, c)]
           hs == [p.headers EXCEPT ![n] = h]
<1>1. p.headers \in Seq(Header) /\ n \in 1..n /\ n \in Nat
  BY DEF Parser
<1>2. p.headers[n] \in Header
  BY <1>1
<1>3. h.value = Append(p.headers[n].value, c) /\ h.name = p.headers[n].name /\ h \in Header
  BY <1>2, AppendValueType DEF Header
<1>4. Len(hs) = n /\ hs[n] = h /\ \A m \in 1..n : m # n => hs[m] = p.headers[m]
  <2> HIDE DEF h
  <2> QED BY <1>1, <1>3
<1>5. PushValue(p, c) = WithHeaders(p, "_header_value", hs)
  BY <1>1 DEF PushValue, WithHeaders, Undefined, Parser
<1>6. /\ PushValue(p, c).result = "undefined"
      /\ PushValue(p, c).parser.state = "_header_value"
      /\ PushValue(p, c).parser.uri = p.uri
      /\ PushValue(p, c).parser.headers = hs
  <2> HIDE DEF hs
  <2> QED BY <1>5, WithHeadersFields
<1>7. \A m \in 1..(n - 1) : m \in 1..n /\ m # n
  BY <1>1
<1> HIDE DEF hs, h
<1> QED BY <1>1, <1>3, <1>4, <1>6, <1>7 DEF ValuePushed

\* LengthKnown, its two cases by name
Nothing(t, p, r) == LengthLines(t, r, Len(t) + 1) = {} /\ Unnamed(p)

Found(t, p, r, f, n) == FirstLine(t, r, f) /\ FirstNamed(p, n) /\ ValueOf(t, p, f, n)

LEMMA LengthKnownCases ==
  ASSUME NEW t, NEW p, NEW r
  PROVE  LengthKnown(t, p, r) <=>
            /\ p.state = "_header_name" =>
                  p.headers[Len(p.headers)].name \notin {<<>>, <<CONTENT_LENGTH>>}
            /\ Nothing(t, p, r) \/ \E f, n \in Nat : Found(t, p, r, f, n)
  BY Zenon DEF LengthKnown, Nothing, Found

\* A blank that is no part of a value, or the end of a line
LEMMA LengthKept ==
  ASSUME NEW p \in Parser, NEW q, NEW t, NEW c, NEW u, Longer(t, c, u),
         NEW r \in Nat \ {0}, r <= Len(t), LengthKnown(t, p, r),
         q.headers = p.headers, c \in {SP, CRLF}, LineEnd(t, Len(t)) => c = SP,
         q.state \notin {"_header_name", "_space_before_header_value"},
         c = CRLF => q.state = "_header_start" /\ p.state # "_space_before_header_value",
         c = SP => p.state # "_header_value" /\
                   (q.state = "_header_value" <=> p.state = "_space_before_header_value"),
         p.state \in HeaderStates \ {"_header_name"}, q.state \in HeaderStates
  PROVE  LengthKnown(u, q, r)
<1>1. Len(t) \in Nat /\ Len(u) = Len(t) + 1
  BY LongerLen
<1>2. LengthLines(u, r, Len(u) + 1) = LengthLines(t, r, Len(t) + 1)
  BY LengthLinesSame, LexemeKinds
<1>3. CASE Nothing(t, p, r)
  <2>1. Nothing(u, q, r)
    BY <1>2, <1>3 DEF Nothing, Unnamed
  <2> QED BY <2>1, LengthKnownCases
<1>4. ASSUME NEW f \in Nat, NEW n \in Nat, Found(t, p, r, f, n) PROVE Found(u, q, r, f, n)
  <2>1. FirstLine(t, r, f) /\ FirstNamed(p, n) /\ ValueOf(t, p, f, n)
    BY <1>4 DEF Found
  <2>2. FirstLine(u, r, f) /\ f <= Len(t)
    BY <2>1, FirstLineStays
  <2>3. FirstNamed(q, n)
    BY <2>1 DEF FirstNamed
  <2>4. Gathered(t, p, f, n) /\ q.headers[n].value = p.headers[n].value
    BY <2>1 DEF ValueOf
  <2>5. CASE ~Continued(t, f, Len(t)) /\ n < Len(p.headers)
    <3>1. ValueOf(u, q, f, n)
      BY <2>4, <2>5, EndedStays
    <3> QED BY <2>2, <2>3, <3>1 DEF Found
  <2>6. CASE /\ Continued(t, f, Len(t)) /\ n = Len(p.headers)
             /\ Len(t) = f <=> p.state = "_space_before_header_value"
             /\ Indenting(t, f, Len(t) + 1) <=> p.state \in {"_header_start", "_header_lws"}
    <3>1. Continued(u, f, Len(u))
      BY <2>6, ContinuedStep
    <3>2. Len(u) \notin ValuePlaces(u, f, Len(u) + 1)
      BY <1>1, <2>2, <2>6, LastPlace DEF HeaderStates
    <3>3. Gathered(u, q, f, n)
      BY <2>4, <3>2, GatheredStays
    <3>4. Len(u) # f
      BY <1>1, <2>2
    <3>5. Indenting(u, f, Len(u) + 1) <=> q.state \in {"_header_start", "_header_lws"}
      <4>1. CASE c = CRLF
        BY <1>1, <2>2, <2>6, <4>1, IndentingStep
      <4>2. CASE c = SP
        BY <2>6, <4>2, IndentingStep, LexemeKinds DEF HeaderStates
      <4> QED BY <4>1, <4>2
    <3>6. ValueOf(u, q, f, n)
      BY <2>6, <3>1, <3>3, <3>4, <3>5 DEF ValueOf
    <3> QED BY <2>2, <2>3, <3>6 DEF Found
  <2> QED BY <2>1, <2>5, <2>6 DEF ValueOf
<1> QED BY <1>3, <1>4, LengthKnownCases

\* A lexeme of a value
LEMMA LengthPushed ==
  ASSUME NEW p \in Parser, NEW q, NEW t, NEW c, NEW u, Longer(t, c, u),
         NEW r \in Nat \ {0}, r <= Len(t), LengthKnown(t, p, r),
         ValuePushed(p, q, c), c # CRLF, ~LineEnd(t, Len(t)),
         p.state \in {"_header_lws", "_header_value"}, p.state = "_header_lws" => c # SP,
         q.state = "_header_value"
  PROVE  LengthKnown(u, q, r)
<1>1. Len(t) \in Nat /\ Len(u) = Len(t) + 1 /\ Len(p.headers) \in Nat /\ c \in Lexemes
  BY LongerLen, HeadersTyped DEF Longer
<1>2. LengthLines(u, r, Len(u) + 1) = LengthLines(t, r, Len(t) + 1)
  BY LengthLinesSame
<1>3. CASE Nothing(t, p, r)
  <2>1. Nothing(u, q, r)
    BY <1>2, <1>3 DEF Nothing, Unnamed, ValuePushed
  <2> QED BY <2>1, LengthKnownCases
<1>4. ASSUME NEW f \in Nat, NEW n \in Nat, Found(t, p, r, f, n) PROVE Found(u, q, r, f, n)
  <2>1. FirstLine(t, r, f) /\ FirstNamed(p, n) /\ ValueOf(t, p, f, n)
    BY <1>4 DEF Found
  <2>2. FirstLine(u, r, f) /\ f <= Len(t)
    BY <2>1, FirstLineStays
  <2>3. n \in 1..Len(p.headers) /\ \A m \in 1..(n - 1) : m \in 1..Len(p.headers)
    BY <1>1, <2>1 DEF FirstNamed
  <2>4. FirstNamed(q, n)
    BY <2>1, <2>3 DEF FirstNamed, ValuePushed
  <2>5. PICK v, w : v = p.headers[n].value /\ w = q.headers[n].value
    OBVIOUS
  <2>6. v \in Text
    BY <2>3, <2>5, HeadersTyped
  <2>7. n \in 1..(Len(p.headers) - 1) \/ n = Len(p.headers)
    BY <1>1, <2>3
  <2>8. (n < Len(p.headers) => w = v) /\ (n = Len(p.headers) => w = Append(v, c))
    <3>1. n < Len(p.headers) => n \in 1..(Len(p.headers) - 1)
      BY <1>1, <2>7
    <3>2. n \in 1..(Len(p.headers) - 1) => w = v
      BY <2>5 DEF ValuePushed
    <3>3. n = Len(p.headers) => w = Append(v, c)
      BY <2>5, Zenon DEF ValuePushed
    <3> QED BY <3>1, <3>2, <3>3
  <2>9. Len(q.headers) = Len(p.headers)
    BY DEF ValuePushed
  <2>10. ValueOf(u, q, f, n)
    <3>0. Gathered(t, p, f, n)
      BY <2>1 DEF ValueOf
    <3>1. CASE ~Continued(t, f, Len(t)) /\ n < Len(p.headers)
      BY <2>5, <2>8, <2>9, <3>0, <3>1, EndedStays
    <3>2. CASE /\ Continued(t, f, Len(t)) /\ n = Len(p.headers)
               /\ Len(t) # f
               /\ Indenting(t, f, Len(t) + 1) <=> p.state = "_header_lws"
      <4>1. Continued(u, f, Len(u))
        BY <3>2, ContinuedStep
      <4>2. Len(u) \in ValuePlaces(u, f, Len(u) + 1)
        BY <1>1, <2>2, <3>2, <4>1, LastPlace
      <4>3. Gathered(u, q, f, n)
        BY <2>5, <2>8, <3>0, <3>2, <4>2, SelectedStep DEF Gathered
      <4>4. ~Indenting(u, f, Len(u) + 1)
        BY <3>2, IndentingStep
      <4>5. Len(u) # f
        BY <1>1, <2>2
      <4> QED BY <2>9, <3>2, <4>1, <4>3, <4>4, <4>5 DEF ValueOf
    <3> QED BY <2>1, <3>1, <3>2 DEF ValueOf
  <2> QED BY <2>2, <2>4, <2>10 DEF Found
<1> QED BY <1>3, <1>4, LengthKnownCases

\* A lexeme of a name, which is not the name's first
LEMMA LengthNamed ==
  ASSUME NEW p \in Parser, p.headers # <<>>, NEW q, NEW t, NEW c, NEW u, Longer(t, c, u),
         NEW r \in Nat \ {0}, r <= Len(t), LengthKnown(t, p, r),
         NamePushed(p, q, c), ~LineEnd(t, Len(t)), p.state = "_header_name"
  PROVE  LengthKnown(u, q, r)
<1>1. Len(t) \in Nat /\ Len(u) = Len(t) + 1 /\ Len(p.headers) \in Nat /\ c \in Lexemes
  BY LongerLen, HeadersTyped DEF Longer
<1>2. LengthLines(u, r, Len(u) + 1) = LengthLines(t, r, Len(t) + 1)
  BY LengthLinesSame
<1>3. PICK last : last = Len(p.headers)
  OBVIOUS
<1>4. last \in 1..last /\ Len(q.headers) = last /\ last \in Nat
  BY <1>1, <1>3, HeadersTyped DEF NamePushed
<1>5. p.headers[last].name \notin {<<>>, <<CONTENT_LENGTH>>} /\ p.headers[last].name \in Text
  BY <1>3, <1>4, LengthKnownCases, HeadersTyped
<1>6. PICK x \in Text : x = p.headers[last].name /\ x # <<>>
  BY <1>5
<1>7. q.headers[last].name = Append(x, c)
  BY <1>3, <1>6 DEF NamePushed
<1>8. Append(x, c) \notin {<<>>, <<CONTENT_LENGTH>>}
  <2>1. Len(Append(x, c)) > 1
    BY <1>1, <1>6 DEF Text
  <2> QED BY <2>1
<1>9. ASSUME NEW n \in 1..last PROVE n \in 1..(last - 1) \/ n = last
  BY <1>4
<1>10. CASE Nothing(t, p, r)
  <2>1. ASSUME NEW n \in 1..Len(q.headers) PROVE q.headers[n].name # <<CONTENT_LENGTH>>
    <3>1. n \in 1..(last - 1) => q.headers[n].name = p.headers[n].name
      BY <1>3 DEF NamePushed
    <3>2. p.headers[n].name # <<CONTENT_LENGTH>>
      BY <1>3, <1>4, <1>10 DEF Nothing, Unnamed
    <3>3. n \in 1..(last - 1) \/ n = last
      BY <1>4, <1>9
    <3> QED BY <1>7, <1>8, <3>1, <3>2, <3>3
  <2>2. Nothing(u, q, r)
    BY <1>2, <1>10, <2>1 DEF Nothing, Unnamed
  <2> QED BY <1>4, <1>7, <1>8, <2>2, LengthKnownCases
<1>11. ASSUME NEW f \in Nat, NEW n \in Nat, Found(t, p, r, f, n) PROVE Found(u, q, r, f, n)
  <2>1. FirstLine(t, r, f) /\ FirstNamed(p, n) /\ ValueOf(t, p, f, n)
    BY <1>11 DEF Found
  <2>2. FirstLine(u, r, f) /\ f <= Len(t)
    BY <2>1, FirstLineStays
  <2>3. n \in 1..last /\ p.headers[n].name = <<CONTENT_LENGTH>>
    BY <1>3, <2>1 DEF FirstNamed
  <2>4. n # last /\ n < last /\ n \in 1..(last - 1)
    <3>1. n # last
      BY <1>5, <2>3
    <3> QED BY <1>4, <2>3, <3>1
  <2>5. \A m \in 1..(n - 1) : m \in 1..(last - 1)
    BY <1>4, <2>4
  <2>6. q.headers[n].name = <<CONTENT_LENGTH>> /\ q.headers[n].value = p.headers[n].value
    BY <1>3, <2>3, <2>4 DEF NamePushed
  <2>7. \A m \in 1..(n - 1) : q.headers[m].name # <<CONTENT_LENGTH>>
    BY <1>3, <2>1, <2>5 DEF NamePushed, FirstNamed
  <2>8. FirstNamed(q, n)
    BY <1>4, <2>3, <2>6, <2>7 DEF FirstNamed
  <2>9. ValueOf(u, q, f, n)
    <3>1. Gathered(t, p, f, n) /\ ~Continued(t, f, Len(t))
      BY <1>3, <2>1, <2>4 DEF ValueOf
    <3>2. n < Len(q.headers)
      BY <1>4, <2>4
    <3> QED BY <2>6, <3>1, <3>2, EndedStays
  <2> QED BY <2>2, <2>8, <2>9 DEF Found
<1> QED BY <1>4, <1>7, <1>8, <1>10, <1>11, LengthKnownCases

\* The first lexeme of a header line
LEMMA LengthAdded ==
  ASSUME NEW p \in Parser, NEW q, NEW t, NEW c, NEW u, Longer(t, c, u),
         NEW r \in Nat \ {0}, r <= Len(t), LengthKnown(t, p, r),
         HeaderAdded(p, q, c), LineEnd(t, Len(t)), c # SP,
         p.state = "_header_start",
         q.state = "_header_name" => c \in Tokens,
         c = CONTENT_LENGTH => q.state = "_space_before_header_value"
  PROVE  LengthKnown(u, q, r)
<1>1. Len(t) \in Nat /\ Len(u) = Len(t) + 1 /\ Len(p.headers) \in Nat /\ c \in Lexemes
  BY LongerLen, HeadersTyped DEF Longer
<1>2. PICK last : last = Len(p.headers)
  OBVIOUS
<1>3. /\ last \in Nat /\ Len(q.headers) = last + 1
      /\ \A n \in 1..last : q.headers[n] = p.headers[n]
      /\ q.headers[last + 1].name = <<c>> /\ q.headers[last + 1].value = <<>>
  BY <1>1, <1>2 DEF HeaderAdded
<1>4. q.state = "_header_name" => q.headers[Len(q.headers)].name \notin {<<>>, <<CONTENT_LENGTH>>}
  <2>1. q.state = "_header_name" => c # CONTENT_LENGTH
    BY LexemesAssumption
  <2> QED BY <1>3, <2>1
<1>5. \A n \in 1..(last + 1) : n \in 1..last \/ n = last + 1
  BY <1>3
<1>6. CASE Nothing(t, p, r) /\ c # CONTENT_LENGTH
  <2>1. LengthLines(u, r, Len(u) + 1) = LengthLines(t, r, Len(t) + 1)
    BY <1>6, LengthLinesSame
  <2>2. <<c>> # <<CONTENT_LENGTH>>
    BY <1>6
  <2>3. \A n \in 1..last : p.headers[n].name # <<CONTENT_LENGTH>>
    BY <1>2, <1>6 DEF Nothing, Unnamed
  <2>4. Unnamed(q)
    BY <1>3, <1>5, <2>2, <2>3 DEF Unnamed
  <2>5. Nothing(u, q, r)
    BY <1>6, <2>1, <2>4 DEF Nothing
  <2> QED BY <1>4, <2>5, LengthKnownCases
<1>7. CASE Nothing(t, p, r) /\ c = CONTENT_LENGTH
  <2>1. LengthLines(u, r, Len(u) + 1) = LengthLines(t, r, Len(t) + 1) \cup {Len(u)}
    BY <1>7, LengthLinesNew
  <2>2. LengthLines(u, r, Len(u) + 1) = {Len(u)}
    BY <1>7, <2>1 DEF Nothing
  <2>3. FirstLine(u, r, Len(u))
    BY <1>1, <2>2 DEF FirstLine
  <2>4. FirstNamed(q, last + 1)
    <3>1. last + 1 \in 1..Len(q.headers) /\ (last + 1) - 1 = last
      BY <1>3
    <3>2. \A m \in 1..last : q.headers[m].name # <<CONTENT_LENGTH>>
      BY <1>2, <1>3, <1>7 DEF Nothing, Unnamed
    <3> QED BY <1>3, <1>7, <3>1, <3>2 DEF FirstNamed
  <2>5. Gathered(u, q, Len(u), last + 1)
    <3>1. ValuePlaces(u, Len(u), Len(u) + 1) = {}
      BY <1>1 DEF ValuePlaces
    <3>2. Selected(u, {}) = <<>>
      BY SelectedNone DEF Longer
    <3> QED BY <1>3, <3>1, <3>2 DEF Gathered
  <2>6. Continued(u, Len(u), Len(u)) /\ ~Indenting(u, Len(u), Len(u) + 1)
    BY <1>1 DEF Continued, Indenting
  <2>7. ValueOf(u, q, Len(u), last + 1)
    BY <1>3, <1>7, <2>5, <2>6 DEF ValueOf
  <2>8. Found(u, q, r, Len(u), last + 1) /\ Len(u) \in Nat /\ last + 1 \in Nat
    BY <1>1, <1>3, <2>3, <2>4, <2>7 DEF Found
  <2> QED BY <1>4, <2>8, LengthKnownCases
<1>8. ASSUME NEW f \in Nat, NEW n \in Nat, Found(t, p, r, f, n) PROVE Found(u, q, r, f, n)
  <2>1. FirstLine(t, r, f) /\ FirstNamed(p, n) /\ ValueOf(t, p, f, n)
    BY <1>8 DEF Found
  <2>2. FirstLine(u, r, f) /\ f <= Len(t)
    BY <2>1, FirstLineStays
  <2>3. n \in 1..last /\ n < Len(q.headers) /\ n \in 1..Len(q.headers)
        /\ \A m \in 1..(n - 1) : m \in 1..last
    BY <1>2, <1>3, <2>1 DEF FirstNamed
  <2>4. q.headers[n] = p.headers[n]
    BY <1>3, <2>3
  <2>5. FirstNamed(q, n)
    BY <1>3, <2>1, <2>3, <2>4 DEF FirstNamed
  <2>6. Gathered(t, p, f, n) /\ q.headers[n].value = p.headers[n].value
    BY <2>1, <2>4 DEF ValueOf
  <2>7. ValueOf(u, q, f, n)
    <3>1. CASE ~Continued(t, f, Len(t))
      BY <2>3, <2>6, <3>1, EndedStays
    <3>2. CASE Indenting(t, f, Len(t) + 1)
      <4>1. Len(t) > f + 1
        <5>1. PICK m \in (f + 2)..((Len(t) + 1) - 1) : TRUE
          BY <3>2 DEF Indenting
        <5> QED BY <1>1, <5>1
      <4>2. ~Continued(u, f, Len(u))
        BY <4>1, ContinuedStep
      <4>3. Gathered(u, q, f, n)
        BY <2>6, <4>2, LastPlace, GatheredStays
      <4> QED BY <2>3, <4>2, <4>3 DEF ValueOf
    <3> QED BY <2>1, <3>1, <3>2 DEF ValueOf
  <2> QED BY <2>2, <2>5, <2>7 DEF Found
<1> QED BY <1>4, <1>6, <1>7, <1>8, LengthKnownCases

-----------------------------------------------------------------------------
(* The blank line: the number the parser reads is the one announced.       *)

LEMMA StoullNothing == stoull(<<>>) = 0
<1> DEFINE step(f, i) == IF i = 0 THEN 0
                         ELSE IF i \in NumberPlaces(<<>>) THEN 10 * f[i - 1] + Digits[<<>>[i]]
                         ELSE f[i - 1]
           value == CHOOSE f : f = [i \in 0..Len(<<>>) |-> step(f, i)]
<1>1. \E f : f = [i \in 0..Len(<<>>) |-> step(f, i)]
  <2> DEFINE f == [i \in 0..0 |-> 0]
  <2>1. f = [i \in 0..Len(<<>>) |-> step(f, i)]
    OBVIOUS
  <2> QED BY <2>1
<1>2. value = [i \in 0..Len(<<>>) |-> step(value, i)]
  BY <1>1
<1>3. stoull(<<>>) = IF value[Len(<<>>)] \in 0..ULLONG_MAX THEN value[Len(<<>>)] ELSE 0
  BY Zenon DEF stoull
<1> HIDE DEF value
<1>4. value[Len(<<>>)] = 0
  BY <1>2
<1> QED BY <1>3, <1>4

LEMMA HeaderValueFound ==
  ASSUME NEW p \in Parser, NEW n \in Nat, FirstNamed(p, n)
  PROVE  GetHeaderValue(p, CONTENT_LENGTH) = p.headers[n].value
<1> DEFINE named == {i \in 1..Len(p.headers) : p.headers[i].name = <<CONTENT_LENGTH>>}
<1>0. Len(p.headers) \in Nat
  BY HeadersTyped
<1>1. n \in named
  BY DEF FirstNamed
<1>2. ASSUME NEW m \in named PROVE n <= m
  <2>1. ~(m \in 1..(n - 1))
    BY DEF FirstNamed
  <2> QED BY <1>0, <2>1
<1>3. GetHeaderValue(p, CONTENT_LENGTH) =
        IF named = {} THEN <<>>
        ELSE p.headers[CHOOSE i \in named : \A j \in named : i <= j].value
  BY DEF GetHeaderValue
<1>4. named \subseteq Nat
  OBVIOUS
<1> HIDE DEF named
<1>5. FirstOf(named) = n
  BY <1>1, <1>2, <1>4, FirstOfIs
<1>6. (CHOOSE i \in named : \A j \in named : i <= j) = n
  BY <1>5, Zenon DEF FirstOf
<1> QED BY <1>1, <1>3, <1>6

LEMMA HeaderValueNone ==
  ASSUME NEW p \in Parser, Unnamed(p)
  PROVE  GetHeaderValue(p, CONTENT_LENGTH) = <<>>
<1>1. {i \in 1..Len(p.headers) : p.headers[i].name = <<CONTENT_LENGTH>>} = {}
  BY DEF Unnamed
<1> QED BY <1>1 DEF GetHeaderValue

LEMMA LengthRead ==
  ASSUME NEW p \in Parser, NEW t \in Text, NEW r \in Nat \ {0}, LengthKnown(t, p, r)
  PROVE  stoull(GetHeaderValue(p, CONTENT_LENGTH)) = AnnouncedLength(t, r, Len(t) + 1)
<1>1. PICK lines : lines = LengthLines(t, r, Len(t) + 1)
  OBVIOUS
<1>2. Len(t) \in Nat /\ lines \subseteq Nat
  BY <1>1 DEF Text, LengthLines
<1>3. CASE Nothing(t, p, r)
  <2>1. lines = {} /\ GetHeaderValue(p, CONTENT_LENGTH) = <<>>
    BY <1>1, <1>3, HeaderValueNone DEF Nothing
  <2>2. AnnouncedLength(t, r, Len(t) + 1) = 0
    BY <1>1, <2>1, Zenon DEF AnnouncedLength
  <2> QED BY <2>1, <2>2, StoullNothing
<1>4. ASSUME NEW f \in Nat, NEW n \in Nat, Found(t, p, r, f, n)
      PROVE  stoull(GetHeaderValue(p, CONTENT_LENGTH)) = AnnouncedLength(t, r, Len(t) + 1)
  <2>1. FirstLine(t, r, f) /\ FirstNamed(p, n) /\ ValueOf(t, p, f, n)
    BY <1>4 DEF Found
  <2>2. f \in lines /\ lines # {} /\ \A k \in lines : f <= k
    BY <1>1, <2>1 DEF FirstLine
  <2>3. FirstOf(lines) = f
    BY <1>2, <2>2, FirstOfIs
  <2>4. GetHeaderValue(p, CONTENT_LENGTH) = Selected(t, ValuePlaces(t, f, Len(t) + 1))
    BY <2>1, HeaderValueFound DEF ValueOf, Gathered
  <2>5. AnnouncedLength(t, r, Len(t) + 1) = stoull(Selected(t, ValuePlaces(t, f, Len(t) + 1)))
    BY <1>1, <2>2, <2>3, Zenon DEF AnnouncedLength
  <2> QED BY <2>4, <2>5
<1> QED BY <1>3, <1>4, LengthKnownCases

-----------------------------------------------------------------------------
(* The header states and the body                                          *)

LEMMA TargetStays ==
  ASSUME NEW p, NEW q, NEW t, NEW c, NEW u, Longer(t, c, u), NEW a \in 1..Len(t),
         NEW b \in 1..Len(t), NEW r \in 1..Len(t), TargetIs(t, p, a, b, r), q.uri = p.uri
  PROVE  /\ a \in 1..Len(u) /\ b \in 1..Len(u) /\ r \in 1..Len(u)
         /\ TargetIs(u, q, a, b, r)
<1>1. Len(t) \in Nat /\ Len(u) = Len(t) + 1
  BY LongerLen
<1>2. RequestLine(u, a, b, r)
  BY RequestLineLonger DEF TargetIs
<1>3. SubSeq(u, a + 1, b - 1) = SubSeq(t, a + 1, b - 1)
  <2>1. PICK m \in Nat \ {0}, n \in Int : m = a + 1 /\ n = b - 1 /\ n <= Len(t)
    BY <1>1
  <2>2. SubSeq(u, m, n) = SubSeq(t, m, n)
    BY <2>1, SubSeqLonger
  <2> QED BY <2>1, <2>2
<1>4. q.uri = SubSeq(u, a + 1, b - 1)
  BY <1>3, Zenon DEF TargetIs
<1> QED BY <1>1, <1>2, <1>4 DEF TargetIs

LEMMA HeaderFits ==
  ASSUME NEW o, NEW p, NEW t, NEW c, NEW u, Longer(t, c, u),
         NEW a \in 1..Len(t), NEW b \in 1..Len(t), NEW r \in 1..Len(t), TargetIs(t, p, a, b, r),
         o.result = "undefined", o.parser.state \in HeaderStates, o.parser.uri = p.uri,
         HeaderLines(u, o.parser, r), LengthKnown(u, o.parser, r),
         NoBlankLine(t), ~(LineEnd(t, Len(t)) /\ c = CRLF),
         o.parser.state # "_header_start" => c # CRLF
  PROVE  Fits(o, u)
<1>1. NoBlankLine(u) /\ (o.parser.state # "_header_start" => ~LineEnd(u, Len(u)))
  BY NoBlankLineStep, LastLonger
<1>2. InHeaders(u, o.parser)
  BY TargetStays DEF InHeaders
<1>3. o.parser.state \notin RequestLineStates /\ o.parser.state # "_body"
  BY DEF HeaderStates, RequestLineStates
<1> QED BY <1>1, <1>2, <1>3 DEF Fits, Describes

LEMMA VersionMinorFits ==
  ASSUME NEW p \in Parser, NEW t, NEW c, NEW u, Longer(t, c, u), Describes(t, p),
         p.state = "_version_minor"
  PROVE  Fits(NextCharHandler(p, c), u)
<1>1. p.headers = <<>> /\ NoBlankLine(t) /\ ~LineEnd(t, Len(t))
  BY DEF Describes, InRequestLine, RequestLineStates
<1>2. PICK a \in 1..Len(t), b \in 1..Len(t) :
         /\ MethodPart(t, a) /\ TargetPart(t, a, b) /\ Blank(t, b)
         /\ b < Len(t) /\ t[b + 1] = VERSION
         /\ \A i \in (b + 2)..Len(t) : t[i] \in DOMAIN Digits
         /\ p.uri = SubSeq(t, a + 1, b - 1)
  BY DEF Describes, InRequestLine, RequestLineStates
<1>3. Len(t) \in Nat /\ Len(u) = Len(t) + 1 /\ u[Len(u)] = c /\ u \in Text
  BY LongerLen, LastLonger DEF Longer
<1>4. a \in 1..Len(u) /\ b \in 1..Len(u) /\ b <= Len(t) + 1 /\ b \in Nat
      /\ b + 1 \in 1..Len(t) /\ \A i \in (b + 2)..Len(t) : i \in 1..Len(t)
  BY <1>2, <1>3
<1>5. /\ MethodPart(u, a) /\ TargetPart(u, a, b) /\ Blank(u, b) /\ u[b + 1] = VERSION
      /\ \A i \in (b + 2)..Len(t) : u[i] \in DOMAIN Digits
  <2>1. MethodPart(u, a) /\ TargetPart(u, a, b) /\ Blank(u, b)
    BY <1>2, <1>3, <1>4, MethodPartLonger, TargetPartLonger, PositionsLonger
  <2>2. u[b + 1] = VERSION /\ \A i \in (b + 2)..Len(t) : u[i] \in DOMAIN Digits
    BY <1>2, <1>4 DEF Longer
  <2> QED BY <2>1, <2>2
<1>6. SubSeq(u, a + 1, b - 1) = p.uri
  <2>1. a + 1 \in Nat \ {0} /\ b - 1 \in Int /\ b - 1 <= Len(t)
    BY <1>3
  <2>2. SubSeq(u, a + 1, b - 1) = SubSeq(t, a + 1, b - 1)
    BY <2>1, SubSeqLonger
  <2> QED BY <1>2, <2>2, Zenon
<1>7. CASE c = CRLF
  <2>1. PICK o : o = Goto(p, "_header_start")
    OBVIOUS
  <2>2. o.result = "undefined" /\ o.parser.state = "_header_start" /\ o.parser.uri = p.uri
        /\ o.parser.headers = <<>>
    BY <1>1, <2>1, GotoFields
  <2>3. NextCharHandler(p, c) = o
    BY <1>7, <2>1 DEF NextCharHandler
  <2>4. PICK r : r = Len(u)
    OBVIOUS
  <2>5. r \in 1..Len(u) /\ b + 1 < r /\ LineEnd(u, r) /\ r - 1 = Len(t)
    BY <1>2, <1>3, <1>7, <2>4, LastLonger
  <2>6. RequestLine(u, a, b, r)
    BY <1>5, <2>5 DEF RequestLine, VersionPart
  <2>7. TargetIs(u, o.parser, a, b, r)
    BY <1>6, <2>2, <2>6, Zenon DEF TargetIs
  <2>8. LinesDone(u, r, Len(u))
    BY <1>3, <2>4 DEF LinesDone
  <2>9. HeaderLines(u, o.parser, r)
    <3>1. ~(Len(u) > r)
      BY <1>3, <2>4
    <3> QED BY <2>2, <2>4, <2>5, <2>8, <3>1 DEF HeaderLines
  <2>10. LengthKnown(u, o.parser, r)
    <3>1. LengthLines(u, r, Len(u) + 1) = {}
      BY <1>3, <2>4 DEF LengthLines
    <3>2. Unnamed(o.parser)
      BY <2>2 DEF Unnamed
    <3> QED BY <2>2, <3>1, <3>2, LengthKnownCases DEF Nothing
  <2>11. NoBlankLine(u)
    BY <1>1, NoBlankLineStep
  <2>12. InHeaders(u, o.parser)
    BY <1>4, <2>5, <2>7, <2>9, <2>10 DEF InHeaders
  <2>13. Describes(u, o.parser)
    BY <2>2, <2>11, <2>12 DEF Describes, RequestLineStates
  <2> QED BY <2>2, <2>3, <2>13 DEF Fits
<1>8. CASE c \in DOMAIN Digits
  <2>1. PICK o : o = Undefined(p)
    OBVIOUS
  <2>2. o.result = "undefined" /\ o.parser = p
    BY <2>1 DEF Undefined
  <2>3. c # CRLF
    BY <1>8, LexemeKinds DEF Tokens
  <2>4. NextCharHandler(p, c) = o
    BY <1>8, <2>1, <2>3 DEF NextCharHandler
  <2>5. NoBlankLine(u) /\ ~LineEnd(u, Len(u))
    BY <1>1, <2>3, NoBlankLineStep, LastLonger
  <2>6. b < Len(u) /\ \A i \in (b + 2)..Len(u) : i \in (b + 2)..Len(t) \/ i = Len(u)
    BY <1>2, <1>3
  <2>7. \A i \in (b + 2)..Len(u) : u[i] \in DOMAIN Digits
    BY <1>3, <1>5, <1>8, <2>6
  <2>8. InRequestLine(u, p)
    BY <1>1, <1>4, <1>5, <1>6, <2>6, <2>7 DEF InRequestLine
  <2>9. p.state \in RequestLineStates
    BY DEF RequestLineStates
  <2> QED BY <2>2, <2>4, <2>5, <2>8, <2>9, RequestLineFits
<1>9. CASE c # CRLF /\ c \notin DOMAIN Digits
  <2>1. NextCharHandler(p, c) = Bad(p)
    BY <1>9 DEF NextCharHandler
  <2> QED BY <1>1, <2>1, FitsBad
<1> QED BY <1>7, <1>8, <1>9

\* What Describes says in a header state
Heading(t, p, a, b, r) ==
    /\ a \in 1..Len(t) /\ b \in 1..Len(t) /\ r \in 1..Len(t) /\ TargetIs(t, p, a, b, r)
    /\ HeaderLines(t, p, r) /\ LengthKnown(t, p, r)
    /\ r \in Nat \ {0} /\ r <= Len(t)
    /\ NoBlankLine(t) /\ (p.state # "_header_start" => ~LineEnd(t, Len(t)))

LEMMA HeadingPart ==
  ASSUME NEW p \in Parser, NEW t \in Text, Describes(t, p), p.state \in HeaderStates
  PROVE  \E a, b, r : Heading(t, p, a, b, r)
<1>1. InHeaders(t, p) /\ NoBlankLine(t) /\ (p.state # "_header_start" => ~LineEnd(t, Len(t)))
  BY DEF Describes, HeaderStates
<1>2. PICK a \in 1..Len(t), b \in 1..Len(t), r \in 1..Len(t) :
         /\ TargetIs(t, p, a, b, r)
         /\ HeaderLines(t, p, r) /\ LengthKnown(t, p, r)
  BY <1>1 DEF InHeaders
<1>3. r \in Nat \ {0} /\ r <= Len(t)
  BY DEF Text
<1>4. Heading(t, p, a, b, r)
  BY <1>1, <1>2, <1>3 DEF Heading
<1> QED BY <1>4

LEMMA HeaderValueFits ==
  ASSUME NEW p \in Parser, WellFormed(p), NEW t, NEW c, NEW u, Longer(t, c, u), Describes(t, p),
         p.state \in {"_header_lws", "_header_value"}
  PROVE  Fits(NextCharHandler(p, c), u)
<1>1. t \in Text /\ c \in Lexemes /\ Len(t) \in Nat /\ Len(u) = Len(t) + 1 /\ p.headers # <<>>
  BY LongerLen DEF Longer, WellFormed
<1>2. PICK a, b, r : Heading(t, p, a, b, r)
  BY <1>1, HeadingPart DEF HeaderStates
<1>4. /\ a \in 1..Len(t) /\ b \in 1..Len(t) /\ r \in 1..Len(t) /\ TargetIs(t, p, a, b, r)
      /\ LengthKnown(t, p, r) /\ r \in Nat \ {0} /\ r <= Len(t)
      /\ NoBlankLine(t) /\ ~LineEnd(t, Len(t))
      /\ Len(t) > r /\ LinesDone(t, r, Len(t))
  BY <1>2 DEF Heading, HeaderLines
<1>5. LinesDone(u, r, Len(u)) /\ Len(u) > r
  BY <1>1, <1>4, LinesDoneInLine
<1>6. CASE c = CRLF
  <2>1. PICK o : o = Goto(p, "_header_start")
    OBVIOUS
  <2>2. o.result = "undefined" /\ o.parser.state = "_header_start" /\ o.parser.uri = p.uri
        /\ o.parser.headers = p.headers
    BY <2>1, GotoFields
  <2>3. NextCharHandler(p, c) = o
    BY <1>6, <2>1 DEF NextCharHandler
  <2>4. LineEnd(u, Len(u))
    BY <1>6, LastLonger
  <2>5. HeaderLines(u, o.parser, r)
    BY <1>1, <1>5, <2>2, <2>4 DEF HeaderLines
  <2>6. LengthKnown(u, o.parser, r)
    BY <1>4, <1>6, <2>2, LengthKept, LexemeKinds DEF HeaderStates
  <2>7. o.parser.state \in HeaderStates
    BY <2>2 DEF HeaderStates
  <2> QED BY <1>4, <2>2, <2>3, <2>5, <2>6, <2>7, HeaderFits
<1>7. CASE c = SP /\ p.state = "_header_lws"
  <2>1. PICK o : o = Undefined(p)
    OBVIOUS
  <2>2. o.result = "undefined" /\ o.parser = p
    BY <2>1 DEF Undefined
  <2>3. NextCharHandler(p, c) = o
    BY <1>7, <2>1, LexemeKinds DEF NextCharHandler
  <2>4. HeaderLines(u, o.parser, r)
    BY <1>5, <1>7, <2>2 DEF HeaderLines
  <2>5. LengthKnown(u, o.parser, r)
    BY <1>4, <1>7, <2>2, LengthKept, LexemeKinds DEF HeaderStates
  <2>6. o.parser.state \in HeaderStates
    BY <2>2 DEF HeaderStates
  <2> QED BY <1>4, <1>7, <2>2, <2>3, <2>4, <2>5, <2>6, HeaderFits, LexemeKinds
<1>8. CASE c # CRLF /\ (p.state = "_header_lws" => c # SP)
  <2>1. PICK o : o = PushValue(p, c)
    OBVIOUS
  <2>2. o.result = "undefined" /\ o.parser.state = "_header_value" /\ o.parser.uri = p.uri
        /\ ValuePushed(p, o.parser, c)
    BY <1>1, <2>1, PushValueFields
  <2>3. NextCharHandler(p, c) = o
    BY <1>8, <2>1 DEF NextCharHandler
  <2>4. HeaderLines(u, o.parser, r)
    BY <1>5, <2>2 DEF HeaderLines
  <2>5. LengthKnown(u, o.parser, r)
    BY <1>4, <1>8, <2>2, LengthPushed
  <2>6. o.parser.state \in HeaderStates
    BY <2>2 DEF HeaderStates
  <2> QED BY <1>4, <1>8, <2>2, <2>3, <2>4, <2>5, <2>6, HeaderFits
<1> QED BY <1>6, <1>7, <1>8

LEMMA SpaceFits ==
  ASSUME NEW p \in Parser, NEW t, NEW c, NEW u, Longer(t, c, u), Describes(t, p),
         p.state = "_space_before_header_value"
  PROVE  Fits(NextCharHandler(p, c), u)
<1>1. t \in Text /\ c \in Lexemes /\ Len(t) \in Nat /\ Len(u) = Len(t) + 1
  BY LongerLen DEF Longer
<1>2. PICK a, b, r : Heading(t, p, a, b, r)
  BY <1>1, HeadingPart DEF HeaderStates
<1>4. /\ a \in 1..Len(t) /\ b \in 1..Len(t) /\ r \in 1..Len(t) /\ TargetIs(t, p, a, b, r)
      /\ LengthKnown(t, p, r) /\ r \in Nat \ {0} /\ r <= Len(t)
      /\ NoBlankLine(t) /\ ~LineEnd(t, Len(t))
      /\ t[Len(t)] \in FieldNames
      /\ \E j \in 1..Len(t) : NameFrom(t, r, j, Len(t) - 1)
  BY <1>2 DEF Heading, HeaderLines
<1>5. CASE c = SP
  <2>1. PICK o : o = Goto(p, "_header_value")
    OBVIOUS
  <2>2. o.result = "undefined" /\ o.parser.state = "_header_value" /\ o.parser.uri = p.uri
        /\ o.parser.headers = p.headers
    BY <2>1, GotoFields
  <2>3. NextCharHandler(p, c) = o
    BY <1>5, <2>1 DEF NextCharHandler
  <2>4. LinesDone(u, r, Len(u)) /\ Len(u) > r
    BY <1>1, <1>4, <1>5, NameEnds
  <2>5. HeaderLines(u, o.parser, r)
    BY <2>2, <2>4 DEF HeaderLines
  <2>6. LengthKnown(u, o.parser, r)
    BY <1>4, <1>5, <2>2, LengthKept, LexemeKinds DEF HeaderStates
  <2>7. o.parser.state \in HeaderStates
    BY <2>2 DEF HeaderStates
  <2> QED BY <1>4, <1>5, <2>2, <2>3, <2>5, <2>6, <2>7, HeaderFits, LexemeKinds
<1>6. CASE c # SP
  <2>1. NextCharHandler(p, c) = Bad(p)
    BY <1>6 DEF NextCharHandler
  <2> QED BY <1>4, <2>1, FitsBad
<1> QED BY <1>5, <1>6

LEMMA HeaderNameFits ==
  ASSUME NEW p \in Parser, WellFormed(p), NEW t, NEW c, NEW u, Longer(t, c, u), Describes(t, p),
         p.state = "_header_name"
  PROVE  Fits(NextCharHandler(p, c), u)
<1>1. t \in Text /\ c \in Lexemes /\ Len(t) \in Nat /\ Len(u) = Len(t) + 1 /\ p.headers # <<>>
  BY LongerLen DEF Longer, WellFormed
<1>2. PICK a, b, r : Heading(t, p, a, b, r)
  BY <1>1, HeadingPart DEF HeaderStates
<1>4. /\ a \in 1..Len(t) /\ b \in 1..Len(t) /\ r \in 1..Len(t) /\ TargetIs(t, p, a, b, r)
      /\ LengthKnown(t, p, r) /\ r \in Nat \ {0} /\ r <= Len(t)
      /\ NoBlankLine(t) /\ ~LineEnd(t, Len(t))
      /\ \E j \in 1..Len(t) : NameFrom(t, r, j, Len(t))
  BY <1>2 DEF Heading, HeaderLines
<1>5. PICK j \in 1..Len(t) : NameFrom(t, r, j, Len(t))
  BY <1>4
<1>6. j \in 1..Len(u) /\ Len(u) - 1 = Len(t) /\ u[Len(u)] = c
  BY <1>1, LastLonger
<1>7. CASE c \in FieldNames
  <2>1. PICK o : o = PushName(p, "_space_before_header_value", c)
    OBVIOUS
  <2>2. o.result = "undefined" /\ o.parser.state = "_space_before_header_value"
        /\ o.parser.uri = p.uri /\ NamePushed(p, o.parser, c)
    BY <1>1, <2>1, PushNameFields
  <2>3. NextCharHandler(p, c) = o
    BY <1>7, <2>1 DEF NextCharHandler
  <2>4. NameFrom(u, r, j, Len(t))
    BY <1>1, <1>4, <1>5, NameFromLonger
  <2>5. HeaderLines(u, o.parser, r)
    BY <1>6, <1>7, <2>2, <2>4 DEF HeaderLines
  <2>6. LengthKnown(u, o.parser, r)
    BY <1>1, <1>4, <2>2, LengthNamed
  <2>7. o.parser.state \in HeaderStates /\ c # CRLF
    BY <1>7, <2>2, LexemeKinds DEF HeaderStates
  <2> QED BY <1>4, <2>2, <2>3, <2>5, <2>6, <2>7, HeaderFits
<1>8. CASE c \in Tokens
  <2>1. PICK o : o = PushName(p, "_header_name", c)
    OBVIOUS
  <2>2. o.result = "undefined" /\ o.parser.state = "_header_name"
        /\ o.parser.uri = p.uri /\ NamePushed(p, o.parser, c)
    BY <1>1, <2>1, PushNameFields
  <2>3. c \notin FieldNames
    BY <1>8, LexemeKinds
  <2>4. NextCharHandler(p, c) = o
    BY <1>8, <2>1, <2>3 DEF NextCharHandler
  <2>5. NameFrom(u, r, j, Len(u))
    BY <1>4, <1>5, <1>8, NameFromMore
  <2>6. HeaderLines(u, o.parser, r)
    BY <1>6, <2>2, <2>5 DEF HeaderLines
  <2>7. LengthKnown(u, o.parser, r)
    BY <1>1, <1>4, <2>2, LengthNamed
  <2>8. o.parser.state \in HeaderStates /\ c # CRLF
    BY <1>8, <2>2, LexemeKinds DEF HeaderStates
  <2> QED BY <1>4, <2>2, <2>4, <2>6, <2>7, <2>8, HeaderFits
<1>9. CASE c \notin FieldNames /\ c \notin Tokens
  <2>1. NextCharHandler(p, c) = Bad(p)
    BY <1>9 DEF NextCharHandler
  <2> QED BY <1>4, <2>1, FitsBad
<1> QED BY <1>7, <1>8, <1>9

LEMMA BlankLineFits ==
  ASSUME NEW p \in Parser, NEW t, NEW u, Longer(t, CRLF, u),
         NEW a \in 1..Len(t), NEW b \in 1..Len(t), NEW r \in 1..Len(t), TargetIs(t, p, a, b, r),
         LinesDone(t, r, Len(t)), LineEnd(t, Len(t)), LengthKnown(t, p, r)
  PROVE  Fits(EndOfHeaders(p), u)
<1>1. t \in Text /\ u \in Text /\ Len(t) \in Nat /\ Len(u) = Len(t) + 1 /\ Len(u) - 1 = Len(t)
  BY LongerLen DEF Longer
<1>3. r \in Nat \ {0} /\ r <= Len(t)
  BY <1>1
<1>4. PICK n \in Nat : n = stoull(GetHeaderValue(p, CONTENT_LENGTH))
  BY StoullType, HeaderValueType
<1>5. AnnouncedLength(u, r, Len(u)) = n
  <2>1. AnnouncedLength(t, r, Len(t) + 1) = n
    BY <1>1, <1>3, <1>4, LengthRead
  <2>2. AnnouncedLength(u, r, Len(t) + 1) = AnnouncedLength(t, r, Len(t) + 1)
    BY <1>1, <1>3, AnnouncedLonger
  <2> QED BY <1>1, <2>1, <2>2
<1>6. HeaderSection(u, r, Len(u))
  <2>1. LineEnd(u, Len(u)) /\ LineEnd(u, Len(u) - 1)
    BY <1>1, LastLonger, PositionsLonger
  <2>2. LinesDone(u, r, Len(u) - 1)
    BY <1>1, <1>3, LinesDoneLonger
  <2> QED BY <2>1, <2>2, HeaderSectionLines
<1>7. Len(u) \in (r + 1)..Len(u)
  BY <1>1, <1>3
<1>8. CASE n > 0
  <2>1. PICK q : q = [p EXCEPT !.state = "_body", !.remaining = n]
    OBVIOUS
  <2>2. q.state = "_body" /\ q.remaining = n /\ q.uri = p.uri
    BY <2>1 DEF Parser
  <2>3. EndOfHeaders(p) = Undefined(q)
    BY <1>4, <1>8, <2>1 DEF EndOfHeaders
  <2>4. a \in 1..Len(u) /\ b \in 1..Len(u) /\ r \in 1..Len(u) /\ TargetIs(u, q, a, b, r)
    BY <2>2, TargetStays
  <2>5. AnnouncedLength(u, r, Len(u)) = (Len(u) - Len(u)) + q.remaining
    BY <1>1, <1>5, <2>2
  <2>6. InBody(u, q)
    BY <1>6, <1>7, <2>4, <2>5 DEF InBody
  <2>7. Describes(u, q)
    BY <2>2, <2>6 DEF Describes, RequestLineStates, HeaderStates
  <2> QED BY <2>3, <2>7, FitsUndefined
<1>9. CASE n = 0
  <2>1. PICK q : q = [p EXCEPT !.remaining = n]
    OBVIOUS
  <2>2. q.uri = p.uri
    BY <2>1 DEF Parser
  <2>3. EndOfHeaders(p) = Good(q)
    BY <1>4, <1>9, <2>1 DEF EndOfHeaders
  <2>4. a \in 1..Len(u) /\ b \in 1..Len(u) /\ r \in 1..Len(u) /\ TargetIs(u, q, a, b, r)
    BY <2>2, TargetStays
  <2>5. Len(u) - Len(u) = AnnouncedLength(u, r, Len(u))
    BY <1>1, <1>5, <1>9
  <2>6. RequestLine(u, a, b, r) /\ q.uri = SubSeq(u, a + 1, b - 1)
    BY <2>4, Zenon DEF TargetIs
  <2>7. \E e \in (r + 1)..Len(u) : /\ HeaderSection(u, r, e)
                                  /\ Len(u) - e = AnnouncedLength(u, r, e)
    BY <1>6, <1>7, <2>5
  <2>8. IsRequest(u, q.uri)
    BY <2>4, <2>6, <2>7, IsRequestParts, Zenon
  <2> QED BY <2>3, <2>8 DEF Fits, Good
<1> QED BY <1>4, <1>8, <1>9

LEMMA HeaderStartFits ==
  ASSUME NEW p \in Parser, NEW t, NEW c, NEW u, Longer(t, c, u), Describes(t, p),
         p.state = "_header_start"
  PROVE  Fits(NextCharHandler(p, c), u)
<1>1. t \in Text /\ c \in Lexemes /\ Len(t) \in Nat /\ Len(u) = Len(t) + 1
      /\ u[Len(u)] = c /\ Len(u) \in 1..Len(u)
  BY LongerLen, LastLonger DEF Longer
<1>2. PICK a, b, r : Heading(t, p, a, b, r)
  BY <1>1, HeadingPart DEF HeaderStates
<1>4. /\ a \in 1..Len(t) /\ b \in 1..Len(t) /\ r \in 1..Len(t) /\ TargetIs(t, p, a, b, r)
      /\ LengthKnown(t, p, r) /\ r \in Nat \ {0} /\ r <= Len(t)
      /\ NoBlankLine(t) /\ LineEnd(t, Len(t)) /\ LinesDone(t, r, Len(t))
      /\ p.headers # <<>> <=> Len(t) > r
  BY <1>2 DEF Heading, HeaderLines
<1>5. CASE c = CRLF
  <2>1. NextCharHandler(p, c) = EndOfHeaders(p)
    BY <1>5 DEF NextCharHandler
  <2> QED BY <1>4, <1>5, <2>1, BlankLineFits
<1>6. CASE c = SP /\ p.headers # <<>>
  <2>1. PICK o : o = Goto(p, "_header_lws")
    OBVIOUS
  <2>2. o.result = "undefined" /\ o.parser.state = "_header_lws" /\ o.parser.uri = p.uri
        /\ o.parser.headers = p.headers
    BY <2>1, GotoFields
  <2>3. NextCharHandler(p, c) = o
    BY <1>6, <2>1, LexemeKinds DEF NextCharHandler
  <2>4. LinesDone(u, r, Len(u)) /\ Len(u) > r
    BY <1>1, <1>4, <1>6, LinesDoneFolded
  <2>5. HeaderLines(u, o.parser, r)
    BY <2>2, <2>4 DEF HeaderLines
  <2>6. LengthKnown(u, o.parser, r)
    BY <1>4, <1>6, <2>2, LengthKept, LexemeKinds DEF HeaderStates
  <2>7. o.parser.state \in HeaderStates
    BY <2>2 DEF HeaderStates
  <2> QED BY <1>4, <1>6, <2>2, <2>3, <2>5, <2>6, <2>7, HeaderFits, LexemeKinds
<1>7. CASE c \in FieldNames
  <2>1. PICK o : o = NewHeader(p, "_space_before_header_value", c)
    OBVIOUS
  <2>2. o.result = "undefined" /\ o.parser.state = "_space_before_header_value"
        /\ o.parser.uri = p.uri /\ HeaderAdded(p, o.parser, c)
    BY <1>1, <2>1, NewHeaderFields
  <2>3. c # CRLF /\ c # SP
    BY <1>7, LexemeKinds
  <2>4. NextCharHandler(p, c) = o
    BY <1>7, <2>1, <2>3 DEF NextCharHandler
  <2>5. NameFrom(u, r, Len(u), Len(u) - 1)
    BY <1>4, NameStarts
  <2>6. HeaderLines(u, o.parser, r)
    BY <1>1, <1>7, <2>2, <2>5 DEF HeaderLines
  <2>7. LengthKnown(u, o.parser, r)
    BY <1>4, <2>2, <2>3, LengthAdded
  <2>8. o.parser.state \in HeaderStates
    BY <2>2 DEF HeaderStates
  <2> QED BY <1>4, <2>2, <2>3, <2>4, <2>6, <2>7, <2>8, HeaderFits
<1>8. CASE c \in Tokens
  <2>1. PICK o : o = NewHeader(p, "_header_name", c)
    OBVIOUS
  <2>2. o.result = "undefined" /\ o.parser.state = "_header_name"
        /\ o.parser.uri = p.uri /\ HeaderAdded(p, o.parser, c)
    BY <1>1, <2>1, NewHeaderFields
  <2>3. c # CRLF /\ c # SP /\ c \notin FieldNames /\ c # CONTENT_LENGTH
    BY <1>8, LexemeKinds, LexemesAssumption
  <2>4. NextCharHandler(p, c) = o
    BY <1>8, <2>1, <2>3 DEF NextCharHandler
  <2>5. NameFrom(u, r, Len(u), Len(u))
    BY <1>4, <1>8, NameStarts
  <2>6. HeaderLines(u, o.parser, r)
    BY <1>1, <2>2, <2>5 DEF HeaderLines
  <2>7. LengthKnown(u, o.parser, r)
    BY <1>4, <1>8, <2>2, <2>3, LengthAdded
  <2>8. o.parser.state \in HeaderStates
    BY <2>2 DEF HeaderStates
  <2> QED BY <1>4, <2>2, <2>3, <2>4, <2>6, <2>7, <2>8, HeaderFits
<1>9. CASE /\ c # CRLF /\ ~(c = SP /\ p.headers # <<>>)
           /\ c \notin FieldNames /\ c \notin Tokens
  <2>1. NextCharHandler(p, c) = Bad(p)
    BY <1>9 DEF NextCharHandler
  <2> QED BY <1>4, <1>9, <2>1, FitsBad
<1> QED BY <1>5, <1>6, <1>7, <1>8, <1>9

LEMMA BodyFits ==
  ASSUME NEW p \in Parser, WellFormed(p), NEW t, NEW c, NEW u, Longer(t, c, u), Describes(t, p),
         p.state = "_body"
  PROVE  Fits(NextCharHandler(p, c), u)
<1>1. /\ t \in Text /\ Len(t) \in Nat /\ Len(u) = Len(t) + 1
      /\ p.remaining \in Nat /\ p.remaining > 0
  BY LongerLen DEF Longer, WellFormed, Parser
<1>2. PICK a \in 1..Len(t), b \in 1..Len(t), r \in 1..Len(t) :
         /\ TargetIs(t, p, a, b, r)
         /\ \E e \in (r + 1)..Len(t) :
               /\ HeaderSection(t, r, e)
               /\ AnnouncedLength(t, r, e) = (Len(t) - e) + p.remaining
  BY DEF Describes, InBody
<1>3. PICK e \in (r + 1)..Len(t) :
         /\ HeaderSection(t, r, e)
         /\ AnnouncedLength(t, r, e) = (Len(t) - e) + p.remaining
  BY <1>2
<1>4. r \in Nat \ {0} /\ e \in Nat /\ e <= Len(t) /\ e \in (r + 1)..Len(u)
  BY <1>1
<1>5. HeaderSection(u, r, e)
  BY <1>3, <1>4, HeaderSectionLonger
<1>6. AnnouncedLength(u, r, e) = (Len(u) - e) + (p.remaining - 1)
  <2>1. AnnouncedLength(u, r, e) = AnnouncedLength(t, r, e)
    BY <1>1, <1>4, AnnouncedLonger
  <2> QED BY <1>1, <1>3, <1>4, <2>1
<1>7. PICK q : q = [p EXCEPT !.remaining = p.remaining - 1]
  OBVIOUS
<1>8. q.uri = p.uri /\ q.state = "_body" /\ q.remaining = p.remaining - 1
  BY <1>7 DEF Parser
<1>9. a \in 1..Len(u) /\ b \in 1..Len(u) /\ r \in 1..Len(u) /\ TargetIs(u, q, a, b, r)
  BY <1>2, <1>8, TargetStays
<1>10. NextCharHandler(p, c) = BodyChar(p)
  BY DEF NextCharHandler
<1>11. BodyChar(p) = IF q.remaining > 0 THEN Undefined(q) ELSE Good(q)
  BY <1>7 DEF BodyChar
<1>12. CASE q.remaining > 0
  <2>1. InBody(u, q)
    BY <1>4, <1>5, <1>6, <1>8, <1>9 DEF InBody
  <2>2. Describes(u, q)
    BY <1>8, <2>1 DEF Describes, RequestLineStates, HeaderStates
  <2> QED BY <1>10, <1>11, <1>12, <2>2, FitsUndefined
<1>13. CASE ~(q.remaining > 0)
  <2>1. Len(u) - e = AnnouncedLength(u, r, e)
    BY <1>1, <1>4, <1>6, <1>8, <1>13
  <2>2. RequestLine(u, a, b, r) /\ q.uri = SubSeq(u, a + 1, b - 1)
    BY <1>9, Zenon DEF TargetIs
  <2>3. \E x \in (r + 1)..Len(u) : /\ HeaderSection(u, r, x)
                                  /\ Len(u) - x = AnnouncedLength(u, r, x)
    BY <1>4, <1>5, <2>1
  <2>4. IsRequest(u, q.uri)
    BY <1>9, <2>2, <2>3, IsRequestParts, Zenon
  <2> QED BY <1>10, <1>11, <1>13, <2>4 DEF Fits, Good
<1> QED BY <1>12, <1>13

LEMMA NextCharFits ==
  ASSUME NEW p \in Parser, WellFormed(p), NEW t, NEW c, NEW u, Longer(t, c, u), Describes(t, p)
  PROVE  Fits(NextCharHandler(p, c), u)
<1>1. p.state \in States
  BY DEF Parser
<1>2. p.state \in {"_method_start", "_method", "_uri", "_version_h", "_version_minor",
                   "_header_start", "_header_name", "_space_before_header_value", "_body"}
      \/ p.state \in {"_header_lws", "_header_value"}
  BY <1>1 DEF States
<1> QED BY <1>2, MethodStartFits, MethodFits, UriFits, VersionFits, VersionMinorFits,
           HeaderStartFits, HeaderNameFits, SpaceFits, HeaderValueFits, BodyFits

-----------------------------------------------------------------------------
(* A text is split in one way only, so an unfinished body is no request.   *)

LEMMA RequestLineOnce ==
  ASSUME NEW t \in Text, NEW a \in 1..Len(t), NEW b \in 1..Len(t), NEW r \in 1..Len(t),
         NEW x \in 1..Len(t), NEW y \in 1..Len(t), NEW z \in 1..Len(t),
         RequestLine(t, a, b, r), RequestLine(t, x, y, z)
  PROVE  a = x /\ b = y /\ r = z
<1>1. ASSUME NEW i \in 1..Len(t), NEW k \in 1..Len(t), MethodPart(t, i), MethodPart(t, k)
      PROVE  ~(i < k)
  <2> SUFFICES ASSUME i < k PROVE FALSE
    OBVIOUS
  <2>1. i \in 1..(k - 1)
    OBVIOUS
  <2>2. t[i] \in Tokens /\ t[i] = SP
    BY <1>1, <2>1 DEF MethodPart, Blank
  <2> QED BY <2>2, LexemeKinds
<1>2. a = x
  <2>1. ~(a < x) /\ ~(x < a) /\ a \in Nat /\ x \in Nat
    BY <1>1 DEF RequestLine
  <2> QED BY <2>1
<1>3. ASSUME NEW j \in 1..Len(t), NEW l \in 1..Len(t), a < j, Blank(t, j), TargetPart(t, a, l)
      PROVE  ~(j < l)
  <2> SUFFICES ASSUME j < l PROVE FALSE
    OBVIOUS
  <2>1. j \in (a + 1)..(l - 1)
    BY <1>3
  <2> QED BY <1>3, <2>1 DEF TargetPart, Blank
<1>4. b = y
  <2>1. a < b /\ a < y /\ Blank(t, b) /\ Blank(t, y) /\ TargetPart(t, a, b) /\ TargetPart(t, a, y)
    BY <1>2 DEF RequestLine, TargetPart
  <2>2. ~(b < y) /\ ~(y < b) /\ b \in Nat /\ y \in Nat
    BY <1>3, <2>1
  <2> QED BY <2>2
<1>5. ASSUME NEW j \in 1..Len(t), NEW l \in 1..Len(t), VersionPart(t, b, j), VersionPart(t, b, l)
      PROVE  ~(j < l)
  <2> SUFFICES ASSUME j < l PROVE FALSE
    OBVIOUS
  <2>1. j \in (b + 2)..(l - 1)
    BY <1>5 DEF VersionPart
  <2>2. t[j] \in Tokens /\ t[j] = CRLF
    BY <1>5, <2>1 DEF VersionPart, LineEnd, Tokens
  <2> QED BY <2>2, LexemeKinds
<1>6. r = z
  <2>1. VersionPart(t, b, r) /\ VersionPart(t, b, z)
    BY <1>4 DEF RequestLine
  <2>2. ~(r < z) /\ ~(z < r) /\ r \in Nat /\ z \in Nat
    BY <1>5, <2>1
  <2> QED BY <2>2
<1> QED BY <1>2, <1>4, <1>6

LEMMA HeaderSectionOnce ==
  ASSUME NEW t \in Text, NEW r \in Nat, NEW d \in Nat, NEW e \in Nat, r < d, d < e,
         HeaderSection(t, r, d), HeaderSection(t, r, e)
  PROVE  FALSE
<1>1. d \in (r + 1)..(e - 1)
  OBVIOUS
<1>2. LineEnd(t, d) /\ LineEnd(t, d - 1) /\ t[d] = CRLF
  BY DEF HeaderSection, LineEnd
<1>3. HeaderLine(t, d) \/ Blank(t, d)
  BY <1>1, <1>2 DEF HeaderSection
<1>4. ~Blank(t, d)
  BY <1>2, LexemeKinds DEF Blank
<1>5. PICK k \in d..Len(t) : t[k] \in FieldNames /\ \A i \in d..(k - 1) : t[i] \in Tokens
  BY <1>3, <1>4 DEF HeaderLine
<1>6. CASE k = d
  BY <1>2, <1>5, <1>6, LexemeKinds
<1>7. CASE k # d
  <2>1. d \in d..(k - 1)
    BY <1>7
  <2> QED BY <1>2, <1>5, <2>1, LexemeKinds
<1> QED BY <1>6, <1>7

LEMMA BodyUnfinished ==
  ASSUME NEW p \in Parser, NEW t \in Text, InBody(t, p), p.remaining > 0, NEW uri
  PROVE  ~IsRequest(t, uri)
<1> SUFFICES ASSUME IsRequest(t, uri) PROVE FALSE
  OBVIOUS
<1>1. Len(t) \in Nat /\ p.remaining \in Nat
  BY DEF Text, Parser
<1>2. PICK a \in 1..Len(t), b \in 1..Len(t), r \in 1..Len(t) :
         /\ RequestLine(t, a, b, r)
         /\ \E e \in (r + 1)..Len(t) :
               /\ HeaderSection(t, r, e)
               /\ AnnouncedLength(t, r, e) = (Len(t) - e) + p.remaining
  BY DEF InBody, TargetIs
<1>3. PICK x \in 1..Len(t), y \in 1..Len(t), z \in 1..Len(t) :
         /\ RequestLine(t, x, y, z)
         /\ \E e \in (z + 1)..Len(t) : /\ HeaderSection(t, z, e)
                                       /\ Len(t) - e = AnnouncedLength(t, z, e)
  BY IsRequestParts, Zenon
<1>4. z = r
  BY <1>2, <1>3, RequestLineOnce
<1>5. PICK d \in (r + 1)..Len(t) :
         /\ HeaderSection(t, r, d)
         /\ AnnouncedLength(t, r, d) = (Len(t) - d) + p.remaining
  BY <1>2
<1>6. PICK e \in (r + 1)..Len(t) : /\ HeaderSection(t, r, e)
                                   /\ Len(t) - e = AnnouncedLength(t, r, e)
  BY <1>3, <1>4
<1>7. r \in Nat /\ d \in Nat /\ e \in Nat /\ r < d /\ r < e
  BY <1>1
<1>8. ~(d < e) /\ ~(e < d)
  BY <1>5, <1>6, <1>7, HeaderSectionOnce
<1>9. d = e
  BY <1>7, <1>8
<1> QED BY <1>1, <1>5, <1>6, <1>7, <1>9

-----------------------------------------------------------------------------
(* The invariant                                                           *)

LEMMA InitAgrees == Init => Agrees
<1> SUFFICES ASSUME Init PROVE Agrees
  OBVIOUS
<1>1. /\ result = "undefined" /\ input = <<>> /\ req_parser.state = "_method_start"
      /\ req_parser.uri = <<>> /\ req_parser.headers = <<>>
  BY DEF Init, FreshParser
<1>2. InRequestLine(input, req_parser)
  BY <1>1 DEF InRequestLine
<1>3. NoBlankLine(input) /\ ~LineEnd(input, Len(input))
  BY <1>1 DEF NoBlankLine, LineEnd
<1>4. Describes(input, req_parser)
  BY <1>1, <1>2, <1>3 DEF Describes, HeaderStates
<1> QED BY <1>1, <1>4 DEF Agrees

LEMMA NextAgrees == IInv /\ Agrees /\ [Next]_vars => Agrees'
<1> SUFFICES ASSUME IInv, Agrees, [Next]_vars PROVE Agrees'
  OBVIOUS
<1>1. ASSUME NEW c \in Lexemes, Feed(c) PROVE Agrees'
  <2>1. /\ result = "undefined" /\ req_parser \in Parser /\ WellFormed(req_parser)
        /\ input \in Text /\ Describes(input, req_parser)
    BY <1>1 DEF Feed, IInv, TypeOK, ParserWellFormed, Agrees
  <2>2. PICK o : o = NextCharHandler(req_parser, c)
    OBVIOUS
  <2>3. req_parser' = o.parser /\ result' = o.result /\ input' = Append(input, c)
    BY <1>1, <2>2 DEF Feed
  <2>4. PICK u : u = Append(input, c)
    OBVIOUS
  <2>5. Longer(input, c, u)
    BY <2>1, <2>4, AppendLonger
  <2>6. Fits(o, u)
    BY <2>1, <2>2, <2>5, NextCharFits
  <2> QED BY <2>3, <2>4, <2>6 DEF Fits, Agrees
<1>2. CASE UNCHANGED vars
  BY <1>2 DEF vars, Agrees
<1> QED BY <1>1, <1>2 DEF Next

LEMMA AgreesMatches == IInv /\ Agrees => ParseMatchesGrammar
<1> SUFFICES ASSUME IInv, Agrees PROVE ParseMatchesGrammar
  OBVIOUS
<1>1. req_parser \in Parser /\ input \in Text /\ result \in {"good", "bad", "undefined"}
  BY DEF IInv, TypeOK
<1>2. CASE result = "good"
  BY <1>2 DEF Agrees, ParseMatchesGrammar
<1>3. CASE result = "bad"
  <2>1. NoBlankLine(input)
    BY <1>3 DEF Agrees
  <2>2. ~IsRequest(input, req_parser.uri)
    BY <1>1, <2>1, NoRequestYet
  <2> QED BY <1>3, <2>2 DEF ParseMatchesGrammar
<1>4. CASE result = "undefined"
  <2>1. Describes(input, req_parser) /\ WellFormed(req_parser)
    BY <1>4 DEF Agrees, IInv, ParserWellFormed
  <2>2. CASE req_parser.state = "_body"
    <3>1. InBody(input, req_parser) /\ req_parser.remaining > 0
      BY <2>1, <2>2 DEF Describes, WellFormed
    <3>2. ~IsRequest(input, req_parser.uri)
      BY <1>1, <3>1, BodyUnfinished
    <3> QED BY <1>4, <3>2 DEF ParseMatchesGrammar
  <2>3. CASE req_parser.state # "_body"
    <3>1. NoBlankLine(input)
      BY <2>1, <2>3 DEF Describes
    <3>2. ~IsRequest(input, req_parser.uri)
      BY <1>1, <3>1, NoRequestYet
    <3> QED BY <1>4, <3>2 DEF ParseMatchesGrammar
  <2> QED BY <2>2, <2>3
<1> QED BY <1>1, <1>2, <1>3, <1>4

\* The state machine accepts exactly the texts of the grammar, whatever their
\* length: NextCharHandler answers `good' at the last character of a request,
\* body and continuation lines included, at no other text, and has then gathered
\* the request's own target.
THEOREM ParserMatchesGrammar == Spec => []ParseMatchesGrammar
<1>1. Init => IInv /\ Agrees
  BY InitIInv, InitAgrees
<1>2. (IInv /\ Agrees) /\ [Next]_vars => (IInv /\ Agrees)'
  BY NextIInv, NextAgrees
<1> QED BY <1>1, <1>2, AgreesMatches, PTL DEF Spec
=============================================================================
