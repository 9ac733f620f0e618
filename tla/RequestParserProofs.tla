------------------------ MODULE RequestParserProofs ------------------------
(***************************************************************************)
(* Facts about the parser for every text: it stays a parser, its field     *)
(* accesses are defined, and what it writes to the request is text.        *)
(***************************************************************************)
EXTENDS RequestParser, WellFoundedInduction, TLAPS

Results == {"good", "bad", "undefined"}

Outcome == [result : Results, parser : Parser]

-----------------------------------------------------------------------------
(* One character                                                           *)

LEMMA FreshParserType == FreshParser \in Parser /\ WellFormed(FreshParser)
  BY DEF FreshParser, Parser, States, WellFormed, Text

LEMMA ResetType ==
  ASSUME NEW p \in Parser
  PROVE  Reset(p) \in Parser /\ WellFormed(Reset(p))
<1>1. <<>> \in Text /\ <<>> \in Seq(Header) /\ "_method_start" \in States
  BY DEF Text, States
<1>2. ASSUME NEW u \in Text, NEW hs \in Seq(Header), NEW st \in States,
             u = <<>>, hs = <<>>, st = "_method_start"
      PROVE  Reset(p) \in Parser /\ Reset(p).state = st
  <2>1. Reset(p) = [p EXCEPT !.state = st, !.uri = u, !.headers = hs]
    BY <1>2, Zenon DEF Reset
  <2> QED BY <2>1 DEF Parser
<1>3. Reset(p) \in Parser /\ Reset(p).state = "_method_start"
  BY <1>1, <1>2, Zenon
<1> QED BY <1>3 DEF WellFormed

LEMMA AppendNameType ==
  ASSUME NEW h \in Header, NEW c \in Lexemes
  PROVE  [h EXCEPT !.name = Append(h.name, c)] \in Header
<1>1. PICK x \in Text : x = Append(h.name, c)
  <2>1. h.name \in Seq(Lexemes)
    BY DEF Header, Text
  <2>2. Append(h.name, c) \in Text
    BY <2>1 DEF Text
  <2> QED BY <2>2
<1>2. [h EXCEPT !.name = x] \in Header
  BY DEF Header
<1> QED BY <1>1, <1>2

LEMMA AppendValueType ==
  ASSUME NEW h \in Header, NEW c \in Lexemes
  PROVE  [h EXCEPT !.value = Append(h.value, c)] \in Header
<1>1. PICK x \in Text : x = Append(h.value, c)
  <2>1. h.value \in Seq(Lexemes)
    BY DEF Header, Text
  <2>2. Append(h.value, c) \in Text
    BY <2>1 DEF Text
  <2> QED BY <2>2
<1>2. [h EXCEPT !.value = x] \in Header
  BY DEF Header
<1> QED BY <1>1, <1>2

LEMMA LeastElement ==
  ASSUME NEW S \in SUBSET Nat, S # {}
  PROVE  \E i \in S : \A j \in S : i <= j
<1>1. PICK i \in S : \A j \in S : ~(<<j, i>> \in OpToRel(<, Nat))
  BY WFMin, NatLessThanWellFounded, Zenon
<1>2. ASSUME NEW j \in S PROVE i <= j
  <2>1. i \in Nat /\ j \in Nat
    OBVIOUS
  <2>2. j < i => <<j, i>> \in OpToRel(<, Nat)
    BY <2>1 DEF OpToRel
  <2>3. ~(j < i)
    BY <1>1, <2>2
  <2> QED BY <2>1, <2>3
<1> QED BY <1>2

LEMMA HeaderValueType ==
  ASSUME NEW p \in Parser, NEW name
  PROVE  GetHeaderValue(p, name) \in Text
<1> DEFINE named == {i \in 1..Len(p.headers) : p.headers[i].name = <<name>>}
           first == CHOOSE i \in named : \A j \in named : i <= j
<1>1. CASE named = {}
  BY <1>1 DEF GetHeaderValue, Text
<1>2. CASE named # {}
  <2>1. named \subseteq Nat
    OBVIOUS
  <2>2. \E i \in named : \A j \in named : i <= j
    <3> HIDE DEF named
    <3> QED BY <1>2, <2>1, LeastElement
  <2>3. first \in named
    BY <2>2
  <2>4. p.headers[first] \in Header
    <3>1. p.headers \in Seq(Header)
      BY DEF Parser
    <3>2. first \in 1..Len(p.headers)
      BY <2>3
    <3> HIDE DEF first, named
    <3> QED BY <3>1, <3>2
  <2>5. GetHeaderValue(p, name) = p.headers[first].value
    BY <1>2 DEF GetHeaderValue
  <2> QED BY <2>4, <2>5 DEF Header
<1> QED BY <1>1, <1>2

LEMMA StoullType ==
  ASSUME NEW v \in Text
  PROVE  stoull(v) \in Nat
<1>1. \A n : (IF n \in 0..ULLONG_MAX THEN n ELSE 0) \in Nat
  BY MaxAssumption
<1> QED BY <1>1, Zenon DEF stoull

LEMMA PushNameType ==
  ASSUME NEW p \in Parser, p.headers # <<>>, NEW c \in Lexemes, NEW st \in States
  PROVE  LET q == PushName(p, st, c).parser
         IN q \in Parser /\ q.state = st /\ q.headers # <<>>
<1> DEFINE n == Len(p.headers)
           h == [p.headers[n] EXCEPT !.name = Append(p.headers[n].name, c)]
           hs == [p.headers EXCEPT ![n] = h]
<1>1. p.headers \in Seq(Header) /\ n \in 1..n /\ n \in Nat
  BY DEF Parser
<1>2. p.headers[n] \in Header
  BY <1>1
<1>3. h \in Header
  BY <1>2, AppendNameType
<1>4. hs \in Seq(Header) /\ hs # <<>>
  BY <1>1, <1>3
<1>5. PushName(p, st, c).parser = [p EXCEPT !.state = st, !.headers = hs]
  BY <1>1 DEF PushName, Undefined, Parser
<1> HIDE DEF hs
<1> QED BY <1>4, <1>5 DEF Parser

LEMMA PushValueType ==
  ASSUME NEW p \in Parser, p.headers # <<>>, NEW c \in Lexemes
  PROVE  LET q == PushValue(p, c).parser
         IN q \in Parser /\ q.state = "_header_value" /\ q.headers # <<>>
<1> DEFINE n == Len(p.headers)
           h == [p.headers[n] EXCEPT !.value = Append(p.headers[n].value, c)]
           hs == [p.headers EXCEPT ![n] = h]
<1>1. p.headers \in Seq(Header) /\ n \in 1..n /\ n \in Nat
  BY DEF Parser
<1>2. p.headers[n] \in Header
  BY <1>1
<1>3. h \in Header
  BY <1>2, AppendValueType
<1>4. hs \in Seq(Header) /\ hs # <<>>
  BY <1>1, <1>3
<1>5. PushValue(p, c).parser = [p EXCEPT !.state = "_header_value", !.headers = hs]
  BY <1>1 DEF PushValue, Undefined, Parser
<1> HIDE DEF hs
<1> QED BY <1>4, <1>5 DEF Parser, States

\* An outcome the loop may go on from: typed, and defined for the next character.
Sound(r) == r \in Outcome /\ (r.result = "undefined" => WellFormed(r.parser))

LEMMA GotoSound ==
  ASSUME NEW p \in Parser, NEW st \in States \ {"_body"},
         st \in {"_header_lws", "_header_name", "_space_before_header_value", "_header_value"}
            => p.headers # <<>>
  PROVE  Sound(Goto(p, st))
<1>1. [p EXCEPT !.state = st] \in Parser
  BY DEF Parser
<1>2. [p EXCEPT !.state = st].state = st /\ [p EXCEPT !.state = st].headers = p.headers
  BY DEF Parser
<1> QED BY <1>1, <1>2 DEF Sound, Goto, Undefined, Outcome, Results, WellFormed

LEMMA BadSound ==
  ASSUME NEW p \in Parser
  PROVE  Sound(Bad(p))
  BY DEF Sound, Bad, Outcome, Results

LEMMA StaySound ==
  ASSUME NEW p \in Parser, WellFormed(p)
  PROVE  Sound(Undefined(p))
  BY DEF Sound, Undefined, Outcome, Results

LEMMA PushUriSound ==
  ASSUME NEW p \in Parser, p.state = "_uri", NEW c \in Lexemes
  PROVE  Sound(PushUri(p, c))
<1> DEFINE u == Append(p.uri, c)
           q == [p EXCEPT !.uri = u]
<1>1. q \in Parser /\ q.state = "_uri"
  <2>1. u \in Text
    BY DEF Parser, Text
  <2> HIDE DEF u
  <2> QED BY <2>1 DEF Parser
<1>2. PushUri(p, c) = Undefined(q)
  BY DEF PushUri
<1> HIDE DEF q
<1> QED BY <1>1, <1>2 DEF Sound, Undefined, Outcome, Results, WellFormed

LEMMA NewHeaderSound ==
  ASSUME NEW p \in Parser, NEW c \in Lexemes,
         NEW st \in {"_header_name", "_space_before_header_value"}
  PROVE  Sound(NewHeader(p, st, c))
<1> DEFINE h == [name |-> <<c>>, value |-> <<>>]
           hs == Append(p.headers, h)
           q == [p EXCEPT !.state = st, !.headers = hs]
<1>1. h \in Header
  BY DEF Header, Text
<1>2. p.headers \in Seq(Header)
  BY DEF Parser
<1>3. hs \in Seq(Header) /\ hs # <<>>
  <2> HIDE DEF h
  <2> QED BY <1>1, <1>2
<1>4. NewHeader(p, st, c) = Undefined(q)
  BY DEF NewHeader
<1>5. q \in Parser /\ q.state = st /\ q.headers # <<>>
  <2> HIDE DEF hs
  <2> QED BY <1>3 DEF Parser, States
<1> HIDE DEF q
<1> QED BY <1>4, <1>5 DEF Sound, Undefined, Outcome, Results, WellFormed

LEMMA PushNameSound ==
  ASSUME NEW p \in Parser, p.headers # <<>>, NEW c \in Lexemes,
         NEW st \in {"_header_name", "_space_before_header_value"}
  PROVE  Sound(PushName(p, st, c))
<1>1. st \in States
  BY DEF States
<1>2. PICK q : q = PushName(p, st, c).parser
  OBVIOUS
<1>3. q \in Parser /\ q.state = st /\ q.headers # <<>>
  BY <1>1, <1>2, PushNameType
<1>4. PushName(p, st, c) = Undefined(q)
  BY <1>2 DEF PushName, Undefined
<1> QED BY <1>3, <1>4 DEF Sound, Undefined, Outcome, Results, WellFormed

LEMMA PushValueSound ==
  ASSUME NEW p \in Parser, p.headers # <<>>, NEW c \in Lexemes
  PROVE  Sound(PushValue(p, c))
<1>1. PICK q : q = PushValue(p, c).parser
  OBVIOUS
<1>2. q \in Parser /\ q.state = "_header_value" /\ q.headers # <<>>
  BY <1>1, PushValueType
<1>3. PushValue(p, c) = Undefined(q)
  BY <1>1 DEF PushValue, Undefined
<1> QED BY <1>2, <1>3 DEF Sound, Undefined, Outcome, Results, WellFormed

LEMMA EndOfHeadersSound ==
  ASSUME NEW p \in Parser
  PROVE  Sound(EndOfHeaders(p))
<1>1. PICK n \in Nat : n = stoull(GetHeaderValue(p, CONTENT_LENGTH))
  BY HeaderValueType, StoullType
<1>2. CASE n > 0
  <2> DEFINE q == [p EXCEPT !.state = "_body", !.remaining = n]
  <2>1. q \in Parser /\ q.state = "_body" /\ q.remaining = n
    BY DEF Parser, States
  <2>2. EndOfHeaders(p) = Undefined(q)
    BY <1>1, <1>2 DEF EndOfHeaders
  <2> HIDE DEF q
  <2> QED BY <1>2, <2>1, <2>2 DEF Sound, Undefined, Outcome, Results, WellFormed
<1>3. CASE ~(n > 0)
  <2> DEFINE q == [p EXCEPT !.remaining = n]
  <2>1. q \in Parser
    BY DEF Parser
  <2>2. EndOfHeaders(p) = Good(q)
    BY <1>1, <1>3 DEF EndOfHeaders
  <2> HIDE DEF q
  <2> QED BY <2>1, <2>2 DEF Sound, Good, Outcome, Results
<1> QED BY <1>2, <1>3

LEMMA BodyCharSound ==
  ASSUME NEW p \in Parser, p.state = "_body", WellFormed(p)
  PROVE  Sound(BodyChar(p))
<1> DEFINE q == [p EXCEPT !.remaining = p.remaining - 1]
<1>1. p.remaining \in Nat /\ p.remaining > 0
  BY DEF Parser, WellFormed
<1>2. q \in Parser /\ q.state = "_body"
  BY <1>1 DEF Parser
<1>3. BodyChar(p) = IF q.remaining > 0 THEN Undefined(q) ELSE Good(q)
  BY DEF BodyChar
<1> HIDE DEF q
<1>4. CASE q.remaining > 0
  BY <1>2, <1>3, <1>4 DEF Sound, Undefined, Outcome, Results, WellFormed
<1>5. CASE ~(q.remaining > 0)
  BY <1>2, <1>3, <1>5 DEF Sound, Good, Outcome, Results
<1> QED BY <1>4, <1>5

\* Every character a well-formed parser is given leaves it well-formed or is the
\* last one of the text.
LEMMA NextCharSound ==
  ASSUME NEW p \in Parser, WellFormed(p), NEW c \in Lexemes
  PROVE  Sound(NextCharHandler(p, c))
<1>1. Sound(Bad(p)) /\ Sound(Undefined(p))
  BY BadSound, StaySound
<1>2. CASE p.state \in {"_method_start", "_method", "_version_h", "_version_minor"}
  <2>1. \A st \in {"_method", "_uri", "_version_h", "_version_minor", "_header_start"} :
          Sound(Goto(p, st))
    BY GotoSound DEF States
  <2> QED BY <1>1, <1>2, <2>1 DEF NextCharHandler
<1>3. CASE p.state = "_uri"
  <2>1. Sound(Goto(p, "_version_h")) /\ Sound(PushUri(p, c))
    BY <1>3, GotoSound, PushUriSound DEF States
  <2> QED BY <1>1, <1>3, <2>1 DEF NextCharHandler
<1>4. CASE p.state = "_header_start"
  <2>1. Sound(EndOfHeaders(p)) /\ Sound(NewHeader(p, "_header_name", c))
        /\ Sound(NewHeader(p, "_space_before_header_value", c))
    BY EndOfHeadersSound, NewHeaderSound
  <2>2. p.headers # <<>> => Sound(Goto(p, "_header_lws"))
    BY GotoSound DEF States
  <2> QED BY <1>1, <1>4, <2>1, <2>2 DEF NextCharHandler
<1>5. CASE p.state \in {"_header_lws", "_header_name", "_space_before_header_value",
                        "_header_value"}
  <2>1. p.headers # <<>>
    BY <1>5 DEF WellFormed
  <2>2. Sound(PushName(p, "_header_name", c)) /\ Sound(PushValue(p, c))
        /\ Sound(PushName(p, "_space_before_header_value", c))
    BY <2>1, PushNameSound, PushValueSound
  <2>3. Sound(Goto(p, "_header_start")) /\ Sound(Goto(p, "_header_value"))
    BY <2>1, GotoSound DEF States
  <2> QED BY <1>1, <1>5, <2>2, <2>3 DEF NextCharHandler
<1>6. CASE p.state = "_body"
  BY <1>6, BodyCharSound DEF NextCharHandler
<1> QED BY <1>2, <1>3, <1>4, <1>5, <1>6 DEF Parser, States

-----------------------------------------------------------------------------
(* A whole text                                                            *)

LEMMA SetInduction ==
  ASSUME NEW T, 0 \in T, \A n \in Nat : n \in T => n + 1 \in T
  PROVE  Nat \subseteq T
<1> DEFINE Missing == Nat \ T
<1>1. SUFFICES ASSUME Missing # {} PROVE FALSE
  OBVIOUS
<1>2. PICK x \in Missing : \A y \in Missing : ~(<<y, x>> \in OpToRel(<, Nat))
  <2>1. Missing \subseteq Nat
    OBVIOUS
  <2> QED BY <1>1, <2>1, WFMin, NatLessThanWellFounded, Zenon
<1>3. x \in Nat /\ x # 0 /\ x - 1 \in Nat /\ x - 1 < x
  OBVIOUS
<1>4. x - 1 \in Missing
  BY <1>3
<1>5. <<x - 1, x>> \in OpToRel(<, Nat)
  BY <1>3 DEF OpToRel
<1> QED BY <1>2, <1>4, <1>5

\* What Parse may return, after any number of characters.
ParseResults == [result : Results, parser : Parser, uri : Text]

Parsed(r) == r \in ParseResults /\ WellFormed(r.parser)

LEMMA TurnParsed ==
  ASSUME NEW r, Parsed(r), NEW c \in Lexemes
  PROVE  Parsed(Turn(r, c))
<1> DEFINE next == NextCharHandler(r.parser, c)
<1>1. r.parser \in Parser /\ WellFormed(r.parser)
  BY DEF Parsed, ParseResults
<1>2. Sound(next)
  BY <1>1, NextCharSound
<1>3. next.result \in Results /\ next.parser \in Parser
      /\ (next.result = "undefined" => WellFormed(next.parser))
  BY <1>2 DEF Sound, Outcome
<1>4. next.parser.uri \in Text
  BY <1>3 DEF Parser
<1>5. Reset(next.parser) \in Parser /\ WellFormed(Reset(next.parser))
  BY <1>3, ResetType
<1>6. Turn(r, c) = IF r.result # "undefined" THEN r
                   ELSE IF next.result = "undefined" THEN [r EXCEPT !.parser = next.parser]
                   ELSE [result |-> next.result, parser |-> Reset(next.parser),
                         uri |-> next.parser.uri]
  BY DEF Turn
<1> HIDE DEF next
<1>7. CASE r.result = "undefined" /\ next.result = "undefined"
  BY <1>3, <1>6, <1>7 DEF Parsed, ParseResults
<1>8. CASE r.result = "undefined" /\ next.result # "undefined"
  BY <1>3, <1>4, <1>5, <1>6, <1>8 DEF Parsed, ParseResults
<1> QED BY <1>6, <1>7, <1>8

\* The loop as the function its recursive definition describes.
LEMMA ConsumeDef ==
  ASSUME NEW p, NEW uri, NEW input, Len(input) \in Nat
  PROVE  Consume(p, uri, input) =
            [i \in 0..Len(input) |->
                IF i = 0 THEN [result |-> "undefined", parser |-> p, uri |-> uri]
                ELSE Turn(Consume(p, uri, input)[i - 1], input[i])]
<1> DEFINE n == Len(input)
           start == [result |-> "undefined", parser |-> p, uri |-> uri]
           T == {k \in Nat : \E f : f = [i \in 0..k |->
                    IF i = 0 THEN start ELSE Turn(f[i - 1], input[i])]}
<1>0. start = [result |-> "undefined", parser |-> p, uri |-> uri]
  OBVIOUS
<1> HIDE DEF start
<1>1. 0 \in T
  <2> DEFINE f == [i \in 0..0 |-> start]
  <2>1. f = [i \in 0..0 |-> IF i = 0 THEN start ELSE Turn(f[i - 1], input[i])]
    OBVIOUS
  <2> QED BY <2>1
<1>2. \A k \in Nat : k \in T => k + 1 \in T
  <2> SUFFICES ASSUME NEW k \in Nat, k \in T PROVE k + 1 \in T
    OBVIOUS
  <2>1. PICK f : f = [i \in 0..k |-> IF i = 0 THEN start ELSE Turn(f[i - 1], input[i])]
    OBVIOUS
  <2> DEFINE g == [i \in 0..(k + 1) |-> IF i \in 0..k THEN f[i] ELSE Turn(f[k], input[i])]
  <2>2. \A i \in 0..(k + 1) : g[i] = IF i = 0 THEN start ELSE Turn(g[i - 1], input[i])
    <3> TAKE i \in 0..(k + 1)
    <3>1. CASE i = 0
      BY <3>1, <2>1
    <3>2. CASE i \in 1..k
      BY <3>2, <2>1
    <3>3. CASE i = k + 1
      BY <3>3, <2>1
    <3> QED BY <3>1, <3>2, <3>3
  <2>3. g = [i \in 0..(k + 1) |-> IF i = 0 THEN start ELSE Turn(g[i - 1], input[i])]
    BY <2>2
  <2>4. \E h : h = [i \in 0..(k + 1) |-> IF i = 0 THEN start ELSE Turn(h[i - 1], input[i])]
    BY <2>3, Zenon
  <2>5. k + 1 \in Nat
    OBVIOUS
  <2> QED BY <2>4, <2>5, Zenon
<1>3. n \in T
  <2> HIDE DEF T
  <2> QED BY <1>1, <1>2, SetInduction
<1>4. PICK f : f = [i \in 0..n |-> IF i = 0 THEN start ELSE Turn(f[i - 1], input[i])]
  BY <1>3
<1>5. \A x, c : (CHOOSE r \in {Turn(before, c) : before \in {x}} : TRUE) = Turn(x, c)
  <2> TAKE x, c
  <2>1. {Turn(before, c) : before \in {x}} = {Turn(x, c)}
    OBVIOUS
  <2>2. ASSUME NEW S, NEW y, S = {y} PROVE (CHOOSE r \in S : TRUE) = y
    BY <2>2
  <2> QED BY <2>1, <2>2
<1>6. f = [i \in 0..n |-> IF i = 0 THEN start
             ELSE CHOOSE r \in {Turn(before, input[i]) : before \in {f[i - 1]}} : TRUE]
  BY <1>4, <1>5
<1>7. Consume(p, uri, input) = [i \in 0..n |-> IF i = 0 THEN start
             ELSE CHOOSE r \in {Turn(before, input[i]) :
                                before \in {Consume(p, uri, input)[i - 1]}} : TRUE]
  BY <1>6, Zenon DEF Consume, start
<1> QED BY <1>0, <1>5, <1>7

\* Parse returns a result, a parser that can go on, and a URI that is text, for
\* every text and whatever the parser was left with by earlier texts.
LEMMA ParseParsed ==
  ASSUME NEW p \in Parser, WellFormed(p), NEW uri \in Text, NEW input \in Text
  PROVE  Parsed(Parse(p, uri, input))
<1> DEFINE run == Consume(p, uri, input)
           T == {i \in Nat : i <= Len(input) => Parsed(run[i])}
<1>1. Len(input) \in Nat /\ \A i \in 1..Len(input) : input[i] \in Lexemes
  BY DEF Text
<1>2. run = [i \in 0..Len(input) |->
                IF i = 0 THEN [result |-> "undefined", parser |-> p, uri |-> uri]
                ELSE Turn(run[i - 1], input[i])]
  BY <1>1, ConsumeDef
<1> HIDE DEF run
<1>3. 0 \in T
  BY <1>1, <1>2 DEF Parsed, ParseResults, Results
<1>4. \A n \in Nat : n \in T => n + 1 \in T
  <2> SUFFICES ASSUME NEW n \in Nat, n \in T, n + 1 <= Len(input)
               PROVE  Parsed(run[n + 1])
    OBVIOUS
  <2>1. n + 1 \in 1..Len(input) /\ n + 1 \in 0..Len(input) /\ n + 1 # 0 /\ (n + 1) - 1 = n
        /\ n <= Len(input)
    BY <1>1
  <2>2. Parsed(run[n])
    BY <2>1
  <2>3. run[n + 1] = Turn(run[n], input[n + 1])
    BY <1>2, <2>1
  <2> QED BY <1>1, <2>1, <2>2, <2>3, TurnParsed
<1>5. Len(input) \in T
  <2> HIDE DEF T
  <2> QED BY <1>1, <1>3, <1>4, SetInduction
<1> QED BY <1>1, <1>5 DEF Parse, run
-----------------------------------------------------------------------------
(* Reset leaves `remaining' alone.  That is harmless: outside a body it is *)
(* zero, and so it is when a character ends the text.                      *)

Quiet(r) ==
    \/ r.parser.remaining = 0
    \/ r.result = "undefined" /\ r.parser.state = "_body"

LEMMA KeepsRemaining ==
  ASSUME NEW p \in Parser, NEW c \in Lexemes, NEW st
  PROVE  /\ Goto(p, st).parser.remaining = p.remaining
         /\ PushUri(p, c).parser.remaining = p.remaining
         /\ NewHeader(p, st, c).parser.remaining = p.remaining
         /\ PushName(p, st, c).parser.remaining = p.remaining
         /\ PushValue(p, c).parser.remaining = p.remaining
         /\ Undefined(p).parser = p /\ Bad(p).parser = p
  BY DEF Goto, PushUri, NewHeader, PushName, PushValue, Undefined, Bad, Parser

LEMMA NextCharQuiet ==
  ASSUME NEW p \in Parser, WellFormed(p), NEW c \in Lexemes,
         p.state # "_body" => p.remaining = 0
  PROVE  Quiet(NextCharHandler(p, c))
<1>1. CASE p.state = "_header_start" /\ c = CRLF
  <2>1. NextCharHandler(p, c) = EndOfHeaders(p)
    BY <1>1 DEF NextCharHandler
  <2>2. PICK n \in Nat : n = stoull(GetHeaderValue(p, CONTENT_LENGTH))
    BY HeaderValueType, StoullType
  <2>3. CASE n > 0
    <3> DEFINE q == [p EXCEPT !.state = "_body", !.remaining = n]
    <3>1. q.state = "_body"
      BY DEF Parser
    <3>2. NextCharHandler(p, c) = Undefined(q)
      BY <2>1, <2>2, <2>3 DEF EndOfHeaders
    <3> HIDE DEF q
    <3> QED BY <3>1, <3>2 DEF Quiet, Undefined
  <2>4. CASE ~(n > 0)
    <3> DEFINE q == [p EXCEPT !.remaining = n]
    <3>1. q.remaining = 0
      BY <2>4 DEF Parser
    <3>2. NextCharHandler(p, c) = Good(q)
      BY <2>1, <2>2, <2>4 DEF EndOfHeaders
    <3> HIDE DEF q
    <3> QED BY <3>1, <3>2 DEF Quiet, Good
  <2> QED BY <2>3, <2>4
<1>2. CASE p.state = "_body"
  <2> DEFINE q == [p EXCEPT !.remaining = p.remaining - 1]
  <2>1. p.remaining \in Nat /\ p.remaining > 0
    BY <1>2 DEF Parser, WellFormed
  <2>2. q.remaining \in Nat /\ q.state = "_body"
    BY <1>2, <2>1 DEF Parser
  <2>3. NextCharHandler(p, c) = IF q.remaining > 0 THEN Undefined(q) ELSE Good(q)
    BY <1>2 DEF NextCharHandler, BodyChar
  <2> HIDE DEF q
  <2> QED BY <2>2, <2>3 DEF Quiet, Undefined, Good
<1>3. CASE p.state # "_body" /\ ~(p.state = "_header_start" /\ c = CRLF)
  <2>1. p.remaining = 0
    BY <1>3
  <2>2. NextCharHandler(p, c).parser.remaining = p.remaining
    <3>1. p.state \in States
      BY DEF Parser
    <3>2. CASE p.state \in {"_method_start", "_method", "_uri", "_version_h", "_version_minor"}
      BY <3>2, KeepsRemaining DEF NextCharHandler
    <3>3. CASE p.state \in {"_header_start", "_header_lws", "_header_name"}
      BY <1>3, <3>3, KeepsRemaining DEF NextCharHandler
    <3>4. CASE p.state \in {"_space_before_header_value", "_header_value"}
      BY <3>4, KeepsRemaining DEF NextCharHandler
    <3> QED BY <1>3, <3>1, <3>2, <3>3, <3>4 DEF States
  <2> QED BY <2>1, <2>2 DEF Quiet
<1> QED BY <1>1, <1>2, <1>3

LEMMA ResetFresh ==
  ASSUME NEW p \in Parser, p.remaining = 0
  PROVE  Reset(p) = FreshParser
<1>1. ASSUME NEW q \in Parser, NEW r \in Parser, q.state = r.state, q.uri = r.uri,
             q.headers = r.headers, q.remaining = r.remaining
      PROVE  q = r
  BY <1>1 DEF Parser
<1>2. Reset(p) \in Parser /\ FreshParser \in Parser
  BY ResetType, FreshParserType
<1>3. ASSUME NEW u, NEW hs, NEW st, Reset(p) = [p EXCEPT !.state = st, !.uri = u, !.headers = hs]
      PROVE  /\ Reset(p).state = st /\ Reset(p).uri = u /\ Reset(p).headers = hs
             /\ Reset(p).remaining = p.remaining
  BY <1>3 DEF Parser
<1>4. /\ Reset(p).state = "_method_start" /\ Reset(p).uri = <<>> /\ Reset(p).headers = <<>>
      /\ Reset(p).remaining = p.remaining
  BY <1>3, Zenon DEF Reset
<1>5. /\ FreshParser.state = "_method_start" /\ FreshParser.uri = <<>>
      /\ FreshParser.headers = <<>> /\ FreshParser.remaining = 0
  BY DEF FreshParser
<1> QED BY <1>1, <1>2, <1>4, <1>5

\* A fresh parser that has decided a text, whether good or bad, is fresh again:
\* nothing of a finished request can reach the next one, although Reset does
\* not clear `remaining' (Parse, Reset).
THEOREM DecidedParseLeavesFresh ==
  ASSUME NEW uri \in Text, NEW input \in Text,
         Parse(FreshParser, uri, input).result # "undefined"
  PROVE  Parse(FreshParser, uri, input).parser = FreshParser
<1> DEFINE run == Consume(FreshParser, uri, input)
           Fine(r) == /\ Parsed(r)
                      /\ r.result = "undefined" => Quiet(r)
                      /\ r.result # "undefined" => r.parser = FreshParser
           T == {i \in Nat : i <= Len(input) => Fine(run[i])}
<1>1. Len(input) \in Nat /\ \A i \in 1..Len(input) : input[i] \in Lexemes
  BY DEF Text
<1>2. run = [i \in 0..Len(input) |->
                IF i = 0 THEN [result |-> "undefined", parser |-> FreshParser, uri |-> uri]
                ELSE Turn(run[i - 1], input[i])]
  BY <1>1, ConsumeDef
<1> HIDE DEF run
<1>3. 0 \in T
  <2>1. run[0] = [result |-> "undefined", parser |-> FreshParser, uri |-> uri]
    BY <1>1, <1>2
  <2>2. Parsed(run[0])
    BY <2>1, FreshParserType DEF Parsed, ParseResults, Results
  <2>3. Quiet(run[0])
    BY <2>1 DEF Quiet, FreshParser
  <2> QED BY <2>1, <2>2, <2>3
<1>4. ASSUME NEW r, Fine(r), NEW c \in Lexemes PROVE Fine(Turn(r, c))
  <2> DEFINE next == NextCharHandler(r.parser, c)
  <2>1. Parsed(Turn(r, c))
    BY <1>4, TurnParsed
  <2>2. Turn(r, c) = IF r.result # "undefined" THEN r
                     ELSE IF next.result = "undefined" THEN [r EXCEPT !.parser = next.parser]
                     ELSE [result |-> next.result, parser |-> Reset(next.parser),
                           uri |-> next.parser.uri]
    BY DEF Turn
  <2>3. CASE r.result # "undefined"
    BY <1>4, <2>2, <2>3
  <2>4. CASE r.result = "undefined"
    <3>1. r.parser \in Parser /\ WellFormed(r.parser)
      BY <1>4 DEF Parsed, ParseResults
    <3>2. Quiet(next)
      <4>1. r.parser.state # "_body" => r.parser.remaining = 0
        BY <1>4, <2>4 DEF Quiet
      <4> QED BY <3>1, <4>1, NextCharQuiet
    <3>3. next.parser \in Parser /\ next.result \in Results
      BY <3>1, NextCharSound DEF Sound, Outcome
    <3> HIDE DEF next
    <3>4. CASE next.result = "undefined"
      <4>1. Turn(r, c) = [r EXCEPT !.parser = next.parser]
        BY <2>2, <2>4, <3>4
      <4>2. Turn(r, c).result = "undefined" /\ Turn(r, c).parser = next.parser
        BY <1>4, <2>4, <4>1 DEF Parsed, ParseResults
      <4> QED BY <2>1, <3>2, <3>4, <4>2 DEF Quiet
    <3>5. CASE next.result # "undefined"
      <4>1. next.parser.remaining = 0
        BY <3>2, <3>5 DEF Quiet
      <4>2. Turn(r, c).parser = FreshParser /\ Turn(r, c).result = next.result
        BY <2>2, <2>4, <3>3, <3>5, <4>1, ResetFresh
      <4> QED BY <2>1, <3>5, <4>2
    <3> QED BY <3>4, <3>5
  <2> QED BY <2>3, <2>4
<1>5. \A n \in Nat : n \in T => n + 1 \in T
  <2> SUFFICES ASSUME NEW n \in Nat, n \in T, n + 1 <= Len(input)
               PROVE  Fine(run[n + 1])
    OBVIOUS
  <2>1. n + 1 \in 1..Len(input) /\ n + 1 \in 0..Len(input) /\ n + 1 # 0 /\ (n + 1) - 1 = n
        /\ n <= Len(input)
    BY <1>1
  <2>2. Fine(run[n])
    BY <2>1
  <2>3. run[n + 1] = Turn(run[n], input[n + 1])
    BY <1>2, <2>1
  <2> HIDE DEF Fine
  <2> QED BY <1>1, <1>4, <2>1, <2>2, <2>3
<1>6. Len(input) \in T
  <2> HIDE DEF T
  <2> QED BY <1>1, <1>3, <1>5, SetInduction
<1>7. Parse(FreshParser, uri, input) = run[Len(input)]
  BY DEF Parse, run
<1> QED BY <1>1, <1>6, <1>7
=============================================================================
