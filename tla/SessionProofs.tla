--------------------------- MODULE SessionProofs ---------------------------
(***************************************************************************)
(* The safety of the session's life cycle, for any number of sessions, any *)
(* configuration and any text the clients send; and, of clients that send  *)
(* a request at once or line by line, that each gets its own answers, in   *)
(* order and no other.                                                     *)
(***************************************************************************)
EXTENDS Session, RequestParserProofs, FiniteSetTheorems

-----------------------------------------------------------------------------
(* Texts                                                                   *)

NonEmpty == Text \ {<<>>}

LEMMA ConcatType ==
  ASSUME NEW t \in Text, NEW u \in Text
  PROVE  t \o u \in Text /\ (t # <<>> \/ u # <<>> => t \o u # <<>>)
  BY DEF Text

LEMMA SubSeqType ==
  ASSUME NEW t \in Text, NEW m \in Nat \ {0}, NEW n \in Nat, n <= Len(t)
  PROVE  SubSeq(t, m, n) \in Text /\ (m <= n => SubSeq(t, m, n) # <<>>)
  BY DEF Text

LEMMA ChunkType ==
  ASSUME TypeOK, NEW s \in Sessions, inq[s] # <<>>
  PROVE  /\ Chunk(s) \in NonEmpty
         /\ AfterChunk(s) \in Seq(NonEmpty)
<1>1. inq[s] \in Seq(NonEmpty)
  BY DEF TypeOK, NonEmpty
<1>2. Head(inq[s]) \in NonEmpty /\ Tail(inq[s]) \in Seq(NonEmpty)
  BY <1>1
<1>3. PICK c \in NonEmpty : c = Head(inq[s])
  BY <1>2
<1>4. c \in Text /\ c # <<>> /\ Len(c) \in Nat /\ MaxLength \in Nat \ {0}
  BY MaxLengthAssumption DEF NonEmpty, Text
<1>5. CASE Len(c) <= MaxLength
  BY <1>2, <1>3, <1>5 DEF Chunk, AfterChunk
<1>6. CASE ~(Len(c) <= MaxLength)
  <2>0. /\ 1 \in Nat \ {0} /\ MaxLength + 1 \in Nat \ {0}
        /\ 1 <= MaxLength /\ MaxLength <= Len(c) /\ MaxLength + 1 <= Len(c) /\ Len(c) <= Len(c)
    BY <1>4, <1>6
  <2>1. SubSeq(c, 1, MaxLength) \in NonEmpty
    BY <1>4, <2>0, SubSeqType DEF NonEmpty
  <2>2. SubSeq(c, MaxLength + 1, Len(c)) \in NonEmpty
    BY <1>4, <2>0, SubSeqType DEF NonEmpty
  <2>3. ASSUME NEW x \in NonEmpty, NEW q \in Seq(NonEmpty)
        PROVE  <<x>> \o q \in Seq(NonEmpty)
    OBVIOUS
  <2> QED BY <1>2, <1>3, <1>6, <2>1, <2>2, <2>3 DEF Chunk, AfterChunk
<1> QED BY <1>5, <1>6

LEMMA ReceivedType ==
  ASSUME TypeOK, NEW s \in Sessions, inq[s] # <<>>
  PROVE  Buffer(s) \in Text /\ Received(s) \subseteq NonEmpty
<1>1. Chunk(s) \in Text /\ Chunk(s) # <<>>
  BY ChunkType DEF NonEmpty
<1>2. data_[s] \in Text
  BY DEF TypeOK
<1>3. PICK c \in Text : c = Chunk(s)
  BY <1>1
<1>4. SubSeq(data_[s], Len(c) + 1, Len(data_[s])) \in Text
  BY <1>2, SubSeqType DEF Text
<1>5. Buffer(s) \in Text /\ Buffer(s) # <<>>
  BY <1>1, <1>3, <1>4, ConcatType DEF Buffer
<1>6. \A o \in Overruns : Buffer(s) \o o \in NonEmpty
  BY <1>5, ConcatType, TextAssumption DEF NonEmpty
<1> QED BY <1>5, <1>6 DEF Received, NonEmpty

-----------------------------------------------------------------------------
(* Routing                                                                 *)

Segment  == STRING \cup {FUSED}
Segments == Seq(Segment)

LEMMA ExtendType ==
  ASSUME NEW path \in Segments, NEW c
  PROVE  Extend(path, c) \in Segments
<1>1. CASE c \in Paths
  <2>1. SegmentsOf[c] \in Seq(STRING)
    BY <1>1, ConfigAssumption
  <2>2. SegmentsOf[c] \in Segments
    BY <2>1 DEF Segments, Segment
  <2> QED BY <1>1, <2>2 DEF Extend, Segments
<1>2. CASE c \notin Paths
  <2>1. SubSeq(path, 1, Len(path) - 1) \in Segments
    BY DEF Segments
  <2>2. <<FUSED>> \in Segments
    <3>1. FUSED \in Segment
      BY DEF Segment
    <3>2. ASSUME NEW S, NEW x \in S PROVE <<x>> \in Seq(S)
      OBVIOUS
    <3> QED BY <3>1, <3>2 DEF Segments
  <2> QED BY <1>2, <2>1, <2>2 DEF Extend, Segments
<1> QED BY <1>1, <1>2

LEMMA PathsOfDef ==
  ASSUME NEW uri, Len(uri) \in Nat
  PROVE  PathsOf(uri) =
            [i \in 0..Len(uri) |->
                IF i = 0 THEN <<>> ELSE Extend(PathsOf(uri)[i - 1], uri[i])]
<1> DEFINE T == {k \in Nat : \E f : f = [i \in 0..k |->
                    IF i = 0 THEN <<>> ELSE Extend(f[i - 1], uri[i])]}
<1>1. 0 \in T
  <2> DEFINE f == [i \in 0..0 |-> <<>>]
  <2>1. f = [i \in 0..0 |-> IF i = 0 THEN <<>> ELSE Extend(f[i - 1], uri[i])]
    OBVIOUS
  <2> QED BY <2>1
<1>2. \A k \in Nat : k \in T => k + 1 \in T
  <2> SUFFICES ASSUME NEW k \in Nat, k \in T PROVE k + 1 \in T
    OBVIOUS
  <2>1. PICK f : f = [i \in 0..k |-> IF i = 0 THEN <<>> ELSE Extend(f[i - 1], uri[i])]
    OBVIOUS
  <2> DEFINE g == [i \in 0..(k + 1) |-> IF i \in 0..k THEN f[i] ELSE Extend(f[k], uri[i])]
  <2>2. \A i \in 0..(k + 1) : g[i] = IF i = 0 THEN <<>> ELSE Extend(g[i - 1], uri[i])
    <3> TAKE i \in 0..(k + 1)
    <3>1. CASE i = 0
      BY <3>1, <2>1
    <3>2. CASE i \in 1..k
      BY <3>2, <2>1
    <3>3. CASE i = k + 1
      BY <3>3, <2>1
    <3> QED BY <3>1, <3>2, <3>3
  <2>3. g = [i \in 0..(k + 1) |-> IF i = 0 THEN <<>> ELSE Extend(g[i - 1], uri[i])]
    BY <2>2
  <2>4. \E h : h = [i \in 0..(k + 1) |-> IF i = 0 THEN <<>> ELSE Extend(h[i - 1], uri[i])]
    BY <2>3, Zenon
  <2>5. k + 1 \in Nat
    OBVIOUS
  <2> QED BY <2>4, <2>5, Zenon
<1>3. Len(uri) \in T
  <2> HIDE DEF T
  <2> QED BY <1>1, <1>2, SetInduction
<1>4. PICK f : f = [i \in 0..Len(uri) |-> IF i = 0 THEN <<>> ELSE Extend(f[i - 1], uri[i])]
  BY <1>3
<1> QED BY <1>4, Zenon DEF PathsOf

LEMMA PathOfType ==
  ASSUME NEW uri \in Text
  PROVE  PathOf(uri) \in Segments
<1> DEFINE T == {i \in Nat : i <= Len(uri) => PathsOf(uri)[i] \in Segments}
<1>1. Len(uri) \in Nat
  BY DEF Text
<1>2. PathsOf(uri) = [i \in 0..Len(uri) |->
                IF i = 0 THEN <<>> ELSE Extend(PathsOf(uri)[i - 1], uri[i])]
  BY <1>1, PathsOfDef
<1>3. 0 \in T
  BY <1>1, <1>2 DEF Segments
<1>4. \A n \in Nat : n \in T => n + 1 \in T
  <2> SUFFICES ASSUME NEW n \in Nat, n \in T, n + 1 <= Len(uri)
               PROVE  PathsOf(uri)[n + 1] \in Segments
    OBVIOUS
  <2>1. n + 1 \in 0..Len(uri) /\ n + 1 # 0 /\ (n + 1) - 1 = n /\ n <= Len(uri)
    BY <1>1
  <2>2. PathsOf(uri)[n] \in Segments
    BY <2>1
  <2>3. PathsOf(uri)[n + 1] = Extend(PathsOf(uri)[n], uri[n + 1])
    BY <1>2, <2>1
  <2> QED BY <2>2, <2>3, ExtendType
<1>5. Len(uri) \in T
  <2> HIDE DEF T
  <2> QED BY <1>1, <1>3, <1>4, SetInduction
<1> QED BY <1>1, <1>5 DEF PathOf

LEMMA BoundedMaximum ==
  ASSUME NEW n \in Nat, NEW S \in SUBSET (1..n), S # {}
  PROVE  \E k \in S : \A j \in S : j <= k
<1> DEFINE U == {m \in Nat : \A j \in S : j <= m}
<1>1. n \in U /\ U \subseteq Nat
  OBVIOUS
<1>2. PICK k \in U : \A m \in U : ~(<<m, k>> \in OpToRel(<, Nat))
  <2> HIDE DEF U
  <2> QED BY <1>1, WFMin, NatLessThanWellFounded, Zenon
<1>3. k \in Nat /\ \A j \in S : j <= k
  OBVIOUS
<1>4. ASSUME k \notin S PROVE FALSE
  <2>1. k # 0
    <3>1. PICK j \in S : j \in 1..n
      OBVIOUS
    <3>2. j <= k /\ j >= 1 /\ j \in Nat
      BY <1>3, <3>1
    <3> QED BY <1>3, <3>2
  <2>2. k - 1 \in Nat /\ k - 1 < k
    BY <1>3, <2>1
  <2>3. \A j \in S : j <= k - 1
    BY <1>3, <1>4
  <2>4. k - 1 \in U
    BY <2>2, <2>3
  <2>5. <<k - 1, k>> \in OpToRel(<, Nat)
    BY <1>3, <2>2 DEF OpToRel
  <2> QED BY <1>2, <2>4, <2>5
<1> QED BY <1>3, <1>4

LEMMA RouteType ==
  ASSUME NEW h, DOMAIN h = Keys, NEW uri \in Text
  PROVE  Route(h, uri).found \in BOOLEAN /\ Route(h, uri).key \in Keys
<1> DEFINE path == PathOf(uri)
           hits == {k \in 1..Len(path) : Known(h, SubSeq(path, 1, k))}
           longest == CHOOSE k \in hits : \A j \in hits : j <= k
<1>1. Len(path) \in Nat
  BY PathOfType DEF Segments
<1>2. hits # {} => SubSeq(path, 1, longest) \in Keys
  <2> SUFFICES ASSUME hits # {} PROVE SubSeq(path, 1, longest) \in Keys
    OBVIOUS
  <2>1. hits \in SUBSET (1..Len(path))
    OBVIOUS
  <2>2. \E k \in hits : \A j \in hits : j <= k
    <3> HIDE DEF hits, path
    <3> QED BY <1>1, <2>1, BoundedMaximum
  <2>3. longest \in hits
    <3> HIDE DEF hits
    <3> QED BY <2>2
  <2> HIDE DEF longest
  <2> QED BY <2>3 DEF Known
<1>3. ROOT \in Keys
  BY DEF Keys
<1>4. Known(h, HTTP) => HTTP \in Keys
  BY DEF Known
<1>5. Route(h, uri) = IF uri # <<>> /\ uri[1] \in Urls /\ Known(h, HTTP)
        THEN [found |-> TRUE, key |-> HTTP]
        ELSE IF uri # <<>> /\ uri[1] \in Paths /\ hits # {}
             THEN [found |-> TRUE, key |-> SubSeq(path, 1, longest)]
             ELSE [found |-> FALSE, key |-> ROOT]
  BY DEF Route
<1> HIDE DEF hits, longest, path
<1> QED BY <1>2, <1>3, <1>4, <1>5

-----------------------------------------------------------------------------
(* Types.  The parser's part needs it to be well formed, so the two go     *)
(* together.                                                               *)

Typed == TypeOK /\ SharedParserWellFormed

USE DEF objects, pending, threads, shared, client, answers

LEMMA InitTyped == Init => Typed
<1> SUFFICES ASSUME Init PROVE Typed
  OBVIOUS
<1>1. req_parser \in Parser /\ WellFormed(req_parser)
  BY FreshParserType DEF Init
<1>2. handlers_tackers \in [Keys -> HandlerTypes \cup {"NULL", "ABSENT"}]
  BY ConfigAssumption DEF Init, Handlers
<1>3. /\ up \in {"running", "exited", "crashed"}
      /\ status \in Nat
      /\ clientIp \in Sessions \cup {NoSession}
      /\ acceptor \in Sessions \cup {NoSession}
      /\ io \in Sessions \cup {NoSession}
      /\ life \in [Sessions -> {"unborn", "accepting", "open", "deleted"}]
      /\ reads \in [Sessions -> Nat]
      /\ writes \in [Sessions -> Nat]
      /\ workers \in [Sessions -> Nat]
      /\ request_start \in [Sessions -> BOOLEAN]
      /\ conn \in [Sessions -> {"up", "gone"}]
      /\ logged \in [about : Sessions \cup {NoSession}, ip : Sessions \cup {NoSession}]
  BY DEF Init
<1>4. task \in [session : Sessions \cup {NoSession}, found : BOOLEAN, key : Keys]
  BY DEF Init, NoTask, Keys
<1>5. future \in [code : Nat, binary : BOOLEAN]
  BY DEF Init, NoReply
<1>6. /\ http_body \in [Sessions -> Text]
      /\ data_ \in [Sessions -> Text]
      /\ request_ \in [Sessions -> Text]
  BY DEF Init, Text
<1>7. inq \in [Sessions -> Seq(Text \ {<<>>})]
  <2>1. ASSUME NEW S, NEW q, q = <<>> PROVE q \in Seq(S)
    BY <2>1
  <2> QED BY <2>1 DEF Init
<1>8. asked \in [Sessions -> Scripts \cup {Nothing}]
  BY DEF Init
<1>9. sent \in [Sessions -> Seq(Answer)]
  BY DEF Init
<1> QED BY <1>1, <1>2, <1>3, <1>4, <1>5, <1>6, <1>7, <1>8, <1>9
        DEF Typed, TypeOK, SharedParserWellFormed

LEMMA CountUp ==
  ASSUME NEW f \in [Sessions -> Nat], NEW s \in Sessions
  PROVE  LET g == [f EXCEPT ![s] = @ + 1]
         IN  g \in [Sessions -> Nat] /\ g[s] = f[s] + 1 /\ \A t \in Sessions \ {s} : g[t] = f[t]
  OBVIOUS

LEMMA CountDown ==
  ASSUME NEW f \in [Sessions -> Nat], NEW s \in Sessions, f[s] > 0
  PROVE  LET g == [f EXCEPT ![s] = @ - 1]
         IN  g \in [Sessions -> Nat] /\ g[s] = f[s] - 1 /\ \A t \in Sessions \ {s} : g[t] = f[t]
<1>1. f[s] \in Nat /\ f[s] - 1 \in Nat
  OBVIOUS
<1> QED BY <1>1

LEMMA StartAcceptTyped ==
  ASSUME NEW alive \in [Sessions -> {"unborn", "accepting", "open", "deleted"}],
         StartAccept(alive)
  PROVE  /\ life' \in [Sessions -> {"unborn", "accepting", "open", "deleted"}]
         /\ acceptor' \in Sessions \cup {NoSession}
  BY DEF StartAccept

LEMMA HandleAcceptTyped ==
  ASSUME Typed, NEW s \in Sessions, HandleAccept(s)
  PROVE  Typed'
<1>1. PICK script \in Scripts, residue \in Residues :
        /\ inq' = [inq EXCEPT ![s] = script]
        /\ asked' = [asked EXCEPT ![s] = script]
        /\ data_' = [data_ EXCEPT ![s] = residue]
  BY DEF HandleAccept
<1>2. script \in Seq(Text \ {<<>>}) /\ residue \in Text
  BY TextAssumption
<1>3. /\ inq' \in [Sessions -> Seq(Text \ {<<>>})]
      /\ asked' \in [Sessions -> Scripts \cup {Nothing}]
      /\ data_' \in [Sessions -> Text]
  BY <1>1, <1>2 DEF Typed, TypeOK
<1>4. /\ life' \in [Sessions -> {"unborn", "accepting", "open", "deleted"}]
      /\ acceptor' \in Sessions \cup {NoSession}
  <2>1. [life EXCEPT ![s] = "open"] \in [Sessions -> {"unborn", "accepting", "open", "deleted"}]
    BY DEF Typed, TypeOK
  <2> QED BY <2>1, StartAcceptTyped DEF HandleAccept
<1>5. clientIp' \in Sessions \cup {NoSession} /\ reads' \in [Sessions -> Nat]
  BY CountUp DEF HandleAccept, Typed, TypeOK
<1> QED BY <1>3, <1>4, <1>5 DEF HandleAccept, Typed, TypeOK, SharedParserWellFormed

LEMMA HandleAcceptErrorTyped ==
  ASSUME Typed, NEW s \in Sessions, HandleAcceptError(s)
  PROVE  Typed'
<1>1. /\ life' \in [Sessions -> {"unborn", "accepting", "open", "deleted"}]
      /\ acceptor' \in Sessions \cup {NoSession}
  <2>1. [life EXCEPT ![s] = "deleted"] \in [Sessions -> {"unborn", "accepting", "open", "deleted"}]
    BY DEF Typed, TypeOK
  <2> QED BY <2>1, StartAcceptTyped DEF HandleAcceptError
<1> QED BY <1>1 DEF HandleAcceptError, Typed, TypeOK, SharedParserWellFormed

LEMMA ReadsTyped ==
  ASSUME TypeOK, NEW s \in Sessions, reads[s] > 0
  PROVE  /\ ReadDone(s) \in [Sessions -> Nat] /\ ReadDone(s)[s] = reads[s] - 1
         /\ ReadAgain(s) \in [Sessions -> Nat] /\ ReadAgain(s)[s] = reads[s]
         /\ \A t \in Sessions \ {s} : ReadDone(s)[t] = reads[t] /\ ReadAgain(s)[t] = reads[t]
<1>1. reads \in [Sessions -> Nat] /\ reads[s] \in Nat
  BY DEF TypeOK
<1>2. /\ ReadDone(s) \in [Sessions -> Nat] /\ ReadDone(s)[s] = reads[s] - 1
      /\ \A t \in Sessions \ {s} : ReadDone(s)[t] = reads[t]
  BY <1>1, CountDown DEF ReadDone
<1>3. /\ ReadAgain(s) \in [Sessions -> Nat] /\ ReadAgain(s)[s] = ReadDone(s)[s] + 1
      /\ \A t \in Sessions \ {s} : ReadAgain(s)[t] = ReadDone(s)[t]
  BY <1>2, CountUp DEF ReadAgain
<1> QED BY <1>1, <1>2, <1>3

LEMMA GoodRequestTyped ==
  ASSUME Typed, NEW s \in Sessions, NEW body \in Text, reads[s] > 0, GoodRequest(s, body)
  PROVE  /\ req_parser' \in Parser /\ WellFormed(req_parser')
         /\ request_' \in [Sessions -> Text]
         /\ task' \in [session : Sessions \cup {NoSession}, found : BOOLEAN, key : Keys]
         /\ http_body' \in [Sessions -> Text]
         /\ io' = s
         /\ reads' \in [Sessions -> Nat]
<1> DEFINE parsed == Parse(req_parser, request_[s], body)
           route == Route(handlers_tackers, parsed.uri)
<1>1. Parsed(parsed)
  BY ParseParsed DEF Typed, TypeOK, SharedParserWellFormed
<1>2. parsed.parser \in Parser /\ WellFormed(parsed.parser) /\ parsed.uri \in Text
  BY <1>1 DEF Parsed, ParseResults
<1>3. route.found \in BOOLEAN /\ route.key \in Keys
  BY <1>2, RouteType DEF Typed, TypeOK
<1>4. /\ req_parser' = parsed.parser
      /\ request_' = [request_ EXCEPT ![s] = parsed.uri]
      /\ task' = [session |-> s, found |-> route.found, key |-> route.key]
      /\ http_body' = [http_body EXCEPT ![s] = body]
      /\ io' = s
      /\ reads' = ReadDone(s)
  BY DEF GoodRequest
<1> HIDE DEF parsed, route
<1> QED BY <1>2, <1>3, <1>4, ReadsTyped DEF Typed, TypeOK

LEMMA BadRequestTyped ==
  ASSUME Typed, NEW s \in Sessions, NEW body \in Text, reads[s] > 0, BadRequest(s, body)
  PROVE  /\ req_parser' \in Parser /\ WellFormed(req_parser')
         /\ request_' \in [Sessions -> Text]
         /\ logged' \in [about : Sessions \cup {NoSession}, ip : Sessions \cup {NoSession}]
         /\ http_body' \in [Sessions -> Text]
         /\ workers' \in [Sessions -> Nat]
         /\ reads' \in [Sessions -> Nat]
<1> DEFINE parsed == Parse(req_parser, request_[s], body)
<1>1. Parsed(parsed)
  BY ParseParsed DEF Typed, TypeOK, SharedParserWellFormed
<1>2. parsed.parser \in Parser /\ WellFormed(parsed.parser)
  BY <1>1 DEF Parsed, ParseResults
<1>3. req_parser' = parsed.parser
  BY DEF BadRequest
<1>4. <<>> \in Text
  BY DEF Text
<1>5. http_body' \in [Sessions -> Text] /\ request_' \in [Sessions -> Text]
  BY <1>4 DEF BadRequest, Typed, TypeOK
<1>6. workers' \in [Sessions -> Nat] /\ reads' \in [Sessions -> Nat]
  BY CountUp, ReadsTyped DEF BadRequest, Typed, TypeOK
<1>7. logged' \in [about : Sessions \cup {NoSession}, ip : Sessions \cup {NoSession}]
  BY DEF BadRequest, Typed, TypeOK
<1> HIDE DEF parsed
<1> QED BY <1>2, <1>3, <1>5, <1>6, <1>7

LEMMA HandleReadTyped ==
  ASSUME Typed, NEW s \in Sessions, HandleRead(s)
  PROVE  Typed'
<1>1. TypeOK /\ reads[s] > 0 /\ inq[s] # <<>>
  BY DEF HandleRead, Typed
<1>2. inq' \in [Sessions -> Seq(Text \ {<<>>})]
  <2>1. AfterChunk(s) \in Seq(Text \ {<<>>})
    BY <1>1, ChunkType DEF NonEmpty
  <2> QED BY <2>1 DEF HandleRead, Typed, TypeOK
<1>3. PICK request \in Received(s) : \E verdict, body :
        /\ body = http_body[s] \o request
        /\ \/ /\ verdict \in {"whole", "end"}
              /\ GoodRequest(s, body)
              /\ request_start' = [request_start EXCEPT ![s] = FALSE]
              /\ data_' = [data_ EXCEPT ![s] = Buffer(s)]
           \/ /\ verdict \in {"line", "header"}
              /\ KeepReading(s, body)
              /\ request_start' = [request_start EXCEPT ![s] = TRUE]
              /\ data_' = [data_ EXCEPT ![s] = <<>>]
           \/ /\ verdict \in {"bad method", "bad header", "garbage"}
              /\ BadRequest(s, body)
              /\ request_start' = [request_start EXCEPT ![s] = FALSE]
              /\ data_' = [data_ EXCEPT ![s] = Buffer(s)]
           \/ /\ verdict = "blank"
              /\ KeepReading(s, http_body[s])
              /\ data_' = [data_ EXCEPT ![s] = Buffer(s)]
              /\ UNCHANGED request_start
  BY Zenon DEF HandleRead
<1>4. PICK body : /\ body = http_body[s] \o request
                  /\ \/ GoodRequest(s, body) \/ BadRequest(s, body)
                     \/ KeepReading(s, body) \/ KeepReading(s, http_body[s])
  BY <1>3
<1>5. http_body[s] \in Text /\ body \in Text
  BY <1>1, <1>4, ReceivedType, ConcatType DEF NonEmpty, TypeOK
<1>6. data_' \in [Sessions -> Text] /\ request_start' \in [Sessions -> BOOLEAN]
  <2>1. Buffer(s) \in Text /\ <<>> \in Text
    BY <1>1, ReceivedType DEF Text
  <2>2. /\ \/ data_' = [data_ EXCEPT ![s] = Buffer(s)]
           \/ data_' = [data_ EXCEPT ![s] = <<>>]
        /\ \/ request_start' = [request_start EXCEPT ![s] = TRUE]
           \/ request_start' = [request_start EXCEPT ![s] = FALSE]
           \/ request_start' = request_start
    BY <1>3
  <2>3. data_ \in [Sessions -> Text] /\ request_start \in [Sessions -> BOOLEAN]
    BY <1>1 DEF TypeOK
  <2>4. data_' \in [Sessions -> Text]
    BY <2>1, <2>2, <2>3
  <2>5. request_start' \in [Sessions -> BOOLEAN]
    BY <2>2, <2>3
  <2> QED BY <2>4, <2>5
<1>7. UNCHANGED <<up, clientIp, acceptor, life, conn, asked>>
  BY DEF HandleRead
<1>8. CASE GoodRequest(s, body)
  <2>1. UNCHANGED <<handlers_tackers, status, future, writes, workers, sent, logged>>
    BY <1>8 DEF GoodRequest
  <2> QED BY <1>1, <1>2, <1>5, <1>6, <1>7, <1>8, <2>1, GoodRequestTyped
          DEF Typed, TypeOK, SharedParserWellFormed
<1>9. CASE BadRequest(s, body)
  <2>1. UNCHANGED <<handlers_tackers, status, io, task, future, writes, sent>>
    BY <1>9 DEF BadRequest
  <2> QED BY <1>1, <1>2, <1>5, <1>6, <1>7, <1>9, <2>1, BadRequestTyped
          DEF Typed, TypeOK, SharedParserWellFormed
<1>10. ASSUME NEW kept \in Text, KeepReading(s, kept) PROVE Typed'
  <2>1. UNCHANGED <<request_, req_parser, handlers_tackers, status, io, task, future, writes,
                    workers, sent, logged>>
    BY <1>10 DEF KeepReading
  <2>2. http_body' \in [Sessions -> Text] /\ reads' \in [Sessions -> Nat]
    BY <1>1, <1>10, ReadsTyped DEF KeepReading, TypeOK
  <2> QED BY <1>1, <1>2, <1>6, <1>7, <2>1, <2>2, ZenonT(40) DEF Typed, TypeOK, SharedParserWellFormed
<1> QED BY <1>4, <1>5, <1>8, <1>9, <1>10

LEMMA DeleteTyped ==
  ASSUME TypeOK, NEW s \in Sessions, Delete(s)
  PROVE  /\ life' \in [Sessions -> {"unborn", "accepting", "open", "deleted"}]
         /\ clientIp' \in Sessions \cup {NoSession}
  BY DEF TypeOK, Delete

LEMMA HandleReadErrorTyped ==
  ASSUME Typed, NEW s \in Sessions, HandleReadError(s)
  PROVE  Typed'
<1>1. TypeOK /\ reads' \in [Sessions -> Nat]
  BY ReadsTyped DEF HandleReadError, Typed
<1> QED BY <1>1, DeleteTyped, ZenonT(40) DEF HandleReadError, Typed, TypeOK, SharedParserWellFormed

LEMMA SendResponseTyped ==
  ASSUME TypeOK, NEW s \in Sessions, NEW answer \in Answer, SendResponse(s, answer)
  PROVE  /\ data_' \in [Sessions -> Text]
         /\ writes' \in [Sessions -> Nat]
         /\ sent' \in [Sessions -> Seq(Answer)]
<1>1. data_' \in [Sessions -> Text]
  BY DEF TypeOK, SendResponse, Text
<1>2. writes' \in [Sessions -> Nat]
  BY CountUp DEF TypeOK, SendResponse
<1>3. sent' \in [Sessions -> Seq(Answer)]
  BY DEF TypeOK, SendResponse
<1> QED BY <1>1, <1>2, <1>3

LEMMA RepliesType ==
  ASSUME NEW h \in HandlerTypes, NEW reply \in Replies(h)
  PROVE  reply \in [code : Nat, binary : BOOLEAN] /\ reply # NoReply /\ Records(reply) \in Nat
<1>1. reply.code \in {200, 404, 500, 504} /\ reply \in [code : Nat, binary : BOOLEAN]
  BY DEF Replies
<1>2. NoReply.code = 0
  BY DEF NoReply
<1> QED BY <1>1, <1>2 DEF Records

LEMMA HandlerTaskTyped ==
  ASSUME Typed, HandlerTask
  PROVE  Typed'
<1> DEFINE h == handlers_tackers[task.key]
           server == IF h \in HandlerTypes THEN h ELSE "ErrorHandler"
<1>1. task.key \in Keys /\ h \in HandlerTypes \cup {"NULL", "ABSENT"}
  BY DEF Typed, TypeOK
<1>2. CASE task.found /\ h = "NULL"
  BY <1>2, ZenonT(40) DEF HandlerTask, Typed, TypeOK, SharedParserWellFormed
<1>3. CASE ~(task.found /\ h = "NULL")
  <2>1. PICK reply \in Replies(server) :
          future' = reply /\ status' = status + Records(reply)
    BY <1>3 DEF HandlerTask
  <2>2. server \in HandlerTypes
    BY DEF HandlerTypes
  <2>3. future' \in [code : Nat, binary : BOOLEAN] /\ status' \in Nat
    <3> HIDE DEF server
    <3>1. status \in Nat
      BY DEF Typed, TypeOK
    <3>2. reply \in [code : Nat, binary : BOOLEAN] /\ Records(reply) \in Nat
      BY <2>2, RepliesType
    <3> QED BY <2>1, <3>1, <3>2
  <2>4. handlers_tackers' \in [Keys -> HandlerTypes \cup {"NULL", "ABSENT"}]
    BY <1>1, <1>3 DEF HandlerTask, Typed, TypeOK
  <2>5. task' \in [session : Sessions \cup {NoSession}, found : BOOLEAN, key : Keys]
    <3>1. task' = NoTask
      BY <1>3 DEF HandlerTask
    <3>2. NoTask \in [session : Sessions \cup {NoSession}, found : BOOLEAN, key : Keys]
      BY DEF NoTask, Keys
    <3> QED BY <3>1, <3>2
  <2> HIDE DEF h
  <2>6. UNCHANGED <<up, req_parser, clientIp, acceptor, io, life, pending, objects, client, answers>>
    BY <1>3 DEF HandlerTask, h
  <2> QED BY <2>3, <2>4, <2>5, <2>6 DEF Typed, TypeOK, SharedParserWellFormed
<1> QED BY <1>2, <1>3

LEMMA GoodRequestEndTyped ==
  ASSUME Typed, NEW s \in Sessions, GoodRequestEnd(s)
  PROVE  Typed'
<1> DEFINE answer == [code |-> future.code, uri |-> request_[s], own |-> OwnUri(http_body[s])]
<1>1. OwnUri(http_body[s]) \in Text
  <2>1. Parsed(Parse(FreshParser, <<>>, http_body[s]))
    <3>1. http_body[s] \in Text
      BY DEF Typed, TypeOK
    <3>2. <<>> \in Text
      BY DEF Text
    <3> QED BY <3>1, <3>2, FreshParserType, ParseParsed
  <2> QED BY <2>1 DEF OwnUri, Parsed, ParseResults
<1>2. answer \in Answer
  BY <1>1 DEF Answer, Typed, TypeOK
<1>3. /\ data_' \in [Sessions -> Text]
      /\ writes' \in [Sessions -> Nat]
      /\ sent' \in [Sessions -> Seq(Answer)]
  <2> HIDE DEF answer
  <2>1. SendResponse(s, answer)
    BY DEF GoodRequestEnd, answer
  <2> QED BY <1>2, <2>1, SendResponseTyped DEF Typed
<1>4. http_body' \in [Sessions -> Text] /\ request_' \in [Sessions -> Text]
  <2>1. <<>> \in Text
    BY DEF Text
  <2> QED BY <2>1 DEF GoodRequestEnd, Typed, TypeOK
<1>5. /\ logged' \in [about : Sessions \cup {NoSession}, ip : Sessions \cup {NoSession}]
      /\ io' \in Sessions \cup {NoSession}
      /\ future' \in [code : Nat, binary : BOOLEAN]
  BY DEF GoodRequestEnd, Typed, TypeOK, NoReply
<1>6. UNCHANGED <<up, shared, clientIp, acceptor, task, life, reads, workers, request_start,
                  client>>
  BY DEF GoodRequestEnd
<1> QED BY <1>3, <1>4, <1>5, <1>6 DEF Typed, TypeOK, SharedParserWellFormed

LEMMA DispatchThrowsTyped ==
  ASSUME Typed, NEW s \in Sessions, DispatchThrows(s)
  PROVE  Typed'
<1>1. data_' \in [Sessions -> Text]
  BY DEF DispatchThrows, Typed, TypeOK, Text
<1>2. writes' \in [Sessions -> Nat]
  BY CountUp DEF DispatchThrows, Typed, TypeOK
<1> QED BY <1>1, <1>2 DEF DispatchThrows, Typed, TypeOK, SharedParserWellFormed

LEMMA BadRequestThreadTyped ==
  ASSUME Typed, NEW s \in Sessions, BadRequestThread(s)
  PROVE  Typed'
<1>1. [code |-> 400, uri |-> <<>>, own |-> <<>>] \in Answer
  BY DEF Answer, Text
<1>2. /\ data_' \in [Sessions -> Text]
      /\ writes' \in [Sessions -> Nat]
      /\ sent' \in [Sessions -> Seq(Answer)]
  BY <1>1, SendResponseTyped DEF BadRequestThread, Typed
<1>3. workers' \in [Sessions -> Nat]
  BY CountDown DEF BadRequestThread, Typed, TypeOK
<1>4. UNCHANGED <<up, shared, clientIp, acceptor, threads, life, reads, request_start,
                  http_body, request_, client, logged>>
  BY DEF BadRequestThread
<1> QED BY <1>2, <1>3, <1>4, ZenonT(40) DEF Typed, TypeOK, SharedParserWellFormed

LEMMA HandleWriteTyped ==
  ASSUME Typed, NEW s \in Sessions, HandleWrite(s) \/ HandleWriteError(s)
  PROVE  Typed'
<1>1. writes' \in [Sessions -> Nat]
  <2>1. writes \in [Sessions -> Nat]
    BY DEF Typed, TypeOK
  <2>2. writes[s] > 0 /\ writes' = [writes EXCEPT ![s] = @ - 1]
    BY DEF HandleWrite, HandleWriteError
  <2> QED BY <2>1, <2>2, CountDown
<1>2. CASE HandleWrite(s)
  <2>1. reads' \in [Sessions -> Nat]
    BY <1>2, CountUp DEF HandleWrite, Typed, TypeOK
  <2> QED BY <1>1, <1>2, <2>1, ZenonT(40) DEF HandleWrite, Typed, TypeOK, SharedParserWellFormed
<1>3. CASE HandleWriteError(s)
  BY <1>1, <1>3, DeleteTyped, ZenonT(40) DEF HandleWriteError, Typed, TypeOK, SharedParserWellFormed
<1> QED BY <1>2, <1>3

LEMMA NextTyped == Typed /\ [Next]_vars => Typed'
<1> SUFFICES ASSUME Typed, [Next]_vars PROVE Typed'
  OBVIOUS
<1>1. ASSUME NEW s \in Sessions, HandleAccept(s) \/ HandleAcceptError(s) PROVE Typed'
  BY <1>1, HandleAcceptTyped, HandleAcceptErrorTyped
<1>2. ASSUME NEW s \in Sessions, HandleAcceptThrows(s) PROVE Typed'
  BY <1>2 DEF HandleAcceptThrows, Typed, TypeOK, SharedParserWellFormed
<1>3. ASSUME NEW s \in Sessions, IoThread(s) PROVE Typed'
  BY <1>3, HandleReadTyped, HandleReadErrorTyped, GoodRequestEndTyped, HandleWriteTyped
     DEF IoThread
<1>4. ASSUME NEW s \in Sessions, DispatchThrows(s) \/ BadRequestThread(s) PROVE Typed'
  BY <1>4, DispatchThrowsTyped, BadRequestThreadTyped
<1>5. ASSUME NEW s \in Sessions, Disconnect(s) PROVE Typed'
  BY <1>5 DEF Disconnect, Typed, TypeOK, SharedParserWellFormed
<1>6. CASE HandlerTask
  BY <1>6, HandlerTaskTyped
<1>7. CASE HandlerThrows
  BY <1>7 DEF HandlerThrows, Typed, TypeOK, SharedParserWellFormed
<1>8. CASE UNCHANGED vars
  BY <1>8, ZenonT(40) DEF vars, Typed, TypeOK, SharedParserWellFormed
<1> QED BY <1>1, <1>2, <1>3, <1>4, <1>5, <1>6, <1>7, <1>8 DEF Next

\* Every variable keeps its type, whatever texts the clients send and however
\* they are cut into chunks.
THEOREM SessionTyped == Spec => []TypeOK
<1>1. Typed => TypeOK
  BY DEF Typed
<1> QED BY <1>1, InitTyped, NextTyped, PTL DEF Spec

\* The parser that all sessions share can always take its next character: no
\* mixture of complete, cut and rejected requests leaves it in a state in which
\* headers_.back() or the decrement of `remaining' is undefined.
THEOREM SharedParserSafe == Spec => []SharedParserWellFormed
<1>1. Typed => SharedParserWellFormed
  BY DEF Typed
<1> QED BY <1>1, InitTyped, NextTyped, PTL DEF Spec

-----------------------------------------------------------------------------
(* The life cycle.  SessionOwnership is not inductive alone: an accepted   *)
(* session must be the one the acceptor waited with (Accepting), and while *)
(* the io thread waits for an answer the request it is for has been taken  *)
(* off its session (WaiterReady).                                          *)

Accepting == acceptor # NoSession => life[acceptor] = "accepting"

WaiterReady == io # NoSession => ~request_start[io]

IInv ==
    /\ Typed
    /\ Accepting
    /\ WaiterReady
    /\ SessionOwnership
    /\ FutureMatchesWaiter
    /\ NoLeftover

\* What one activity says about the others.
LEMMA OneActivity ==
  ASSUME TypeOK, SessionOwnership, up = "running", NEW s \in Sessions
  PROVE  /\ life[s] # "open" => reads[s] = 0 /\ writes[s] = 0 /\ workers[s] = 0 /\ io # s
         /\ reads[s] > 0 => /\ life[s] = "open" /\ reads[s] = 1
                            /\ writes[s] = 0 /\ workers[s] = 0 /\ io # s
         /\ writes[s] > 0 => /\ life[s] = "open" /\ writes[s] = 1
                             /\ reads[s] = 0 /\ workers[s] = 0 /\ io # s
         /\ workers[s] > 0 => /\ life[s] = "open" /\ workers[s] = 1
                              /\ reads[s] = 0 /\ writes[s] = 0 /\ io # s
         /\ io = s => /\ life[s] = "open"
                      /\ reads[s] = 0 /\ writes[s] = 0 /\ workers[s] = 0
<1>1. reads[s] \in Nat /\ writes[s] \in Nat /\ workers[s] \in Nat
  BY DEF TypeOK
<1>2. reads[s] + writes[s] + workers[s] + Serving(s) = IF life[s] = "open" THEN 1 ELSE 0
  BY DEF SessionOwnership, Activities
<1>3. Serving(s) = IF io = s THEN 1 ELSE 0
  BY DEF Serving
<1> QED BY <1>1, <1>2, <1>3

\* A step that concerns session s alone keeps the others' activities.
LEMMA OneSession ==
  ASSUME SessionOwnership, up = "running", NEW s \in Sessions,
         \A t \in Sessions \ {s} :
            /\ reads'[t] = reads[t] /\ writes'[t] = writes[t] /\ workers'[t] = workers[t]
            /\ io' = t <=> io = t
            /\ life'[t] = "open" <=> life[t] = "open",
         reads'[s] + writes'[s] + workers'[s] + Serving(s)'
            = IF life'[s] = "open" THEN 1 ELSE 0
  PROVE  SessionOwnership'
<1> SUFFICES ASSUME NEW t \in Sessions
             PROVE  Activities(t)' = IF life'[t] = "open" THEN 1 ELSE 0
  BY DEF SessionOwnership
<1>1. CASE t = s
  BY <1>1 DEF Activities
<1>2. CASE t # s
  <2>1. Activities(t) = IF life[t] = "open" THEN 1 ELSE 0
    BY DEF SessionOwnership
  <2>2. Activities(t)' = Activities(t)
    BY <1>2 DEF Activities, Serving
  <2> QED BY <1>2, <2>1, <2>2
<1> QED BY <1>1, <1>2

LEMMA InitIInv == Init => IInv
<1> SUFFICES ASSUME Init PROVE IInv
  OBVIOUS
<1>1. Typed
  BY InitTyped
<1>2. Accepting /\ WaiterReady
  BY SessionsAssumption DEF Init, Accepting, WaiterReady
<1>3. SessionOwnership
  BY SessionsAssumption DEF Init, SessionOwnership, Activities, Serving
<1>4. FutureMatchesWaiter /\ NoLeftover
  BY DEF Init, FutureMatchesWaiter, NoLeftover
<1> QED BY <1>1, <1>2, <1>3, <1>4 DEF IInv

LEMMA StartAcceptLife ==
  ASSUME NEW alive \in [Sessions -> {"unborn", "accepting", "open", "deleted"}],
         StartAccept(alive)
  PROVE  /\ Accepting'
         /\ \A t \in Sessions : /\ life'[t] = "open" <=> alive[t] = "open"
                                /\ alive[t] # "unborn" => life'[t] = alive[t]
  BY DEF StartAccept, Accepting

LEMMA HandleAcceptIInv ==
  ASSUME IInv, NEW s \in Sessions, HandleAccept(s)
  PROVE  IInv'
<1> DEFINE alive == [life EXCEPT ![s] = "open"]
<1>1. TypeOK /\ Typed'
  BY HandleAcceptTyped DEF IInv, Typed
<1>2. up = "running" /\ io = NoSession /\ acceptor = s
  BY DEF HandleAccept, InLoop
<1>3. life[s] = "accepting"
  BY <1>2, SessionsAssumption DEF IInv, Accepting
<1>4. alive \in [Sessions -> {"unborn", "accepting", "open", "deleted"}]
      /\ alive[s] = "open" /\ \A t \in Sessions \ {s} : alive[t] = life[t]
  BY <1>1 DEF TypeOK
<1>5. Accepting' /\ \A t \in Sessions : life'[t] = "open" <=> alive[t] = "open"
  <2> HIDE DEF alive
  <2>1. StartAccept(alive)
    BY DEF HandleAccept, alive
  <2> QED BY <1>4, <2>1, StartAcceptLife
<1>6. reads[s] = 0 /\ writes[s] = 0 /\ workers[s] = 0
  BY <1>1, <1>2, <1>3, OneActivity DEF IInv
<1>7. reads'[s] = 1 /\ \A t \in Sessions \ {s} : reads'[t] = reads[t]
  BY <1>1, <1>6 DEF HandleAccept, TypeOK
<1>8. UNCHANGED <<up, io, task, future, writes, workers, request_start, http_body, request_>>
  BY DEF HandleAccept
<1>9. SessionOwnership'
  <2>1. Serving(s)' = 0
    BY <1>2, <1>8, SessionsAssumption DEF Serving
  <2>2. reads'[s] + writes'[s] + workers'[s] + Serving(s)' = 1 /\ life'[s] = "open"
    BY <1>4, <1>5, <1>6, <1>7, <1>8, <2>1
  <2> HIDE DEF alive
  <2> QED BY <1>2, <1>4, <1>5, <1>7, <1>8, <2>2, OneSession DEF IInv
<1>10. WaiterReady' /\ FutureMatchesWaiter' /\ NoLeftover'
  BY <1>8 DEF IInv, WaiterReady, FutureMatchesWaiter, NoLeftover
<1> QED BY <1>1, <1>5, <1>9, <1>10 DEF IInv

LEMMA HandleAcceptErrorIInv ==
  ASSUME IInv, NEW s \in Sessions, HandleAcceptError(s)
  PROVE  IInv'
<1> DEFINE alive == [life EXCEPT ![s] = "deleted"]
<1>1. TypeOK /\ Typed'
  BY HandleAcceptErrorTyped DEF IInv, Typed
<1>2. up = "running" /\ io = NoSession /\ acceptor = s
  BY DEF HandleAcceptError, InLoop
<1>3. life[s] = "accepting"
  BY <1>2, SessionsAssumption DEF IInv, Accepting
<1>4. alive \in [Sessions -> {"unborn", "accepting", "open", "deleted"}]
      /\ alive[s] = "deleted" /\ \A t \in Sessions \ {s} : alive[t] = life[t]
  BY <1>1 DEF TypeOK
<1>5. Accepting' /\ \A t \in Sessions : life'[t] = "open" <=> alive[t] = "open"
  <2> HIDE DEF alive
  <2>1. StartAccept(alive)
    BY DEF HandleAcceptError, alive
  <2> QED BY <1>4, <2>1, StartAcceptLife
<1>6. UNCHANGED <<up, io, task, future, reads, writes, workers, request_start, http_body, request_>>
  BY DEF HandleAcceptError
<1>7. SessionOwnership'
  <2>1. \A t \in Sessions : life'[t] = "open" <=> life[t] = "open"
    BY <1>3, <1>4, <1>5
  <2> QED BY <1>6, <2>1 DEF IInv, SessionOwnership, Activities, Serving
<1>8. WaiterReady' /\ FutureMatchesWaiter' /\ NoLeftover'
  BY <1>6 DEF IInv, WaiterReady, FutureMatchesWaiter, NoLeftover
<1> QED BY <1>1, <1>5, <1>7, <1>8 DEF IInv

\* The four ways handle_read can go on, with the text it has gathered.
LEMMA HandleReadCases ==
  ASSUME TypeOK, NEW s \in Sessions, HandleRead(s)
  PROVE  \E body \in Text : body # <<>> /\
            \/ GoodRequest(s, body) /\ request_start' = [request_start EXCEPT ![s] = FALSE]
            \/ BadRequest(s, body) /\ request_start' = [request_start EXCEPT ![s] = FALSE]
            \/ KeepReading(s, body) /\ request_start' = [request_start EXCEPT ![s] = TRUE]
            \/ KeepReading(s, http_body[s]) /\ UNCHANGED request_start
<1>1. PICK request \in Received(s) : \E body \in {http_body[s] \o request} :
            \/ GoodRequest(s, body) /\ request_start' = [request_start EXCEPT ![s] = FALSE]
            \/ BadRequest(s, body) /\ request_start' = [request_start EXCEPT ![s] = FALSE]
            \/ KeepReading(s, body) /\ request_start' = [request_start EXCEPT ![s] = TRUE]
            \/ KeepReading(s, http_body[s]) /\ UNCHANGED request_start
  BY Zenon DEF HandleRead
<1>2. inq[s] # <<>> /\ http_body[s] \in Text
  BY DEF HandleRead, TypeOK
<1>3. request \in Text /\ request # <<>>
  BY <1>2, ReceivedType DEF NonEmpty
<1>4. http_body[s] \o request \in Text /\ http_body[s] \o request # <<>>
  BY <1>2, <1>3, ConcatType
<1> QED BY <1>1, <1>4

LEMMA HandleReadIInv ==
  ASSUME IInv, NEW s \in Sessions, HandleRead(s)
  PROVE  IInv'
<1>1. TypeOK /\ Typed'
  BY HandleReadTyped DEF IInv, Typed
<1>2. up = "running" /\ io = NoSession /\ reads[s] > 0
  BY DEF HandleRead, InLoop
<1>3. UNCHANGED <<up, acceptor, life>>
  BY DEF HandleRead
<1>4. life[s] = "open" /\ reads[s] = 1 /\ writes[s] = 0 /\ workers[s] = 0
  BY <1>1, <1>2, OneActivity DEF IInv
<1>5. task = NoTask /\ future = NoReply
  BY <1>2 DEF IInv, FutureMatchesWaiter
<1>6. \A t \in Sessions : t # NoSession
  BY SessionsAssumption
<1>7. \A t \in Sessions : (request_start[t] <=> http_body[t] # <<>>) /\ request_[t] = <<>>
  BY <1>2, <1>6 DEF IInv, NoLeftover
<1>8. Accepting'
  BY <1>3 DEF IInv, Accepting
<1>9. /\ ReadDone(s)[s] = 0 /\ ReadAgain(s)[s] = 1
      /\ \A t \in Sessions \ {s} : ReadDone(s)[t] = reads[t] /\ ReadAgain(s)[t] = reads[t]
  BY <1>1, <1>2, <1>4, ReadsTyped
<1>10. ASSUME NEW body \in Text, GoodRequest(s, body),
              request_start' = [request_start EXCEPT ![s] = FALSE]
       PROVE  IInv'
  <2>1. /\ io' = s /\ reads' = ReadDone(s) /\ UNCHANGED <<writes, workers, future>>
        /\ http_body' = [http_body EXCEPT ![s] = body]
        /\ task'.session = s
        /\ \A t \in Sessions \ {s} : request_'[t] = request_[t]
    BY <1>1, <1>10 DEF GoodRequest, TypeOK
  <2>2. SessionOwnership'
    <3>1. Serving(s)' = 1
      BY <2>1 DEF Serving
    <3>2. reads'[s] + writes'[s] + workers'[s] + Serving(s)' = 1 /\ life'[s] = "open"
      BY <1>3, <1>4, <1>9, <2>1, <3>1
    <3> QED BY <1>2, <1>3, <1>6, <1>9, <2>1, <3>2, OneSession DEF IInv
  <2>3. FutureMatchesWaiter'
    <3>1. task' # NoTask
      BY <1>6, <2>1 DEF NoTask
    <3> QED BY <1>5, <1>6, <2>1, <3>1 DEF FutureMatchesWaiter
  <2>4. WaiterReady' /\ NoLeftover'
    BY <1>1, <1>7, <1>10, <2>1 DEF WaiterReady, NoLeftover, TypeOK
  <2> QED BY <1>1, <1>8, <2>2, <2>3, <2>4 DEF IInv
<1>11. ASSUME NEW body \in Text, BadRequest(s, body),
              request_start' = [request_start EXCEPT ![s] = FALSE]
       PROVE  IInv'
  <2>1. /\ reads' = ReadDone(s) /\ UNCHANGED <<writes, io, task, future>>
        /\ http_body' = [http_body EXCEPT ![s] = <<>>]
        /\ request_' = [request_ EXCEPT ![s] = <<>>]
        /\ workers' = [workers EXCEPT ![s] = @ + 1]
    BY <1>11 DEF BadRequest
  <2>2. workers'[s] = 1 /\ \A t \in Sessions \ {s} : workers'[t] = workers[t]
    BY <1>1, <1>4, <2>1 DEF TypeOK
  <2>3. SessionOwnership'
    <3>1. Serving(s)' = 0
      BY <1>2, <1>6, <2>1 DEF Serving
    <3>2. reads'[s] + writes'[s] + workers'[s] + Serving(s)' = 1 /\ life'[s] = "open"
      BY <1>3, <1>4, <1>9, <2>1, <2>2, <3>1
    <3> QED BY <1>2, <1>3, <1>9, <2>1, <2>2, <3>2, OneSession DEF IInv
  <2>4. FutureMatchesWaiter' /\ WaiterReady'
    BY <1>2, <1>5, <2>1 DEF FutureMatchesWaiter, WaiterReady
  <2>5. NoLeftover'
    BY <1>1, <1>7, <1>11, <2>1 DEF NoLeftover, TypeOK
  <2> QED BY <1>1, <1>8, <2>3, <2>4, <2>5 DEF IInv
<1>12. ASSUME NEW kept \in Text, KeepReading(s, kept) PROVE /\ SessionOwnership'
                                                          /\ FutureMatchesWaiter'
                                                          /\ WaiterReady'
  <2>1. reads' = ReadAgain(s) /\ UNCHANGED <<writes, workers, io, task, future>>
    BY <1>12 DEF KeepReading
  <2>2. Serving(s)' = 0
    BY <1>2, <1>6, <2>1 DEF Serving
  <2>3. reads'[s] + writes'[s] + workers'[s] + Serving(s)' = 1 /\ life'[s] = "open"
    BY <1>3, <1>4, <1>9, <2>1, <2>2
  <2>4. SessionOwnership'
    BY <1>2, <1>3, <1>9, <2>1, <2>3, OneSession DEF IInv
  <2> QED BY <1>2, <1>5, <2>1, <2>4 DEF FutureMatchesWaiter, WaiterReady
<1>13. ASSUME NEW body \in Text, body # <<>>, KeepReading(s, body),
              request_start' = [request_start EXCEPT ![s] = TRUE]
       PROVE  IInv'
  <2>1. http_body' = [http_body EXCEPT ![s] = body] /\ request_' = request_
    BY <1>13 DEF KeepReading
  <2>2. NoLeftover'
    BY <1>1, <1>7, <1>13, <2>1 DEF NoLeftover, TypeOK
  <2> QED BY <1>1, <1>8, <1>12, <1>13, <2>2 DEF IInv
<1>14. ASSUME KeepReading(s, http_body[s]), UNCHANGED request_start
       PROVE  IInv'
  <2>1. http_body[s] \in Text
    BY <1>1 DEF TypeOK
  <2>2. http_body' = [http_body EXCEPT ![s] = http_body[s]] /\ request_' = request_
    BY <1>14 DEF KeepReading
  <2>3. NoLeftover'
    BY <1>1, <1>7, <1>14, <2>2 DEF NoLeftover, TypeOK
  <2> QED BY <1>1, <1>8, <1>12, <1>14, <2>1, <2>3 DEF IInv
<1> QED BY <1>1, <1>10, <1>11, <1>13, <1>14, HandleReadCases

LEMMA DeleteIInv ==
  ASSUME IInv, Typed', NEW s \in Sessions, HandleReadError(s) \/ HandleWriteError(s)
  PROVE  IInv'
<1>1. TypeOK /\ TypeOK'
  BY DEF IInv, Typed
<1>2. up = "running" /\ io = NoSession /\ (reads[s] > 0 \/ writes[s] > 0)
  BY DEF HandleReadError, HandleWriteError, InLoop
<1>3. life[s] = "open" /\ reads[s] + writes[s] = 1 /\ workers[s] = 0 /\ io # s
  BY <1>1, <1>2, OneActivity DEF IInv
<1>4. /\ UNCHANGED <<up, acceptor, io, task, future, workers, request_start, http_body, request_>>
      /\ life' = [life EXCEPT ![s] = "deleted"]
  BY DEF HandleReadError, HandleWriteError, Delete
<1>5. /\ reads'[s] + writes'[s] = 0
      /\ \A t \in Sessions \ {s} : reads'[t] = reads[t] /\ writes'[t] = writes[t]
  <2>1. CASE HandleReadError(s)
    <3>1. writes' = writes /\ reads' = ReadDone(s) /\ reads[s] > 0
      BY <2>1 DEF HandleReadError
    <3>2. reads'[s] = reads[s] - 1 /\ \A t \in Sessions \ {s} : reads'[t] = reads[t]
      BY <1>1, <3>1, ReadsTyped
    <3>3. reads[s] \in Nat /\ writes[s] \in Nat
      BY <1>1 DEF TypeOK
    <3> QED BY <1>3, <3>1, <3>2, <3>3
  <2>2. CASE HandleWriteError(s)
    <3>1. reads' = reads /\ writes' = [writes EXCEPT ![s] = @ - 1] /\ writes[s] > 0
      BY <2>2 DEF HandleWriteError
    <3>2. writes'[s] = writes[s] - 1 /\ \A t \in Sessions \ {s} : writes'[t] = writes[t]
      BY <1>1, <3>1, CountDown DEF TypeOK
    <3>3. reads[s] \in Nat /\ writes[s] \in Nat
      BY <1>1 DEF TypeOK
    <3> QED BY <1>3, <3>1, <3>2, <3>3
  <2> QED BY <2>1, <2>2
<1>6. SessionOwnership'
  <2>1. Serving(s)' = 0
    BY <1>3, <1>4 DEF Serving
  <2>2. life'[s] = "deleted" /\ \A t \in Sessions \ {s} : life'[t] = life[t]
    BY <1>1, <1>4 DEF TypeOK
  <2>3. reads'[s] \in Nat /\ writes'[s] \in Nat
    BY <1>1 DEF TypeOK
  <2>4. reads'[s] + writes'[s] + workers'[s] + Serving(s)' = 0
    BY <1>3, <1>4, <1>5, <2>1, <2>3
  <2> QED BY <1>2, <1>4, <1>5, <2>2, <2>4, OneSession DEF IInv
<1>7. Accepting'
  BY <1>1, <1>3, <1>4 DEF IInv, Accepting, TypeOK
<1>8. WaiterReady' /\ FutureMatchesWaiter' /\ NoLeftover'
  BY <1>4 DEF IInv, WaiterReady, FutureMatchesWaiter, NoLeftover
<1> QED BY <1>6, <1>7, <1>8 DEF IInv

LEMMA HandlerTaskIInv ==
  ASSUME IInv, HandlerTask
  PROVE  IInv'
<1> DEFINE h == handlers_tackers[task.key]
           server == IF h \in HandlerTypes THEN h ELSE "ErrorHandler"
<1>1. Typed'
  BY HandlerTaskTyped DEF IInv
<1>2. UNCHANGED <<acceptor, io, life, reads, writes, workers, request_start, http_body, request_>>
      /\ up = "running" /\ task # NoTask
  BY DEF HandlerTask
<1>3. Accepting' /\ WaiterReady'
  BY <1>2 DEF IInv, Accepting, WaiterReady
<1>4. SessionOwnership' /\ NoLeftover'
  BY <1>2 DEF IInv, SessionOwnership, Activities, Serving, NoLeftover
<1>5. FutureMatchesWaiter'
  <2>1. CASE up' = "crashed"
    BY <2>1 DEF FutureMatchesWaiter
  <2>2. CASE up' # "crashed"
    <3>1. task' = NoTask /\ \E reply \in Replies(server) : future' = reply
      BY <1>2, <2>2 DEF HandlerTask
    <3>2. server \in HandlerTypes
      BY DEF HandlerTypes
    <3>3. future' # NoReply
      <4> HIDE DEF server
      <4> QED BY <3>1, <3>2, RepliesType
    <3>4. io' # NoSession
      BY <1>2 DEF IInv, FutureMatchesWaiter
    <3> QED BY <3>1, <3>3, <3>4 DEF FutureMatchesWaiter
  <2> QED BY <2>1, <2>2
<1> QED BY <1>1, <1>3, <1>4, <1>5 DEF IInv

LEMMA GoodRequestEndIInv ==
  ASSUME IInv, NEW s \in Sessions, GoodRequestEnd(s)
  PROVE  IInv'
<1>1. TypeOK /\ Typed'
  BY GoodRequestEndTyped DEF IInv, Typed
<1>2. up = "running" /\ io = s /\ future # NoReply /\ s # NoSession
  BY SessionsAssumption DEF GoodRequestEnd
<1>3. life[s] = "open" /\ reads[s] = 0 /\ writes[s] = 0 /\ workers[s] = 0
  BY <1>1, <1>2, OneActivity DEF IInv
<1>4. /\ UNCHANGED <<up, acceptor, task, life, reads, workers, request_start>>
      /\ io' = NoSession /\ future' = NoReply
      /\ http_body' = [http_body EXCEPT ![s] = <<>>]
      /\ request_' = [request_ EXCEPT ![s] = <<>>]
      /\ writes' = [writes EXCEPT ![s] = @ + 1]
  BY DEF GoodRequestEnd, SendResponse
<1>5. writes'[s] = 1 /\ \A t \in Sessions \ {s} : writes'[t] = writes[t]
  BY <1>1, <1>3, <1>4 DEF TypeOK
<1>6. SessionOwnership'
  <2>1. Serving(s)' = 0
    BY <1>2, <1>4 DEF Serving
  <2>2. reads'[s] + writes'[s] + workers'[s] + Serving(s)' = 1 /\ life'[s] = "open"
    BY <1>3, <1>4, <1>5, <2>1
  <2>3. \A t \in Sessions \ {s} : io' # t /\ io # t
    BY <1>2, <1>4, SessionsAssumption
  <2> QED BY <1>2, <1>4, <1>5, <2>2, <2>3, OneSession DEF IInv
<1>7. FutureMatchesWaiter'
  <2>1. task = NoTask
    BY <1>2 DEF IInv, FutureMatchesWaiter
  <2> QED BY <1>4, <2>1 DEF FutureMatchesWaiter
<1>8. NoLeftover'
  <2>1. ~request_start[s]
    BY <1>2 DEF IInv, WaiterReady
  <2>2. \A t \in Sessions \ {s} : (request_start[t] <=> http_body[t] # <<>>) /\ request_[t] = <<>>
    BY <1>2 DEF IInv, NoLeftover
  <2> QED BY <1>1, <1>4, <2>1, <2>2 DEF NoLeftover, TypeOK
<1>9. Accepting' /\ WaiterReady'
  BY <1>4 DEF IInv, Accepting, WaiterReady
<1> QED BY <1>1, <1>6, <1>7, <1>8, <1>9 DEF IInv

LEMMA BadRequestThreadIInv ==
  ASSUME IInv, NEW s \in Sessions, BadRequestThread(s)
  PROVE  IInv'
<1>1. TypeOK /\ Typed'
  BY BadRequestThreadTyped DEF IInv, Typed
<1>2. up = "running" /\ workers[s] > 0
  BY DEF BadRequestThread
<1>3. life[s] = "open" /\ workers[s] = 1 /\ reads[s] = 0 /\ writes[s] = 0 /\ io # s
  BY <1>1, <1>2, OneActivity DEF IInv
<1>4. /\ UNCHANGED <<up, acceptor, io, task, future, life, reads, request_start, http_body,
                     request_>>
      /\ workers' = [workers EXCEPT ![s] = @ - 1]
      /\ writes' = [writes EXCEPT ![s] = @ + 1]
  BY DEF BadRequestThread, SendResponse
<1>5. /\ writes'[s] = 1 /\ workers'[s] = 0
      /\ \A t \in Sessions \ {s} : writes'[t] = writes[t] /\ workers'[t] = workers[t]
  BY <1>1, <1>3, <1>4 DEF TypeOK
<1>6. SessionOwnership'
  <2>1. Serving(s)' = 0
    BY <1>3, <1>4 DEF Serving
  <2>2. reads'[s] + writes'[s] + workers'[s] + Serving(s)' = 1 /\ life'[s] = "open"
    BY <1>3, <1>4, <1>5, <2>1
  <2> QED BY <1>2, <1>4, <1>5, <2>2, OneSession DEF IInv
<1>7. Accepting' /\ WaiterReady' /\ FutureMatchesWaiter' /\ NoLeftover'
  BY <1>4 DEF IInv, Accepting, WaiterReady, FutureMatchesWaiter, NoLeftover
<1> QED BY <1>1, <1>6, <1>7 DEF IInv

LEMMA HandleWriteIInv ==
  ASSUME IInv, NEW s \in Sessions, HandleWrite(s)
  PROVE  IInv'
<1>1. TypeOK /\ Typed'
  BY HandleWriteTyped DEF IInv, Typed
<1>2. up = "running" /\ io = NoSession /\ writes[s] > 0
  BY DEF HandleWrite, InLoop
<1>3. life[s] = "open" /\ writes[s] = 1 /\ reads[s] = 0 /\ workers[s] = 0 /\ io # s
  BY <1>1, <1>2, OneActivity DEF IInv
<1>4. /\ UNCHANGED <<up, acceptor, io, task, future, life, workers, request_start, http_body,
                     request_>>
      /\ writes' = [writes EXCEPT ![s] = @ - 1]
      /\ reads' = [reads EXCEPT ![s] = @ + 1]
  BY DEF HandleWrite
<1>5. /\ writes'[s] = 0 /\ reads'[s] = 1
      /\ \A t \in Sessions \ {s} : writes'[t] = writes[t] /\ reads'[t] = reads[t]
  BY <1>1, <1>3, <1>4 DEF TypeOK
<1>6. SessionOwnership'
  <2>1. Serving(s)' = 0
    BY <1>3, <1>4 DEF Serving
  <2>2. reads'[s] + writes'[s] + workers'[s] + Serving(s)' = 1 /\ life'[s] = "open"
    BY <1>3, <1>4, <1>5, <2>1
  <2> QED BY <1>2, <1>4, <1>5, <2>2, OneSession DEF IInv
<1>7. Accepting' /\ WaiterReady' /\ FutureMatchesWaiter' /\ NoLeftover'
  BY <1>4 DEF IInv, Accepting, WaiterReady, FutureMatchesWaiter, NoLeftover
<1> QED BY <1>1, <1>6, <1>7 DEF IInv

LEMMA NextIInv == IInv /\ [Next]_vars => IInv'
<1> SUFFICES ASSUME IInv, [Next]_vars PROVE IInv'
  OBVIOUS
<1>1. Typed'
  BY NextTyped DEF IInv
<1>2. ASSUME NEW s \in Sessions, HandleAccept(s) \/ HandleAcceptError(s) PROVE IInv'
  BY <1>2, HandleAcceptIInv, HandleAcceptErrorIInv
<1>3. ASSUME NEW s \in Sessions,
             HandleAcceptThrows(s) \/ DispatchThrows(s)
      PROVE  IInv'
  <2>1. up' = "exited" /\ UNCHANGED <<acceptor, life, io, request_start>>
    BY <1>3 DEF HandleAcceptThrows, DispatchThrows
  <2> QED BY <1>1, <2>1 DEF IInv, Accepting, WaiterReady, SessionOwnership,
                            FutureMatchesWaiter, NoLeftover
<1>4. ASSUME NEW s \in Sessions, IoThread(s) PROVE IInv'
  BY <1>1, <1>4, HandleReadIInv, GoodRequestEndIInv, HandleWriteIInv, DeleteIInv DEF IoThread
<1>5. ASSUME NEW s \in Sessions, BadRequestThread(s) PROVE IInv'
  BY <1>5, BadRequestThreadIInv
<1>6. CASE HandlerTask
  BY <1>6, HandlerTaskIInv
<1>7. ASSUME \/ \E s \in Sessions : Disconnect(s)
             \/ UNCHANGED vars
      PROVE  IInv'
  <2>1. UNCHANGED <<up, acceptor, life, io, task, future, reads, writes, workers, request_start,
                    http_body, request_>>
    BY <1>7 DEF Disconnect, vars
  <2> QED BY <1>1, <2>1 DEF IInv, Accepting, WaiterReady, SessionOwnership, Activities, Serving,
                            FutureMatchesWaiter, NoLeftover
<1>8. CASE HandlerThrows
  <2>1. up' = "exited" /\ UNCHANGED <<acceptor, life, io, request_start>>
    BY <1>8 DEF HandlerThrows
  <2> QED BY <1>1, <2>1 DEF IInv, Accepting, WaiterReady, SessionOwnership,
                            FutureMatchesWaiter, NoLeftover
<1> QED BY <1>2, <1>3, <1>4, <1>5, <1>6, <1>7, <1>8 DEF Next

\* No callback or thread is ever left with a session that was deleted, none is
\* deleted twice, and a socket never has two operations at once: `delete this'
\* in handle_read and handle_write is safe, for any number of connections.
THEOREM SessionsOwned == Spec => []SessionOwnership
<1>1. IInv => SessionOwnership
  BY DEF IInv
<1> QED BY <1>1, InitIInv, NextIInv, PTL DEF Spec

\* f.get() in good_request waits for the answer to its own request and for
\* nothing else, so it is never waited for without a thread that fills it.
THEOREM FutureIsOwn == Spec => []FutureMatchesWaiter
<1>1. IInv => FutureMatchesWaiter
  BY DEF IInv
<1> QED BY <1>1, InitIInv, NextIInv, PTL DEF Spec

\* No text of an earlier request, good or bad, is in http_body or request_ when
\* the next one begins.
THEOREM NothingLeftOver == Spec => []NoLeftover
<1>1. IInv => NoLeftover
  BY DEF IInv
<1> QED BY <1>1, InitIInv, NextIInv, PTL DEF Spec

-----------------------------------------------------------------------------
(* Null handlers.  The map gets one only where handler_task asks for the   *)
(* handler of "/" and there is none; a thread that has found its handler   *)
(* meets it only if some thread did so before.                             *)

RootServed == ROOT \in DOMAIN Config

\* No entry is null, and whatever the handler thread looks up is there.
HandlersThere ==
    /\ \A k \in Keys : handlers_tackers[k] # "NULL"
    /\ handlers_tackers[ROOT] # "ABSENT"
    /\ handlers_tackers[task.key] # "ABSENT"

NoNull == Typed /\ HandlersThere /\ NoNullHandler

\* The key that good_request finds, or "/", has a handler if "/" has one.
LEMMA RouteKnown ==
  ASSUME NEW h, DOMAIN h = Keys, h[ROOT] # "ABSENT", NEW uri \in Text
  PROVE  h[Route(h, uri).key] # "ABSENT"
<1> DEFINE path == PathOf(uri)
           hits == {k \in 1..Len(path) : Known(h, SubSeq(path, 1, k))}
           longest == CHOOSE k \in hits : \A j \in hits : j <= k
<1>1. Len(path) \in Nat
  BY PathOfType DEF Segments
<1>2. hits # {} => h[SubSeq(path, 1, longest)] # "ABSENT"
  <2> SUFFICES ASSUME hits # {} PROVE h[SubSeq(path, 1, longest)] # "ABSENT"
    OBVIOUS
  <2>1. hits \in SUBSET (1..Len(path))
    OBVIOUS
  <2>2. \E k \in hits : \A j \in hits : j <= k
    <3> HIDE DEF hits, path
    <3> QED BY <1>1, <2>1, BoundedMaximum
  <2>3. longest \in hits
    <3> HIDE DEF hits
    <3> QED BY <2>2
  <2> HIDE DEF longest
  <2> QED BY <2>3 DEF Known
<1>3. Known(h, HTTP) => h[HTTP] # "ABSENT"
  BY DEF Known
<1>4. Route(h, uri) = IF uri # <<>> /\ uri[1] \in Urls /\ Known(h, HTTP)
        THEN [found |-> TRUE, key |-> HTTP]
        ELSE IF uri # <<>> /\ uri[1] \in Paths /\ hits # {}
             THEN [found |-> TRUE, key |-> SubSeq(path, 1, longest)]
             ELSE [found |-> FALSE, key |-> ROOT]
  BY DEF Route
<1> HIDE DEF hits, longest, path
<1> QED BY <1>2, <1>3, <1>4

LEMMA InitNoNull == RootServed /\ Init => NoNull
<1> SUFFICES ASSUME RootServed, Init PROVE HandlersThere /\ NoNullHandler
  BY InitTyped DEF NoNull
<1>1. handlers_tackers = Handlers /\ task = NoTask /\ up = "running"
  BY DEF Init
<1>2. ROOT \in Keys /\ task.key = ROOT
  BY <1>1 DEF Keys, NoTask
<1>3. "NULL" \notin HandlerTypes /\ "ABSENT" \notin HandlerTypes
  BY DEF HandlerTypes
<1>4. \A k \in Keys : Handlers[k] # "NULL"
  BY <1>3, ConfigAssumption DEF Handlers
<1>5. Handlers[ROOT] # "ABSENT"
  BY <1>2, <1>3, ConfigAssumption DEF Handlers, RootServed
<1> QED BY <1>1, <1>2, <1>4, <1>5 DEF HandlersThere, NoNullHandler

LEMMA HandleReadNoNull ==
  ASSUME NoNull, NEW s \in Sessions, HandleRead(s)
  PROVE  HandlersThere' /\ NoNullHandler'
<1>1. up' = up /\ TypeOK
  BY DEF HandleRead, NoNull, Typed
<1>2. PICK body \in Text : \/ GoodRequest(s, body) \/ BadRequest(s, body)
                           \/ KeepReading(s, body) \/ KeepReading(s, http_body[s])
  BY <1>1, HandleReadCases
<1>3. handlers_tackers' = handlers_tackers
  BY <1>2 DEF GoodRequest, BadRequest, KeepReading
<1>4. handlers_tackers[task.key]' # "ABSENT"
  <2>1. CASE GoodRequest(s, body)
    <3> DEFINE parsed == Parse(req_parser, request_[s], body)
               route == Route(handlers_tackers, parsed.uri)
    <3>1. Parsed(parsed)
      BY <1>1, ParseParsed DEF NoNull, Typed, TypeOK, SharedParserWellFormed
    <3>2. parsed.uri \in Text
      BY <3>1 DEF Parsed, ParseResults
    <3>3. DOMAIN handlers_tackers = Keys /\ handlers_tackers[ROOT] # "ABSENT"
      BY <1>1 DEF TypeOK, NoNull, HandlersThere
    <3>4. handlers_tackers[route.key] # "ABSENT"
      <4> HIDE DEF parsed
      <4> QED BY <3>2, <3>3, RouteKnown
    <3>5. task' = [session |-> s, found |-> route.found, key |-> route.key]
      BY <2>1 DEF GoodRequest
    <3> HIDE DEF route
    <3> QED BY <1>3, <3>4, <3>5
  <2>2. CASE ~GoodRequest(s, body)
    <3>1. task' = task
      BY <1>2, <2>2 DEF BadRequest, KeepReading
    <3> QED BY <1>3, <3>1 DEF NoNull, HandlersThere
  <2> QED BY <2>1, <2>2
<1> QED BY <1>1, <1>3, <1>4 DEF NoNull, HandlersThere, NoNullHandler

LEMMA HandlerTaskNoNull ==
  ASSUME NoNull, HandlerTask
  PROVE  HandlersThere' /\ NoNullHandler'
<1> DEFINE h == handlers_tackers[task.key]
<1>1. task.key \in Keys /\ handlers_tackers \in [Keys -> HandlerTypes \cup {"NULL", "ABSENT"}]
  BY DEF NoNull, Typed, TypeOK
<1>2. h # "NULL" /\ h # "ABSENT"
  BY <1>1 DEF NoNull, HandlersThere
<1>3. /\ handlers_tackers' =
            [handlers_tackers EXCEPT ![task.key] = IF h = "ABSENT" THEN "NULL" ELSE h]
      /\ task' = NoTask /\ up' = up
  BY <1>2 DEF HandlerTask
<1>4. handlers_tackers' = handlers_tackers
  BY <1>1, <1>2, <1>3
<1>5. task'.key = ROOT
  BY <1>3 DEF NoTask
<1> QED BY <1>3, <1>4, <1>5 DEF NoNull, HandlersThere, NoNullHandler

LEMMA NextNoNull == NoNull /\ [Next]_vars => NoNull'
<1> SUFFICES ASSUME NoNull, [Next]_vars PROVE HandlersThere' /\ NoNullHandler'
  BY NextTyped DEF NoNull
<1>1. ASSUME NEW s \in Sessions, HandleRead(s) PROVE HandlersThere' /\ NoNullHandler'
  BY <1>1, HandleReadNoNull
<1>2. CASE HandlerTask
  BY <1>2, HandlerTaskNoNull
<1>3. ASSUME /\ up' = up \/ up' = "exited"
             /\ UNCHANGED <<handlers_tackers, task>>
      PROVE  HandlersThere' /\ NoNullHandler'
  BY <1>3 DEF NoNull, HandlersThere, NoNullHandler
<1>4. ASSUME NEW s \in Sessions,
             \/ HandleAccept(s) \/ HandleAcceptError(s) \/ HandleAcceptThrows(s)
             \/ HandleReadError(s) \/ GoodRequestEnd(s) \/ HandleWrite(s) \/ HandleWriteError(s)
             \/ DispatchThrows(s) \/ BadRequestThread(s) \/ Disconnect(s)
      PROVE  HandlersThere' /\ NoNullHandler'
  <2>1. (up' = up \/ up' = "exited") /\ UNCHANGED <<handlers_tackers, task>>
    BY <1>4 DEF HandleAccept, HandleAcceptError, HandleAcceptThrows, HandleReadError,
                GoodRequestEnd, HandleWrite, HandleWriteError, DispatchThrows,
                BadRequestThread, Disconnect
  <2> QED BY <1>3, <2>1
<1>5. CASE HandlerThrows
  BY <1>3, <1>5 DEF HandlerThrows
<1>6. CASE UNCHANGED vars
  BY <1>3, <1>6 DEF vars
<1> QED BY <1>1, <1>2, <1>4, <1>5, <1>6 DEF Next, IoThread

\* With a location for "/" in the config file handler_task never calls through
\* a null pointer, whatever clients ask for; without one it may.
THEOREM NoNullCall == RootServed /\ Spec => []NoNullHandler
<1>1. NoNull => NoNullHandler
  BY DEF NoNull
<1> QED BY <1>1, InitNoNull, NextNoNull, PTL DEF Spec
-----------------------------------------------------------------------------
(* Isolation.  A request is served under the URI of its own text as long   *)
(* as the shared parser is fresh whenever a text is given to it; what the  *)
(* io thread waits with is then what a parser of its own would have read.  *)

OwnRequest == io # NoSession => request_[io] = OwnUri(http_body[io])

Isolated == IInv /\ OwnRequest /\ RequestIsolation

LEMMA InitIsolated == Init => Isolated
<1> SUFFICES ASSUME Init PROVE OwnRequest /\ RequestIsolation
  BY InitIInv DEF Isolated
<1>1. io = NoSession /\ \A s \in Sessions : sent[s] = <<>>
  BY DEF Init
<1> QED BY <1>1 DEF OwnRequest, RequestIsolation

LEMMA HandleReadIsolated ==
  ASSUME Isolated, ParserFresh, NEW s \in Sessions, HandleRead(s)
  PROVE  OwnRequest' /\ sent' = sent
<1>1. TypeOK /\ io = NoSession /\ up = "running" /\ s # NoSession
  BY SessionsAssumption DEF HandleRead, InLoop, Isolated, IInv, Typed
<1>2. PICK body \in Text : \/ GoodRequest(s, body) \/ BadRequest(s, body)
                           \/ KeepReading(s, body) \/ KeepReading(s, http_body[s])
  BY <1>1, HandleReadCases
<1>3. CASE GoodRequest(s, body)
  <2>1. request_[s] = <<>>
    BY <1>1 DEF Isolated, IInv, NoLeftover
  <2>2. /\ request_' = [request_ EXCEPT ![s] = OwnUri(body)]
        /\ http_body' = [http_body EXCEPT ![s] = body]
        /\ io' = s /\ sent' = sent
    BY <1>3, <2>1 DEF GoodRequest, ParserFresh, OwnUri
  <2> QED BY <1>1, <2>2 DEF OwnRequest, TypeOK
<1>4. CASE ~GoodRequest(s, body)
  BY <1>1, <1>2, <1>4 DEF BadRequest, KeepReading, OwnRequest
<1> QED BY <1>3, <1>4

\* One more answer, about its own text, keeps the isolation of all answers.
LEMMA AnswerIsolated ==
  ASSUME TypeOK, RequestIsolation, NEW s \in Sessions, NEW answer, answer.uri = answer.own,
         sent' = [sent EXCEPT ![s] = Append(@, answer)]
  PROVE  RequestIsolation'
<1> SUFFICES ASSUME NEW t \in Sessions, NEW i \in 1..Len(sent'[t])
             PROVE  sent'[t][i].uri = sent'[t][i].own
  BY DEF RequestIsolation
<1>1. sent[t] \in Seq(Answer) /\ \A j \in 1..Len(sent[t]) : sent[t][j].uri = sent[t][j].own
  BY DEF TypeOK, RequestIsolation
<1>2. CASE t = s
  <2>1. sent'[t] = Append(sent[t], answer)
    BY <1>2 DEF TypeOK
  <2>2. /\ i \in 1..(Len(sent[t]) + 1)
        /\ sent'[t][i] = IF i \in 1..Len(sent[t]) THEN sent[t][i] ELSE answer
    BY <1>1, <2>1
  <2> QED BY <1>1, <2>2
<1>3. CASE t # s
  <2>1. sent'[t] = sent[t]
    BY <1>3 DEF TypeOK
  <2> QED BY <1>1, <2>1
<1> QED BY <1>2, <1>3

LEMMA NextIsolated == Isolated /\ ParserFresh /\ [Next]_vars => Isolated'
<1> SUFFICES ASSUME Isolated, ParserFresh, [Next]_vars PROVE OwnRequest' /\ RequestIsolation'
  BY NextIInv DEF Isolated
<1>0. TypeOK /\ OwnRequest /\ RequestIsolation
  BY DEF Isolated, IInv, Typed
<1>1. ASSUME NEW s \in Sessions, HandleRead(s) PROVE OwnRequest' /\ RequestIsolation'
  BY <1>0, <1>1, HandleReadIsolated DEF RequestIsolation
<1>2. ASSUME NEW s \in Sessions, GoodRequestEnd(s) PROVE OwnRequest' /\ RequestIsolation'
  <2> DEFINE answer == [code |-> future.code, uri |-> request_[s], own |-> OwnUri(http_body[s])]
  <2>1. /\ io = s /\ io' = NoSession /\ s # NoSession
        /\ sent' = [sent EXCEPT ![s] = Append(@, answer)]
    BY <1>2, SessionsAssumption DEF GoodRequestEnd, SendResponse
  <2>2. answer.uri = answer.own
    BY <1>0, <2>1 DEF OwnRequest
  <2> HIDE DEF answer
  <2> QED BY <1>0, <2>1, <2>2, AnswerIsolated DEF OwnRequest
<1>3. ASSUME NEW s \in Sessions, BadRequestThread(s) PROVE OwnRequest' /\ RequestIsolation'
  <2> DEFINE answer == [code |-> 400, uri |-> <<>>, own |-> <<>>]
  <2>1. sent' = [sent EXCEPT ![s] = Append(@, answer)] /\ UNCHANGED <<io, request_, http_body>>
    BY <1>3 DEF BadRequestThread, SendResponse
  <2>2. answer.uri = answer.own
    OBVIOUS
  <2> HIDE DEF answer
  <2> QED BY <1>0, <2>1, <2>2, AnswerIsolated DEF OwnRequest
<1>4. ASSUME UNCHANGED <<io, request_, http_body, sent>> PROVE OwnRequest' /\ RequestIsolation'
  BY <1>0, <1>4 DEF OwnRequest, RequestIsolation
<1>5. ASSUME NEW s \in Sessions,
             \/ HandleAccept(s) \/ HandleAcceptError(s) \/ HandleAcceptThrows(s)
             \/ HandleReadError(s) \/ HandleWrite(s) \/ HandleWriteError(s)
             \/ DispatchThrows(s) \/ Disconnect(s)
      PROVE  OwnRequest' /\ RequestIsolation'
  <2>1. UNCHANGED <<io, request_, http_body, sent>>
    BY <1>5 DEF HandleAccept, HandleAcceptError, HandleAcceptThrows, HandleReadError,
                HandleWrite, HandleWriteError, DispatchThrows, Disconnect
  <2> QED BY <1>4, <2>1
<1>6. CASE HandlerTask \/ HandlerThrows
  BY <1>4, <1>6 DEF HandlerTask, HandlerThrows
<1>7. CASE UNCHANGED vars
  BY <1>4, <1>7 DEF vars
<1> QED BY <1>1, <1>2, <1>3, <1>5, <1>6, <1>7 DEF Next, IoThread

\* While every text that good_request and bad_request give to the shared parser
\* is decided by its end, each answer is about the URI in its own client's
\* text, however requests of different clients follow each other: an unfinished
\* Parse is the only way in which one request gets into another's.
THEOREM IsolationFromFreshParser == Spec /\ []ParserFresh => []RequestIsolation
<1>1. Isolated => RequestIsolation
  BY DEF Isolated
<1> QED BY <1>1, InitIsolated, NextIsolated, PTL DEF Spec
-----------------------------------------------------------------------------
(* Status records.  A record is made in the handler thread and its answer  *)
(* is sent later, in the io thread: between the two the record is due.     *)

Counting ==
    /\ IInv
    /\ IsFiniteSet(RecordedAnswers)
    /\ future # NoReply => future.code \in {200, 404, 500, 504}
    /\ StatusCountsAnswers

LEMMA InitCounting == Init => Counting
<1> SUFFICES ASSUME Init PROVE Counting
  OBVIOUS
<1>1. /\ \A s \in Sessions : Len(sent[s]) = 0
      /\ future = NoReply /\ status = 0
  BY DEF Init
<1>2. RecordedAnswers = {}
  BY <1>1 DEF RecordedAnswers
<1>3. IsFiniteSet(RecordedAnswers) /\ Cardinality(RecordedAnswers) = 0
  BY <1>2, FS_EmptySet
<1> QED BY <1>1, <1>3, InitIInv DEF Counting, StatusCountsAnswers, RecordDue

RecordedIn(f) ==
    {a \in UNION {{s} \X (1..Len(f[s])) : s \in Sessions} : HasRecord(f[a[1]][a[2]])}

LEMMA RecordedInPair ==
  ASSUME NEW f, NEW t, NEW i
  PROVE  <<t, i>> \in RecordedIn(f) <=>
            t \in Sessions /\ i \in 1..Len(f[t]) /\ HasRecord(f[t][i])
  BY DEF RecordedIn

LEMMA RecordedInPairs ==
  ASSUME NEW f, NEW a \in RecordedIn(f)
  PROVE  \E t, i : a = <<t, i>>
  BY DEF RecordedIn

\* g has one more answer than f: the n answers of s are followed by it.
OneMore(f, g, s, n, answer) ==
    /\ n = Len(f[s]) /\ Len(g[s]) = n + 1 /\ g[s][n + 1] = answer
    /\ \A i \in 1..n : g[s][i] = f[s][i]
    /\ \A t \in Sessions \ {s} : g[t] = f[t]

\* What one more answer adds to the recorded ones.
LEMMA OneMoreRecorded ==
  ASSUME NEW f, NEW g, NEW s \in Sessions, NEW answer, NEW n \in Nat,
         OneMore(f, g, s, n, answer), IsFiniteSet(RecordedIn(f))
  PROVE  /\ ~HasRecord(answer) => RecordedIn(g) = RecordedIn(f)
         /\ HasRecord(answer) =>
                /\ IsFiniteSet(RecordedIn(g))
                /\ Cardinality(RecordedIn(g)) = Cardinality(RecordedIn(f)) + 1
<1> USE DEF OneMore
<1>1. PICK new : new = <<s, n + 1>>
  OBVIOUS
<1>2. /\ n + 1 \notin 1..n /\ n + 1 \in 1..(n + 1)
      /\ \A i : i # n + 1 => (i \in 1..(n + 1) <=> i \in 1..n)
  OBVIOUS
<1>3. new \notin RecordedIn(f)
  BY <1>1, <1>2, RecordedInPair
<1>4. new \in RecordedIn(g) <=> HasRecord(answer)
  BY <1>1, <1>2, RecordedInPair
<1>5. ASSUME NEW t, NEW i, <<t, i>> # new
      PROVE  <<t, i>> \in RecordedIn(g) <=> <<t, i>> \in RecordedIn(f)
  <2>1. CASE t = s
    <3>1. i \in 1..(n + 1) <=> i \in 1..n
      BY <1>1, <1>2, <1>5, <2>1
    <3> QED BY <2>1, <3>1, RecordedInPair
  <2>2. CASE t # s
    <3>1. t \in Sessions => g[t] = f[t]
      BY <2>2
    <3> QED BY <3>1, RecordedInPair, Zenon
  <2> QED BY <2>1, <2>2
<1>6. ASSUME NEW a, a # new PROVE a \in RecordedIn(g) <=> a \in RecordedIn(f)
  <2>1. ASSUME a \in RecordedIn(g) PROVE a \in RecordedIn(f)
    <3>1. PICK t, i : a = <<t, i>>
      BY <2>1, RecordedInPairs
    <3> QED BY <1>5, <1>6, <2>1, <3>1
  <2>2. ASSUME a \in RecordedIn(f) PROVE a \in RecordedIn(g)
    <3>1. PICK t, i : a = <<t, i>>
      BY <2>2, RecordedInPairs
    <3> QED BY <1>5, <1>6, <2>2, <3>1
  <2> QED BY <2>1, <2>2
<1>7. CASE ~HasRecord(answer)
  <2>1. \A a : a \in RecordedIn(g) <=> a \in RecordedIn(f)
    BY <1>3, <1>4, <1>6, <1>7
  <2>2. RecordedIn(g) = RecordedIn(f)
    BY <2>1
  <2> QED BY <1>7, <2>2
<1>8. CASE HasRecord(answer)
  <2>1. RecordedIn(g) = RecordedIn(f) \cup {new}
    BY <1>4, <1>6, <1>8
  <2> QED BY <1>3, <1>8, <2>1, FS_AddElement
<1> QED BY <1>7, <1>8

LEMMA AnswerRecorded ==
  ASSUME NEW f \in [Sessions -> Seq(Answer)], NEW s \in Sessions, NEW answer,
         NEW g, g[s] = Append(f[s], answer), \A t \in Sessions \ {s} : g[t] = f[t],
         IsFiniteSet(RecordedIn(f))
  PROVE  /\ ~HasRecord(answer) => RecordedIn(g) = RecordedIn(f)
         /\ HasRecord(answer) =>
                /\ IsFiniteSet(RecordedIn(g))
                /\ Cardinality(RecordedIn(g)) = Cardinality(RecordedIn(f)) + 1
<1>1. PICK n \in Nat : n = Len(f[s])
  OBVIOUS
<1>2. PICK h : h = g
  OBVIOUS
<1>3. /\ Len(h[s]) = n + 1 /\ h[s][n + 1] = answer
      /\ \A i \in 1..n : h[s][i] = f[s][i]
      /\ \A t \in Sessions \ {s} : h[t] = f[t]
  <2>1. f[s] \in Seq(Answer)
    OBVIOUS
  <2> QED BY <1>1, <1>2, <2>1
<1>4. OneMore(f, h, s, n, answer)
  BY <1>1, <1>3, Zenon DEF OneMore
<1>5. /\ ~HasRecord(answer) => RecordedIn(h) = RecordedIn(f)
      /\ HasRecord(answer) =>
                /\ IsFiniteSet(RecordedIn(h))
                /\ Cardinality(RecordedIn(h)) = Cardinality(RecordedIn(f)) + 1
  BY <1>4, OneMoreRecorded
<1> QED BY <1>2, <1>5, Zenon

LEMMA NextCounting == Counting /\ [Next]_vars => Counting'
<1> SUFFICES ASSUME Counting, [Next]_vars
             PROVE  /\ IsFiniteSet(RecordedAnswers')
                    /\ future' # NoReply => future'.code \in {200, 404, 500, 504}
                    /\ StatusCountsAnswers'
  BY NextIInv DEF Counting
<1> DEFINE Counted == /\ IsFiniteSet(RecordedAnswers')
                      /\ future' # NoReply => future'.code \in {200, 404, 500, 504}
                      /\ StatusCountsAnswers'
<1>0. /\ TypeOK /\ status \in Nat
      /\ IsFiniteSet(RecordedAnswers) /\ Cardinality(RecordedAnswers) \in Nat
      /\ future # NoReply => future.code \in {200, 404, 500, 504}
      /\ up # "exited" => status = Cardinality(RecordedAnswers) + RecordDue
  BY FS_CardinalityType DEF Counting, IInv, Typed, TypeOK, StatusCountsAnswers
<1>9. /\ RecordedAnswers = RecordedIn(sent) /\ RecordedAnswers' = RecordedIn(sent')
       /\ sent \in [Sessions -> Seq(Answer)]
  BY <1>0 DEF RecordedAnswers, RecordedIn, TypeOK
<1>1. CASE HandlerTask
  <2> DEFINE h == handlers_tackers[task.key]
             server == IF h \in HandlerTypes THEN h ELSE "ErrorHandler"
  <2>1. up = "running" /\ task # NoTask /\ sent' = sent
    BY <1>1 DEF HandlerTask
  <2>2. future = NoReply
    BY <2>1 DEF Counting, IInv, FutureMatchesWaiter
  <2>3. RecordedAnswers' = RecordedAnswers
    BY <2>1 DEF RecordedAnswers
  <2>4. CASE up' = "crashed"
    <3>1. UNCHANGED <<status, future>>
      BY <1>1, <2>1, <2>4 DEF HandlerTask
    <3> QED BY <1>0, <2>1, <2>3, <3>1 DEF StatusCountsAnswers, RecordDue
  <2>5. CASE up' # "crashed"
    <3>1. PICK reply \in Replies(server) : future' = reply /\ status' = status + Records(reply)
      BY <1>1, <2>1, <2>5 DEF HandlerTask
    <3>2. server \in HandlerTypes
      BY DEF HandlerTypes
    <3> HIDE DEF server
    <3>3. reply # NoReply /\ Records(reply) \in Nat /\ reply.code \in {200, 404, 500, 504}
      BY <3>2, RepliesType DEF Replies
    <3>4. status = Cardinality(RecordedAnswers)
      BY <1>0, <2>1, <2>2 DEF RecordDue
    <3>5. RecordDue' = Records(reply)
      BY <3>1, <3>3 DEF RecordDue
    <3> QED BY <1>0, <2>3, <3>1, <3>3, <3>4, <3>5 DEF StatusCountsAnswers
  <2> QED BY <2>4, <2>5
<1>2. ASSUME NEW s \in Sessions, GoodRequestEnd(s) PROVE Counted
  <2> DEFINE answer == [code |-> future.code, uri |-> request_[s], own |-> OwnUri(http_body[s])]
  <2>1. /\ up = "running" /\ future # NoReply /\ future' = NoReply
        /\ UNCHANGED <<up, status>>
        /\ sent' = [sent EXCEPT ![s] = Append(@, answer)]
    BY <1>2 DEF GoodRequestEnd, SendResponse
  <2>2. answer.code = future.code
    OBVIOUS
  <2> HIDE DEF answer
  <2>3. /\ ~HasRecord(answer) => RecordedAnswers' = RecordedAnswers
        /\ HasRecord(answer) =>
                /\ IsFiniteSet(RecordedAnswers')
                /\ Cardinality(RecordedAnswers') = Cardinality(RecordedAnswers) + 1
    <3>1. PICK a : a = answer
      OBVIOUS
    <3>2. PICK f \in [Sessions -> Seq(Answer)] : f = sent /\ IsFiniteSet(RecordedIn(f))
      BY <1>0, <1>9
    <3>3. PICK g : g = sent' /\ g = [f EXCEPT ![s] = Append(f[s], a)]
      BY <2>1, <3>1, <3>2
    <3>4. g[s] = Append(f[s], a) /\ \A t \in Sessions \ {s} : g[t] = f[t]
      BY <3>3
    <3>5. /\ ~HasRecord(a) => RecordedIn(g) = RecordedIn(f)
          /\ HasRecord(a) =>
                /\ IsFiniteSet(RecordedIn(g))
                /\ Cardinality(RecordedIn(g)) = Cardinality(RecordedIn(f)) + 1
      BY <3>2, <3>4, AnswerRecorded
    <3> QED BY <1>9, <3>1, <3>2, <3>3, <3>5
  <2>4. status = Cardinality(RecordedAnswers) + (IF future.code = 504 THEN 0 ELSE 1)
    BY <1>0, <2>1 DEF RecordDue, Records
  <2>5. RecordDue' = 0
    BY <2>1 DEF RecordDue
  <2> QED BY <1>0, <2>1, <2>2, <2>3, <2>4, <2>5 DEF StatusCountsAnswers, HasRecord
<1>3. ASSUME NEW s \in Sessions, BadRequestThread(s) PROVE Counted
  <2> DEFINE answer == [code |-> 400, uri |-> <<>>, own |-> <<>>]
  <2>1. /\ UNCHANGED <<up, status, future>>
        /\ sent' = [sent EXCEPT ![s] = Append(@, answer)]
    BY <1>3 DEF BadRequestThread, SendResponse
  <2>2. ~HasRecord(answer)
    BY DEF HasRecord
  <2> HIDE DEF answer
  <2>3. RecordedAnswers' = RecordedAnswers
    <3>1. PICK a : a = answer
      OBVIOUS
    <3>2. PICK f \in [Sessions -> Seq(Answer)] : f = sent /\ IsFiniteSet(RecordedIn(f))
      BY <1>0, <1>9
    <3>3. PICK g : g = sent' /\ g = [f EXCEPT ![s] = Append(f[s], a)]
      BY <2>1, <3>1, <3>2
    <3>4. g[s] = Append(f[s], a) /\ \A t \in Sessions \ {s} : g[t] = f[t]
      BY <3>3
    <3>5. /\ ~HasRecord(a) => RecordedIn(g) = RecordedIn(f)
          /\ HasRecord(a) =>
                /\ IsFiniteSet(RecordedIn(g))
                /\ Cardinality(RecordedIn(g)) = Cardinality(RecordedIn(f)) + 1
      BY <3>2, <3>4, AnswerRecorded
    <3> QED BY <1>9, <2>2, <3>1, <3>2, <3>3, <3>5
  <2>4. RecordDue' = RecordDue
    BY <2>1 DEF RecordDue
  <2> QED BY <1>0, <2>1, <2>3, <2>4 DEF StatusCountsAnswers
<1>4. ASSUME UNCHANGED <<status, future, sent>>, up' = up \/ up' = "exited" PROVE Counted
  <2>1. RecordedAnswers' = RecordedAnswers /\ RecordDue' = RecordDue
    BY <1>4 DEF RecordedAnswers, RecordDue
  <2> QED BY <1>0, <1>4, <2>1 DEF StatusCountsAnswers
<1>5. ASSUME NEW s \in Sessions, HandleRead(s) PROVE Counted
  <2>1. PICK body \in Text : \/ GoodRequest(s, body) \/ BadRequest(s, body)
                             \/ KeepReading(s, body) \/ KeepReading(s, http_body[s])
    BY <1>0, <1>5, HandleReadCases
  <2>2. UNCHANGED <<up, status, future, sent>>
    BY <1>5, <2>1 DEF HandleRead, GoodRequest, BadRequest, KeepReading
  <2> QED BY <1>4, <2>2
<1>6. ASSUME NEW s \in Sessions,
             \/ HandleAccept(s) \/ HandleAcceptError(s) \/ HandleAcceptThrows(s)
             \/ HandleReadError(s) \/ HandleWrite(s) \/ HandleWriteError(s)
             \/ DispatchThrows(s) \/ Disconnect(s)
      PROVE  Counted
  <2>1. UNCHANGED <<status, future, sent>> /\ (up' = up \/ up' = "exited")
    BY <1>6 DEF HandleAccept, HandleAcceptError, HandleAcceptThrows, HandleReadError,
                HandleWrite, HandleWriteError, DispatchThrows, Disconnect
  <2> QED BY <1>4, <2>1
<1>7. CASE HandlerThrows
  BY <1>4, <1>7 DEF HandlerThrows
<1>8. CASE UNCHANGED vars
  BY <1>4, <1>8 DEF vars
<1> QED BY <1>1, <1>2, <1>3, <1>5, <1>6, <1>7, <1>8 DEF Next, IoThread

\* The status page counts exactly the requests that a handler has answered, but
\* for a 504, for any number of sessions: the record made in the handler thread
\* and the answer sent by the io thread never drift apart.
THEOREM StatusIsExact == Spec => []StatusCountsAnswers
<1>1. Counting => StatusCountsAnswers
  BY DEF Counting
<1> QED BY <1>1, InitCounting, NextCounting, PTL DEF Spec
-----------------------------------------------------------------------------
(* Orderly clients.  The session knows only chunks; that it finds the      *)
(* requests of a client's text, each where it ends and in order, rests on  *)
(* two facts: no request is the beginning of another (OneRequestUnique),   *)
(* and handle_read takes a chunk of an orderly client for the end of a     *)
(* request exactly when it is (OrderlyVerdict).  The invariant OInv says   *)
(* where each session stands in its client's text.                         *)

\* The text of a script, chunk by chunk, as the function its definition describes.
LEMMA JoinedDef ==
  ASSUME NEW script, Len(script) \in Nat
  PROVE  Joined(script) = [i \in 0..Len(script) |->
            IF i = 0 THEN <<>> ELSE Joined(script)[i - 1] \o script[i]]
<1> DEFINE More(t, i) == t \o script[i]
           T == {n \in Nat : \E f : f = [i \in 0..n |->
                    IF i = 0 THEN <<>> ELSE More(f[i - 1], i)]}
<1> HIDE DEF More
<1>1. 0 \in T
  <2> DEFINE f == [i \in 0..0 |-> <<>>]
  <2>1. f = [i \in 0..0 |-> IF i = 0 THEN <<>> ELSE More(f[i - 1], i)]
    OBVIOUS
  <2> QED BY <2>1
<1>2. \A n \in Nat : n \in T => n + 1 \in T
  <2> SUFFICES ASSUME NEW n \in Nat, n \in T PROVE n + 1 \in T
    OBVIOUS
  <2>1. PICK f : f = [i \in 0..n |-> IF i = 0 THEN <<>> ELSE More(f[i - 1], i)]
    OBVIOUS
  <2> DEFINE g == [i \in 0..(n + 1) |-> IF i \in 0..n THEN f[i] ELSE More(f[n], i)]
  <2>2. \A i \in 0..(n + 1) : g[i] = IF i = 0 THEN <<>> ELSE More(g[i - 1], i)
    <3> TAKE i \in 0..(n + 1)
    <3>1. CASE i = 0
      BY <3>1, <2>1
    <3>2. CASE i \in 1..n
      BY <3>2, <2>1
    <3>3. CASE i = n + 1
      BY <3>3, <2>1
    <3> QED BY <3>1, <3>2, <3>3
  <2>3. g = [i \in 0..(n + 1) |-> IF i = 0 THEN <<>> ELSE More(g[i - 1], i)]
    BY <2>2
  <2>4. \E h : h = [i \in 0..(n + 1) |-> IF i = 0 THEN <<>> ELSE More(h[i - 1], i)]
    BY <2>3, Zenon
  <2>5. n + 1 \in Nat
    OBVIOUS
  <2> QED BY <2>4, <2>5, Zenon
<1>3. Len(script) \in T
  <2> HIDE DEF T
  <2> QED BY <1>1, <1>2, SetInduction
<1>4. PICK f : f = [i \in 0..Len(script) |-> IF i = 0 THEN <<>> ELSE More(f[i - 1], i)]
  BY <1>3
<1>5. f = [i \in 0..Len(script) |-> IF i = 0 THEN <<>> ELSE f[i - 1] \o script[i]]
  BY <1>4 DEF More
<1> QED BY <1>5, Zenon DEF Joined

\* What is gathered, likewise.
LEMMA GatheredDef ==
  ASSUME NEW script, Len(script) \in Nat
  PROVE  Gathered(script) = [i \in 0..Len(script) |->
            IF i = 0 THEN <<>>
            ELSE IF EndsRequest(Gathered(script)[i - 1], script[i]) THEN <<>>
            ELSE Gathered(script)[i - 1] \o script[i]]
<1> DEFINE More(t, i) == IF EndsRequest(t, script[i]) THEN <<>> ELSE t \o script[i]
           T == {n \in Nat : \E f : f = [i \in 0..n |->
                    IF i = 0 THEN <<>> ELSE More(f[i - 1], i)]}
<1> HIDE DEF More
<1>1. 0 \in T
  <2> DEFINE f == [i \in 0..0 |-> <<>>]
  <2>1. f = [i \in 0..0 |-> IF i = 0 THEN <<>> ELSE More(f[i - 1], i)]
    OBVIOUS
  <2> QED BY <2>1
<1>2. \A n \in Nat : n \in T => n + 1 \in T
  <2> SUFFICES ASSUME NEW n \in Nat, n \in T PROVE n + 1 \in T
    OBVIOUS
  <2>1. PICK f : f = [i \in 0..n |-> IF i = 0 THEN <<>> ELSE More(f[i - 1], i)]
    OBVIOUS
  <2> DEFINE g == [i \in 0..(n + 1) |-> IF i \in 0..n THEN f[i] ELSE More(f[n], i)]
  <2>2. \A i \in 0..(n + 1) : g[i] = IF i = 0 THEN <<>> ELSE More(g[i - 1], i)
    <3> TAKE i \in 0..(n + 1)
    <3>1. CASE i = 0
      BY <3>1, <2>1
    <3>2. CASE i \in 1..n
      BY <3>2, <2>1
    <3>3. CASE i = n + 1
      BY <3>3, <2>1
    <3> QED BY <3>1, <3>2, <3>3
  <2>3. g = [i \in 0..(n + 1) |-> IF i = 0 THEN <<>> ELSE More(g[i - 1], i)]
    BY <2>2
  <2>4. \E h : h = [i \in 0..(n + 1) |-> IF i = 0 THEN <<>> ELSE More(h[i - 1], i)]
    BY <2>3, Zenon
  <2>5. n + 1 \in Nat
    OBVIOUS
  <2> QED BY <2>4, <2>5, Zenon
<1>3. Len(script) \in T
  <2> HIDE DEF T
  <2> QED BY <1>1, <1>2, SetInduction
<1>4. PICK f : f = [i \in 0..Len(script) |-> IF i = 0 THEN <<>> ELSE More(f[i - 1], i)]
  BY <1>3
<1>5. f = [i \in 0..Len(script) |->
            IF i = 0 THEN <<>>
            ELSE IF EndsRequest(f[i - 1], script[i]) THEN <<>> ELSE f[i - 1] \o script[i]]
  BY <1>4 DEF More
<1> QED BY <1>5, Zenon DEF Gathered

\* And the ends of the requests.
LEMMA EndsDef ==
  ASSUME NEW text, Len(text) \in Nat
  PROVE  RequestEnds(text) = [k \in 0..Len(text) |->
            IF k = 0 THEN 0 ELSE NextEnd(text, RequestEnds(text)[k - 1])]
<1> DEFINE T == {n \in Nat : \E f : f = [k \in 0..n |->
                    IF k = 0 THEN 0 ELSE NextEnd(text, f[k - 1])]}
<1>1. 0 \in T
  <2> DEFINE f == [k \in 0..0 |-> 0]
  <2>1. f = [k \in 0..0 |-> IF k = 0 THEN 0 ELSE NextEnd(text, f[k - 1])]
    OBVIOUS
  <2> QED BY <2>1
<1>2. \A n \in Nat : n \in T => n + 1 \in T
  <2> SUFFICES ASSUME NEW n \in Nat, n \in T PROVE n + 1 \in T
    OBVIOUS
  <2>1. PICK f : f = [k \in 0..n |-> IF k = 0 THEN 0 ELSE NextEnd(text, f[k - 1])]
    OBVIOUS
  <2> DEFINE g == [k \in 0..(n + 1) |-> IF k \in 0..n THEN f[k] ELSE NextEnd(text, f[n])]
  <2>2. \A k \in 0..(n + 1) : g[k] = IF k = 0 THEN 0 ELSE NextEnd(text, g[k - 1])
    <3> TAKE k \in 0..(n + 1)
    <3>1. CASE k = 0
      BY <3>1, <2>1
    <3>2. CASE k \in 1..n
      BY <3>2, <2>1
    <3>3. CASE k = n + 1
      BY <3>3, <2>1
    <3> QED BY <3>1, <3>2, <3>3
  <2>3. g = [k \in 0..(n + 1) |-> IF k = 0 THEN 0 ELSE NextEnd(text, g[k - 1])]
    BY <2>2
  <2>4. \E h : h = [k \in 0..(n + 1) |-> IF k = 0 THEN 0 ELSE NextEnd(text, h[k - 1])]
    BY <2>3, Zenon
  <2>5. n + 1 \in Nat
    OBVIOUS
  <2> QED BY <2>4, <2>5, Zenon
<1>3. Len(text) \in T
  <2> HIDE DEF T
  <2> QED BY <1>1, <1>2, SetInduction
<1>4. PICK f : f = [k \in 0..Len(text) |-> IF k = 0 THEN 0 ELSE NextEnd(text, f[k - 1])]
  BY <1>3
<1>5. \A x : (CHOOSE j \in {NextEnd(text, i) : i \in {x}} : TRUE) = NextEnd(text, x)
  <2> TAKE x
  <2>1. {NextEnd(text, i) : i \in {x}} = {NextEnd(text, x)}
    OBVIOUS
  <2>2. ASSUME NEW S, NEW y, S = {y} PROVE (CHOOSE r \in S : TRUE) = y
    BY <2>2
  <2> QED BY <2>1, <2>2
<1>6. f = [k \in 0..Len(text) |-> IF k = 0 THEN 0
             ELSE CHOOSE j \in {NextEnd(text, i) : i \in {f[k - 1]}} : TRUE]
  BY <1>4, <1>5
<1>7. RequestEnds(text) = [k \in 0..Len(text) |-> IF k = 0 THEN 0
             ELSE CHOOSE j \in {NextEnd(text, i) : i \in {RequestEnds(text)[k - 1]}} : TRUE]
  BY <1>6, Zenon DEF RequestEnds
<1> QED BY <1>5, <1>7

-----------------------------------------------------------------------------
\* Parse on the beginning of a text is where Parse on all of it comes by.
LEMMA ParsePrefix ==
  ASSUME NEW t \in Text, NEW u \in Text, Len(u) <= Len(t), \A i \in 1..Len(u) : u[i] = t[i],
         NEW p, NEW uri
  PROVE  Parse(p, uri, u) = Consume(p, uri, t)[Len(u)]
<1> DEFINE run == Consume(p, uri, t)
           short == Consume(p, uri, u)
           T == {i \in Nat : i <= Len(u) => short[i] = run[i]}
<1>1. Len(t) \in Nat /\ Len(u) \in Nat
  BY DEF Text
<1>2. run = [i \in 0..Len(t) |->
                IF i = 0 THEN [result |-> "undefined", parser |-> p, uri |-> uri]
                ELSE Turn(run[i - 1], t[i])]
  BY <1>1, ConsumeDef
<1>3. short = [i \in 0..Len(u) |->
                IF i = 0 THEN [result |-> "undefined", parser |-> p, uri |-> uri]
                ELSE Turn(short[i - 1], u[i])]
  BY <1>1, ConsumeDef
<1> HIDE DEF run, short
<1>4. 0 \in T
  BY <1>1, <1>2, <1>3
<1>5. \A n \in Nat : n \in T => n + 1 \in T
  <2> SUFFICES ASSUME NEW n \in Nat, n \in T, n + 1 <= Len(u)
               PROVE  short[n + 1] = run[n + 1]
    OBVIOUS
  <2>1. /\ n + 1 \in 1..Len(u) /\ n + 1 \in 0..Len(u) /\ n + 1 \in 0..Len(t)
        /\ n + 1 # 0 /\ (n + 1) - 1 = n /\ n <= Len(u)
    BY <1>1
  <2>2. short[n] = run[n]
    BY <2>1
  <2>3. short[n + 1] = Turn(short[n], u[n + 1]) /\ run[n + 1] = Turn(run[n], t[n + 1])
    BY <1>2, <1>3, <2>1
  <2> QED BY <2>1, <2>2, <2>3
<1>6. Len(u) \in T
  <2> HIDE DEF T
  <2> QED BY <1>1, <1>4, <1>5, SetInduction
<1> QED BY <1>1, <1>6 DEF Parse, run, short

\* A decisive result stays.
LEMMA DecidedStays ==
  ASSUME NEW t \in Text, NEW p, NEW uri, NEW m \in 0..Len(t), NEW n \in m..Len(t),
         Consume(p, uri, t)[m].result # "undefined"
  PROVE  Consume(p, uri, t)[n].result # "undefined"
<1> DEFINE run == Consume(p, uri, t)
           T == {d \in Nat : m + d <= Len(t) => run[m + d].result # "undefined"}
<1>1. Len(t) \in Nat
  BY DEF Text
<1>2. run = [i \in 0..Len(t) |->
                IF i = 0 THEN [result |-> "undefined", parser |-> p, uri |-> uri]
                ELSE Turn(run[i - 1], t[i])]
  BY <1>1, ConsumeDef
<1>3. run[m].result # "undefined"
  OBVIOUS
<1> HIDE DEF run
<1>4. 0 \in T
  BY <1>1, <1>3
<1>5. \A d \in Nat : d \in T => d + 1 \in T
  <2> SUFFICES ASSUME NEW d \in Nat, d \in T, m + (d + 1) <= Len(t)
               PROVE  run[m + (d + 1)].result # "undefined"
    OBVIOUS
  <2>1. m + (d + 1) \in 0..Len(t) /\ m + (d + 1) # 0 /\ (m + (d + 1)) - 1 = m + d /\ m + d <= Len(t)
    BY <1>1
  <2>2. run[m + d].result # "undefined"
    BY <2>1
  <2>3. run[m + (d + 1)] = Turn(run[m + d], t[m + (d + 1)])
    BY <1>2, <2>1
  <2> QED BY <2>2, <2>3 DEF Turn
<1>6. n - m \in T
  <2>1. n - m \in Nat
    BY <1>1
  <2> HIDE DEF T
  <2> QED BY <2>1, <1>4, <1>5, SetInduction
<1>7. n - m \in Nat /\ m + (n - m) = n /\ n <= Len(t)
  BY <1>1
<1> QED BY <1>6, <1>7 DEF run

LEMMA PieceType ==
  ASSUME NEW t \in Text, NEW f \in Nat, NEW n \in Nat, f <= n, n <= Len(t)
  PROVE  /\ SubSeq(t, f + 1, n) \in Text /\ Len(SubSeq(t, f + 1, n)) = n - f
         /\ \A i \in 1..(n - f) : SubSeq(t, f + 1, n)[i] = t[f + i]
<1>1. f + 1 \in Nat \ {0}
  OBVIOUS
<1>2. SubSeq(t, f + 1, n) \in Text
  BY <1>1, SubSeqType
<1> QED BY <1>2 DEF Text

LEMMA OneRequestNotEmpty ==
  ASSUME NEW t \in Text, IsOneRequest(t)
  PROVE  t # <<>> /\ Len(t) \in Nat \ {0}
<1> SUFFICES ASSUME t = <<>> PROVE FALSE
  BY DEF Text
<1>1. Len(t) = 0
  OBVIOUS
<1>2. Consume(FreshParser, <<>>, t)[0] =
          [result |-> "undefined", parser |-> FreshParser, uri |-> <<>>]
  BY <1>1, ConsumeDef
<1> QED BY <1>1, <1>2 DEF IsOneRequest, Parse

\* No request is the beginning of another: where one ends is never in doubt.
LEMMA OneRequestUnique ==
  ASSUME NEW t \in Text, NEW f \in Nat, NEW i \in (f + 1)..Len(t), NEW j \in (i + 1)..Len(t),
         IsOneRequest(SubSeq(t, f + 1, i)), IsOneRequest(SubSeq(t, f + 1, j))
  PROVE  FALSE
<1>0. Len(t) \in Nat
  BY DEF Text
<1> DEFINE u == SubSeq(t, f + 1, j)
           v == SubSeq(t, f + 1, i)
           w == SubSeq(u, 1, Len(u) - 1)
           run == Consume(FreshParser, <<>>, u)
<1>1. u \in Text /\ Len(u) = j - f /\ \A x \in 1..(j - f) : u[x] = t[f + x]
  BY <1>0, PieceType
<1>2. v \in Text /\ Len(v) = i - f /\ \A x \in 1..(i - f) : v[x] = t[f + x]
  BY <1>0, PieceType
<1> HIDE DEF u, v
<1>3. w \in Text /\ Len(w) = Len(u) - 1 /\ \A x \in 1..Len(w) : w[x] = u[x]
  <2>1. PICK n \in Nat : n = Len(u) - 1
    BY <1>0, <1>1
  <2>2. n <= Len(u) /\ 0 <= n /\ 0 \in Nat
    BY <1>0, <1>1, <2>1
  <2>3. /\ SubSeq(u, 0 + 1, n) \in Text /\ Len(SubSeq(u, 0 + 1, n)) = n - 0
        /\ \A x \in 1..(n - 0) : SubSeq(u, 0 + 1, n)[x] = u[0 + x]
    BY <1>1, <2>2, PieceType
  <2>4. w = SubSeq(u, 0 + 1, n)
    BY <2>1
  <2> HIDE DEF w
  <2> QED BY <2>1, <2>3, <2>4
<1>4. /\ Parse(FreshParser, <<>>, v).result = "good"
      /\ Parse(FreshParser, <<>>, w).result = "undefined"
  BY DEF IsOneRequest, u, v
<1> HIDE DEF w
<1>5. Parse(FreshParser, <<>>, v) = run[i - f] /\ Parse(FreshParser, <<>>, w) = run[j - f - 1]
  <2>1. Len(v) <= Len(u) /\ Len(w) <= Len(u) /\ \A x \in 1..Len(v) : v[x] = u[x]
    BY <1>0, <1>1, <1>2, <1>3
  <2>2. Parse(FreshParser, <<>>, v) = run[Len(v)]
    BY <1>1, <1>2, <2>1, ParsePrefix
  <2>3. Parse(FreshParser, <<>>, w) = run[Len(w)]
    BY <1>1, <1>3, <2>1, ParsePrefix
  <2> QED BY <1>1, <1>2, <1>3, <2>2, <2>3
<1>6. i - f \in 0..Len(u) /\ j - f - 1 \in (i - f)..Len(u)
  BY <1>0, <1>1
<1>7. run[j - f - 1].result # "undefined"
  <2>1. run[i - f].result # "undefined"
    BY <1>4, <1>5
  <2> QED BY <1>1, <1>6, <2>1, DecidedStays
<1> QED BY <1>4, <1>5, <1>7

\* Where a request ends, by NextEnd
LEMMA NextEndFound ==
  ASSUME NEW t \in Text, NEW f \in Nat, NEW j \in (f + 1)..Len(t),
         IsOneRequest(SubSeq(t, f + 1, j))
  PROVE  NextEnd(t, f) = j
<1> DEFINE ends == {i \in (f + 1)..Len(t) : IsOneRequest(SubSeq(t, f + 1, i))}
<1>0. Len(t) \in Nat
  BY DEF Text
<1>1. j \in ends
  OBVIOUS
<1>2. \A i \in ends : i = j
  <2> SUFFICES ASSUME NEW i \in ends, i # j PROVE FALSE
    OBVIOUS
  <2>1. i \in Nat /\ i \in (f + 1)..Len(t) /\ IsOneRequest(SubSeq(t, f + 1, i))
    BY <1>0
  <2>2. j \in Nat
    BY <1>0
  <2> HIDE DEF ends
  <2>3. CASE i < j
    <3>1. j \in (i + 1)..Len(t)
      BY <2>1, <2>2, <2>3, <1>0
    <3> QED BY <2>1, <3>1, OneRequestUnique
  <2>4. CASE j < i
    <3>1. i \in (j + 1)..Len(t)
      BY <2>1, <2>2, <2>4, <1>0
    <3> QED BY <2>1, <3>1, OneRequestUnique
  <2> QED BY <2>1, <2>2, <2>3, <2>4
<1>3. NextEnd(t, f) = IF ends = {} THEN Len(t) + 1 ELSE CHOOSE i \in ends : TRUE
  BY DEF NextEnd
<1> HIDE DEF ends
<1>4. (CHOOSE i \in ends : TRUE) \in ends
  BY <1>1
<1> QED BY <1>1, <1>2, <1>3, <1>4

\* At the end of a text there is no more.
LEMMA NextEndBeyond ==
  ASSUME NEW t \in Text, NEW f \in Nat, f >= Len(t)
  PROVE  NextEnd(t, f) = Len(t) + 1
<1>1. Len(t) \in Nat
  BY DEF Text
<1>2. {j \in (f + 1)..Len(t) : IsOneRequest(SubSeq(t, f + 1, j))} = {}
  BY <1>1
<1> QED BY <1>2 DEF NextEnd

-----------------------------------------------------------------------------
(* A script, its text and what is gathered of it                           *)

AllText(script) == Joined(script)[Len(script)]

EndsOf(script) == RequestEnds(AllText(script))

LEMMA JoinedTexts ==
  ASSUME NEW script \in Seq(NonEmpty), NEW n \in 0..Len(script)
  PROVE  Joined(script)[n] \in Text
<1> DEFINE T == {i \in Nat : i <= Len(script) => Joined(script)[i] \in Text}
<1>1. Len(script) \in Nat /\ \A i \in 1..Len(script) : script[i] \in Text
  BY DEF NonEmpty
<1>2. Joined(script) = [i \in 0..Len(script) |->
          IF i = 0 THEN <<>> ELSE Joined(script)[i - 1] \o script[i]]
  BY <1>1, JoinedDef
<1>3. 0 \in T
  BY <1>1, <1>2 DEF Text
<1>4. \A i \in Nat : i \in T => i + 1 \in T
  <2> SUFFICES ASSUME NEW i \in Nat, i \in T, i + 1 <= Len(script)
               PROVE  Joined(script)[i + 1] \in Text
    OBVIOUS
  <2>1. i + 1 \in 1..Len(script) /\ i + 1 \in 0..Len(script) /\ i + 1 # 0 /\ (i + 1) - 1 = i
        /\ i <= Len(script)
    BY <1>1
  <2>2. Joined(script)[i] \in Text /\ script[i + 1] \in Text
    BY <1>1, <2>1
  <2>3. Joined(script)[i + 1] = Joined(script)[i] \o script[i + 1]
    BY <1>2, <2>1
  <2> QED BY <2>2, <2>3, ConcatType
<1>5. n \in T
  <2>1. n \in Nat
    BY <1>1
  <2> HIDE DEF T
  <2> QED BY <2>1, <1>3, <1>4, SetInduction
<1> QED BY <1>1, <1>5

LEMMA GatheredTexts ==
  ASSUME NEW script \in Seq(NonEmpty), NEW n \in 0..Len(script)
  PROVE  Gathered(script)[n] \in Text
<1> DEFINE T == {i \in Nat : i <= Len(script) => Gathered(script)[i] \in Text}
<1>1. Len(script) \in Nat /\ \A i \in 1..Len(script) : script[i] \in Text
  BY DEF NonEmpty
<1>2. Gathered(script) = [i \in 0..Len(script) |->
            IF i = 0 THEN <<>>
            ELSE IF EndsRequest(Gathered(script)[i - 1], script[i]) THEN <<>>
            ELSE Gathered(script)[i - 1] \o script[i]]
  BY <1>1, GatheredDef
<1>0. <<>> \in Text
  BY DEF Text
<1>3. 0 \in T
  BY <1>0, <1>1, <1>2
<1>4. \A i \in Nat : i \in T => i + 1 \in T
  <2> SUFFICES ASSUME NEW i \in Nat, i \in T, i + 1 <= Len(script)
               PROVE  Gathered(script)[i + 1] \in Text
    OBVIOUS
  <2>1. i + 1 \in 1..Len(script) /\ i + 1 \in 0..Len(script) /\ i + 1 # 0 /\ (i + 1) - 1 = i
        /\ i <= Len(script)
    BY <1>1
  <2>2. Gathered(script)[i] \in Text /\ script[i + 1] \in Text
    BY <1>1, <2>1
  <2>3. Gathered(script)[i + 1] = IF EndsRequest(Gathered(script)[i], script[i + 1]) THEN <<>>
                                  ELSE Gathered(script)[i] \o script[i + 1]
    BY <1>2, <2>1
  <2>4. Gathered(script)[i] \o script[i + 1] \in Text
    BY <2>2, ConcatType
  <2> QED BY <1>0, <2>3, <2>4
<1>5. n \in T
  <2>1. n \in Nat
    BY <1>1
  <2> HIDE DEF T
  <2> QED BY <2>1, <1>3, <1>4, SetInduction
<1> QED BY <1>1, <1>5

\* One chunk more of the text: it begins where the last one ended.
LEMMA JoinedStep ==
  ASSUME NEW script \in Seq(NonEmpty), NEW n \in 0..Len(script), n < Len(script)
  PROVE  /\ Joined(script)[n + 1] \in Text /\ Joined(script)[n] \in Text
         /\ script[n + 1] \in Text /\ Len(script[n + 1]) > 0
         /\ Len(Joined(script)[n + 1]) = Len(Joined(script)[n]) + Len(script[n + 1])
         /\ \A i \in 1..Len(Joined(script)[n]) : Joined(script)[n + 1][i] = Joined(script)[n][i]
         /\ \A i \in 1..Len(script[n + 1]) :
               Joined(script)[n + 1][Len(Joined(script)[n]) + i] = script[n + 1][i]
<1>1. Len(script) \in Nat /\ n + 1 \in 1..Len(script) /\ n + 1 \in 0..Len(script)
      /\ n + 1 # 0 /\ (n + 1) - 1 = n
  OBVIOUS
<1>2. Joined(script) = [i \in 0..Len(script) |->
          IF i = 0 THEN <<>> ELSE Joined(script)[i - 1] \o script[i]]
  BY <1>1, JoinedDef
<1>3. script[n + 1] \in Text /\ script[n + 1] # <<>>
  BY <1>1 DEF NonEmpty
<1>4. Joined(script)[n] \in Text /\ Joined(script)[n + 1] \in Text
  BY <1>1, JoinedTexts
<1>5. ASSUME NEW a \in Text, NEW b \in Text, b # <<>>, NEW c, c = a \o b
      PROVE  /\ Len(c) = Len(a) + Len(b) /\ Len(b) > 0
             /\ \A i \in 1..Len(a) : c[i] = a[i]
             /\ \A i \in 1..Len(b) : c[Len(a) + i] = b[i]
  BY <1>5 DEF Text
<1>6. Joined(script)[n + 1] = Joined(script)[n] \o script[n + 1]
  BY <1>1, <1>2
<1> DEFINE a == Joined(script)[n]
           b == script[n + 1]
           c == Joined(script)[n + 1]
<1>7. a \in Text /\ b \in Text /\ b # <<>> /\ c \in Text /\ c = a \o b
  BY <1>3, <1>4, <1>6
<1> HIDE DEF a, b, c
<1>8. /\ Len(c) = Len(a) + Len(b) /\ Len(b) > 0
      /\ \A i \in 1..Len(a) : c[i] = a[i]
      /\ \A i \in 1..Len(b) : c[Len(a) + i] = b[i]
  BY <1>5, <1>7
<1> QED BY <1>7, <1>8 DEF a, b, c

\* The text of the first chunks is the beginning of all of it.
LEMMA JoinedPrefix ==
  ASSUME NEW script \in Seq(NonEmpty), NEW n \in 0..Len(script)
  PROVE  /\ AllText(script) \in Text
         /\ Len(Joined(script)[n]) <= Len(AllText(script))
         /\ \A i \in 1..Len(Joined(script)[n]) : AllText(script)[i] = Joined(script)[n][i]
<1> DEFINE J == Joined(script)
           N == Len(script)
           Begins(k) == /\ Len(J[k]) <= Len(AllText(script))
                        /\ \A i \in 1..Len(J[k]) : AllText(script)[i] = J[k][i]
           T == {d \in Nat : d <= N => Begins(N - d)}
<1>0. N \in Nat
  OBVIOUS
<1>1. AllText(script) \in Text /\ AllText(script) = J[N] /\ Len(AllText(script)) \in Nat
  <2>1. J[N] \in Text
    BY <1>0, JoinedTexts
  <2> QED BY <2>1 DEF AllText, Text
<1>2. ASSUME NEW k \in 0..N, k < N, Begins(k + 1) PROVE Begins(k)
  <2>1. /\ J[k + 1] \in Text /\ J[k] \in Text /\ script[k + 1] \in Text
        /\ Len(script[k + 1]) > 0
        /\ Len(J[k + 1]) = Len(J[k]) + Len(script[k + 1])
        /\ \A i \in 1..Len(J[k]) : J[k + 1][i] = J[k][i]
    BY <1>2, JoinedStep, Zenon
  <2>2. ASSUME NEW a \in Text PROVE Len(a) \in Nat
    BY DEF Text
  <2>3. Len(J[k + 1]) \in Nat /\ Len(J[k]) \in Nat /\ Len(script[k + 1]) \in Nat
    BY <2>1, <2>2, Zenon
  <2>4. ASSUME NEW a, NEW b, NEW c, NEW m, Len(a) \in Nat, Len(b) \in Nat, m \in Nat,
               Len(b) = Len(a) + m, \A i \in 1..Len(a) : b[i] = a[i],
               Len(c) \in Nat, Len(b) <= Len(c), \A i \in 1..Len(b) : c[i] = b[i]
        PROVE  Len(a) <= Len(c) /\ \A i \in 1..Len(a) : c[i] = a[i]
    BY <2>4
  <2> DEFINE a == J[k]
             b == J[k + 1]
             c == AllText(script)
             m == Len(script[k + 1])
  <2>5. /\ Len(a) \in Nat /\ Len(b) \in Nat /\ m \in Nat /\ Len(c) \in Nat
        /\ Len(b) = Len(a) + m /\ (\A i \in 1..Len(a) : b[i] = a[i])
        /\ Len(b) <= Len(c) /\ (\A i \in 1..Len(b) : c[i] = b[i])
    BY <1>1, <1>2, <2>1, <2>3, Zenon
  <2>6. Begins(k) <=> (Len(a) <= Len(c) /\ \A i \in 1..Len(a) : c[i] = a[i])
    BY Zenon
  <2> HIDE DEF a, b, c, m, Begins
  <2>7. Len(a) <= Len(c) /\ \A i \in 1..Len(a) : c[i] = a[i]
    BY <2>4, <2>5
  <2> QED BY <2>6, <2>7
<1>3. Begins(N)
  BY <1>1
<1> HIDE DEF N, Begins
<1>4. 0 \in T
  <2>1. N - 0 = N
    BY <1>0
  <2> QED BY <1>3, <2>1
<1>5. \A d \in Nat : d \in T => d + 1 \in T
  <2> SUFFICES ASSUME NEW d \in Nat, d \in T, d + 1 <= N
               PROVE  Begins(N - (d + 1))
    OBVIOUS
  <2>1. PICK k \in 0..N : k = N - (d + 1)
    BY <1>0
  <2>2. k < N /\ N - d = k + 1 /\ d <= N
    BY <1>0, <2>1
  <2> QED BY <1>2, <2>1, <2>2
<1>6. N - n \in T
  <2>1. N - n \in Nat
    BY <1>0 DEF N
  <2> HIDE DEF T
  <2> QED BY <2>1, <1>4, <1>5, SetInduction
<1>7. N - n \in Nat /\ N - n <= N /\ N - (N - n) = n
  BY <1>0 DEF N
<1> QED BY <1>1, <1>6, <1>7 DEF Begins


\* What has been read since a place in the text grows by the chunk that is read.
LEMMA BodyGrows ==
  ASSUME NEW script \in Seq(NonEmpty), NEW n \in 0..Len(script), n < Len(script),
         NEW e \in Nat, e <= Len(Joined(script)[n])
  PROVE  /\ SubSeq(AllText(script), e + 1, Len(Joined(script)[n])) \in Text
         /\ SubSeq(AllText(script), e + 1, Len(Joined(script)[n])) \o script[n + 1]
               = SubSeq(AllText(script), e + 1, Len(Joined(script)[n + 1]))
         /\ e <= Len(Joined(script)[n + 1])
<1> DEFINE a == Joined(script)[n]
           b == script[n + 1]
           c == Joined(script)[n + 1]
           t == AllText(script)
<1>1. n + 1 \in 0..Len(script)
  OBVIOUS
<1>2. /\ c \in Text /\ a \in Text /\ b \in Text /\ Len(b) > 0
      /\ Len(c) = Len(a) + Len(b)
      /\ \A i \in 1..Len(b) : c[Len(a) + i] = b[i]
  BY JoinedStep, Zenon
<1>3. t \in Text /\ Len(c) <= Len(t) /\ (\A i \in 1..Len(c) : t[i] = c[i])
  BY <1>1, JoinedPrefix, Zenon
<1>4. e <= Len(a)
  OBVIOUS
<1> HIDE DEF a, b, c, t
<1>5. Len(a) \in Nat /\ Len(b) \in Nat /\ Len(c) \in Nat /\ Len(t) \in Nat
  BY <1>2, <1>3 DEF Text
<1>6. PICK m \in Nat : m = Len(a)
  BY <1>5
<1>7. PICK k \in Nat : k = Len(c)
  BY <1>5
<1>8. e <= m /\ m <= k /\ k <= Len(t) /\ m <= Len(t) /\ e <= k /\ k = m + Len(b)
  BY <1>2, <1>3, <1>4, <1>5, <1>6, <1>7
<1> DEFINE u == SubSeq(t, e + 1, m)
           v == SubSeq(t, e + 1, k)
<1>9. /\ u \in Text /\ Len(u) = m - e
      /\ \A i \in 1..(m - e) : u[i] = t[e + i]
  BY <1>3, <1>8, PieceType
<1>10. /\ v \in Text /\ Len(v) = k - e
       /\ \A i \in 1..(k - e) : v[i] = t[e + i]
  BY <1>3, <1>8, PieceType
<1>11. u \in Text /\ u \o b = v
  <2> HIDE DEF u, v
  <2> DEFINE w == u \o b
  <2>0. ASSUME NEW x \in Text, NEW y \in Text
        PROVE  /\ x \o y \in Text /\ Len(x \o y) = Len(x) + Len(y)
               /\ \A i \in 1..Len(x \o y) :
                     (x \o y)[i] = IF i <= Len(x) THEN x[i] ELSE y[i - Len(x)]
    BY DEF Text
  <2>1. /\ w \in Text /\ Len(w) = Len(u) + Len(b)
        /\ \A i \in 1..Len(w) : w[i] = IF i <= Len(u) THEN u[i] ELSE b[i - Len(u)]
    BY <1>2, <1>9, <2>0, Zenon
  <2> HIDE DEF w
  <2>2. Len(w) = k - e
    BY <1>8, <1>9, <2>1, <1>5
  <2>3. ASSUME NEW i \in 1..(k - e) PROVE w[i] = v[i]
    <3>1. CASE i <= m - e
      <4>1. i \in 1..(m - e) /\ i \in 1..Len(w)
        BY <3>1, <1>8, <2>2
      <4>2. w[i] = u[i]
        BY <4>1, <3>1, <1>9, <2>1
      <4> QED BY <4>1, <4>2, <1>9, <1>10
    <3>2. CASE i > m - e
      <4>1. PICK j \in 1..Len(b) : j = i - (m - e)
        BY <3>2, <1>8, <1>5
      <4>2. i \in 1..Len(w) /\ ~(i <= Len(u)) /\ i - Len(u) = j /\ e + i = m + j
        BY <3>2, <4>1, <1>8, <1>9, <2>2
      <4>3. w[i] = b[j] /\ v[i] = t[m + j]
        BY <4>2, <2>1, <1>10
      <4>4. m + j \in 1..Len(c)
        BY <4>1, <1>7, <1>8, <1>5
      <4>5. t[m + j] = c[m + j] /\ c[m + j] = b[j]
        BY <4>1, <4>4, <1>2, <1>3, <1>6
      <4> QED BY <4>3, <4>5
    <3> QED BY <3>1, <3>2, <1>8
  <2>4. w = v
    BY <1>10, <2>1, <2>2, <2>3 DEF Text
  <2> QED BY <1>9, <2>4 DEF w
<1> QED BY <1>6, <1>7, <1>8, <1>11 DEF a, b, c, t

LEMMA GatheredStep ==
  ASSUME NEW script \in Seq(NonEmpty), NEW n \in 0..Len(script), n < Len(script)
  PROVE  Gathered(script)[n + 1] =
            IF EndsRequest(Gathered(script)[n], script[n + 1]) THEN <<>>
            ELSE Gathered(script)[n] \o script[n + 1]
<1>1. Len(script) \in Nat /\ n + 1 \in 0..Len(script) /\ n + 1 # 0 /\ (n + 1) - 1 = n
  OBVIOUS
<1>2. Gathered(script) = [i \in 0..Len(script) |->
            IF i = 0 THEN <<>>
            ELSE IF EndsRequest(Gathered(script)[i - 1], script[i]) THEN <<>>
            ELSE Gathered(script)[i - 1] \o script[i]]
  BY <1>1, GatheredDef
<1> QED BY <1>1, <1>2

\* A header line is no request line.
LEMMA HeaderNoRequestLine ==
  ASSUME NEW c \in Text, check_header(c)
  PROVE  ~check_requestLine(c)
<1> SUFFICES ASSUME check_requestLine(c) PROVE FALSE
  OBVIOUS
<1>1. PICK k \in 1..Len(c) : c[k] \in FieldNames /\ \A i \in 1..(k - 1) : c[i] \in Letters
  BY DEF check_header
<1>2. c[2] = SP /\ c[1] \in Letters
  BY DEF check_requestLine, Letters
<1>3. SP \notin Letters /\ SP \notin FieldNames /\ \A x \in Letters : x \notin FieldNames
  BY LexemesAssumption DEF Tokens
<1>4. Len(c) \in Nat
  BY DEF Text
<1>5. CASE k = 1
  BY <1>1, <1>2, <1>3, <1>5
<1>6. CASE k = 2
  BY <1>1, <1>2, <1>3, <1>6
<1>7. CASE k > 2
  <2>1. 2 \in 1..(k - 1)
    BY <1>4, <1>7
  <2> QED BY <1>1, <1>2, <1>3, <2>1
<1> QED BY <1>4, <1>5, <1>6, <1>7

\* What handle_read makes of a chunk of an orderly client: it ends a request or
\* it is one line more of it.
LEMMA OrderlyVerdict ==
  ASSUME NEW script \in Seq(NonEmpty), Orderly(script),
         NEW n \in 0..Len(script), n < Len(script),
         NEW before, before = Gathered(script)[n], NEW c, c = script[n + 1],
         NEW started \in BOOLEAN, started <=> before # <<>>,
         NEW verdict, verdict = Classify(started, c, Len(c))
  PROVE  /\ Len(c) < MaxLength
         /\ EndsRequest(before, c) => verdict \in {"whole", "end"} /\ IsOneRequest(before \o c)
         /\ ~EndsRequest(before, c) => verdict \in {"line", "header"}
<1>1. n + 1 \in 1..Len(script) /\ (n + 1) - 1 = n
  OBVIOUS
<1>2. /\ Len(c) < MaxLength
      /\ IF EndsRequest(before, c) THEN IsOneRequest(before \o c)
         ELSE IF before = <<>>
              THEN check_requestLine(c) /\ check_method(c[1])
              ELSE check_header(c)
  <2>1. \A i \in 1..Len(script) :
          /\ Len(script[i]) < MaxLength
          /\ IF EndsRequest(Gathered(script)[i - 1], script[i])
             THEN IsOneRequest(Gathered(script)[i - 1] \o script[i])
             ELSE IF Gathered(script)[i - 1] = <<>>
                  THEN check_requestLine(script[i]) /\ check_method(script[i][1])
                  ELSE check_header(script[i])
    BY Zenon DEF Orderly
  <2> QED BY <1>1, <2>1
<1>3. c \in Text
  BY <1>1 DEF NonEmpty
<1>4. started <=> before # <<>>
  OBVIOUS
<1>5. check_request(c) => c # <<CRLF>>
  <2> SUFFICES ASSUME c = <<CRLF>>, check_request(c) PROVE FALSE
    OBVIOUS
  <2>1. PICK k \in 1..Len(c) : check_requestLine(SubSeq(c, 1, k))
    BY DEF check_request
  <2>2. k = 1 /\ Len(c) = 1
    BY <2>1
  <2>3. Len(SubSeq(c, 1, k)) = 1
    BY <2>2
  <2> QED BY <2>1, <2>3 DEF check_requestLine
<1>6. CASE EndsRequest(before, c) /\ before = <<>>
  BY <1>2, <1>4, <1>5, <1>6 DEF EndsRequest, Classify, complete
<1>7. CASE EndsRequest(before, c) /\ before # <<>>
  <2>0. c = <<CRLF>>
    BY <1>7, Zenon DEF EndsRequest
  <2>1. c = <<CRLF>> /\ Len(c) = 1
    BY <2>0
  <2> QED BY <1>2, <1>4, <1>7, <2>1 DEF Classify, complete
<1>8. CASE ~EndsRequest(before, c) /\ before = <<>>
  BY <1>2, <1>4, <1>8 DEF EndsRequest, Classify, complete
<1>9. CASE ~EndsRequest(before, c) /\ before # <<>>
  <2>1. check_header(c) /\ ~check_requestLine(c) /\ c # <<CRLF>>
    BY <1>2, <1>3, <1>9, HeaderNoRequestLine DEF EndsRequest
  <2> QED BY <1>2, <1>4, <1>9, <2>1 DEF Classify, complete
<1> QED BY <1>6, <1>7, <1>8, <1>9


-----------------------------------------------------------------------------
\* How far reading a script has come: chunks are still to be read, done requests
\* have been answered, and body is the text between the last of them and there.
Taken(script, chunks) == Len(script) - Len(chunks)

Placed(script, chunks, body, done) ==
    /\ Len(chunks) <= Len(script)
    /\ \A i \in 1..Len(chunks) : chunks[i] = script[Taken(script, chunks) + i]
    /\ done \in Nat
    /\ EndsOf(script)[done] \in done..Len(Joined(script)[Taken(script, chunks)])
    /\ body = SubSeq(AllText(script), EndsOf(script)[done] + 1,
                     Len(Joined(script)[Taken(script, chunks)]))

\* A request is being received, or the next one waited for.
Gathering(script, chunks, body, done) ==
    /\ Placed(script, chunks, body, done)
    /\ body = Gathered(script)[Taken(script, chunks)]

\* A request has been received and not been answered yet.
Answering(script, chunks, body, done) ==
    /\ Placed(script, chunks, body, done)
    /\ Gathered(script)[Taken(script, chunks)] = <<>>
    /\ IsOneRequest(body)

\* The answers are to the first requests of the script, in their order.
AnsweredBy(script, given) ==
    \A k \in 1..Len(given) :
        /\ EndsOf(script)[k] \in k..Len(AllText(script))
        /\ given[k].uri = OwnUri(SubSeq(AllText(script), EndsOf(script)[k - 1] + 1,
                                        EndsOf(script)[k]))
        /\ given[k].code # 400

LEMMA PlaceStart ==
  ASSUME NEW script \in Seq(NonEmpty)
  PROVE  Gathering(script, script, <<>>, 0)
<1>1. Len(script) \in Nat /\ 0 \in 0..Len(script)
  OBVIOUS
<1>2. Taken(script, script) = 0
  BY <1>1 DEF Taken
<1>3. Joined(script)[0] = <<>>
  <2>1. Joined(script) = [i \in 0..Len(script) |->
            IF i = 0 THEN <<>> ELSE Joined(script)[i - 1] \o script[i]]
    BY <1>1, JoinedDef
  <2> QED BY <1>1, <2>1
<1>4. Gathered(script)[0] = <<>>
  <2>1. Gathered(script) = [i \in 0..Len(script) |->
            IF i = 0 THEN <<>>
            ELSE IF EndsRequest(Gathered(script)[i - 1], script[i]) THEN <<>>
            ELSE Gathered(script)[i - 1] \o script[i]]
    BY <1>1, GatheredDef
  <2> QED BY <1>1, <2>1
<1> DEFINE t == AllText(script)
<1>5. t \in Text
  BY <1>1, JoinedPrefix
<1> HIDE DEF t
<1>6. RequestEnds(t)[0] = 0
  <2>1. Len(t) \in Nat /\ 0 \in 0..Len(t)
    BY <1>5 DEF Text
  <2>2. RequestEnds(t) = [k \in 0..Len(t) |->
            IF k = 0 THEN 0 ELSE NextEnd(t, RequestEnds(t)[k - 1])]
    BY <2>1, EndsDef
  <2> QED BY <2>1, <2>2
<1>7. SubSeq(t, 0 + 1, 0) = <<>>
  BY <1>5 DEF Text
<1>8. Len(Joined(script)[0]) = 0
  BY <1>3
<1>9. EndsOf(script)[0] = 0
  BY <1>6 DEF EndsOf, t
<1>10. Placed(script, script, <<>>, 0)
  BY <1>1, <1>2, <1>7, <1>8, <1>9 DEF Placed, t
<1> QED BY <1>2, <1>4, <1>10 DEF Gathering

LEMMA PlaceRead ==
  ASSUME NEW script \in Seq(NonEmpty), NEW chunks \in Seq(NonEmpty), chunks # <<>>,
         NEW body, NEW done, Gathering(script, chunks, body, done),
         NEW c, c = Head(chunks), NEW n, n = Taken(script, chunks)
  PROVE  /\ n \in 0..Len(script) /\ n < Len(script) /\ c = script[n + 1]
         /\ body = Gathered(script)[n]
         /\ Placed(script, Tail(chunks), body \o c, done)
         /\ Gathered(script)[Taken(script, Tail(chunks))] =
               IF EndsRequest(body, c) THEN <<>> ELSE body \o c
<1>1. /\ Len(chunks) \in Nat /\ Len(chunks) > 0 /\ Len(script) \in Nat /\ c = chunks[1]
      /\ Tail(chunks) \in Seq(NonEmpty) /\ Len(Tail(chunks)) = Len(chunks) - 1
      /\ \A i \in 1..(Len(chunks) - 1) : Tail(chunks)[i] = chunks[i + 1]
  OBVIOUS
<1> DEFINE rest == Tail(chunks)
           e == EndsOf(script)[done]
           t == AllText(script)
           a == Joined(script)[n]
           b == Joined(script)[n + 1]
<1>2. /\ Len(chunks) <= Len(script) /\ \A i \in 1..Len(chunks) : chunks[i] = script[n + i]
      /\ done \in Nat /\ e \in done..Len(a) /\ body = SubSeq(t, e + 1, Len(a))
      /\ body = Gathered(script)[n]
  BY DEF Gathering, Placed
<1>3. n \in 0..Len(script) /\ n < Len(script) /\ n = Len(script) - Len(chunks)
  BY <1>1, <1>2 DEF Taken
<1>4. Taken(script, rest) = n + 1
  BY <1>1, <1>3 DEF Taken
<1>5. c = script[n + 1]
  BY <1>1, <1>2, <1>3
<1>6. \A i \in 1..Len(rest) : rest[i] = script[n + 1 + i]
  BY <1>1, <1>2, <1>3
<1>7. Len(a) \in Nat /\ Len(b) \in Nat
  <2>1. n + 1 \in 0..Len(script)
    BY <1>1, <1>3
  <2>2. a \in Text /\ b \in Text
    BY <1>3, <2>1, JoinedTexts
  <2> HIDE DEF a, b
  <2> QED BY <2>2 DEF Text
<1>8. e \in Nat /\ e <= Len(a)
  <2> HIDE DEF a, e
  <2> QED BY <1>2, <1>7
<1>9. SubSeq(t, e + 1, Len(a)) \o script[n + 1] = SubSeq(t, e + 1, Len(b)) /\ e <= Len(b)
  BY <1>3, <1>8, BodyGrows
<1>10. Gathered(script)[n + 1] = IF EndsRequest(body, c) THEN <<>> ELSE body \o c
  <2>1. Gathered(script)[n + 1] =
            IF EndsRequest(Gathered(script)[n], script[n + 1]) THEN <<>>
            ELSE Gathered(script)[n] \o script[n + 1]
    BY <1>3, GatheredStep
  <2> QED BY <1>2, <1>5, <2>1
<1>11. Placed(script, rest, body \o c, done)
  <2>1. e \in done..Len(b)
    <3> HIDE DEF b, e, a
    <3> QED BY <1>2, <1>7, <1>9
  <2>2. body \o c = SubSeq(t, e + 1, Len(b))
    BY <1>2, <1>5, <1>9
  <2>3. Len(rest) <= Len(script)
    BY <1>1, <1>2
  <2> HIDE DEF rest
  <2> QED BY <1>2, <1>4, <1>6, <2>1, <2>2, <2>3 DEF Placed
<1> QED BY <1>2, <1>3, <1>4, <1>5, <1>10, <1>11

LEMMA PlaceAnswer ==
  ASSUME NEW script \in Seq(NonEmpty), NEW chunks \in Seq(NonEmpty), NEW body,
         NEW given \in Seq(Answer), Answering(script, chunks, body, Len(given)),
         AnsweredBy(script, given),
         NEW answer, answer.uri = OwnUri(body), answer.code # 400
  PROVE  /\ Gathering(script, chunks, <<>>, Len(given) + 1)
         /\ AnsweredBy(script, Append(given, answer))
<1> DEFINE n == Taken(script, chunks)
           done == Len(given)
           t == AllText(script)
           e == EndsOf(script)[done]
           a == Joined(script)[n]
<1>1. /\ Len(chunks) <= Len(script) /\ \A i \in 1..Len(chunks) : chunks[i] = script[n + i]
      /\ done \in Nat /\ e \in done..Len(a) /\ body = SubSeq(t, e + 1, Len(a))
      /\ Gathered(script)[n] = <<>> /\ IsOneRequest(body)
  BY DEF Answering, Placed
<1>2. n \in 0..Len(script)
  <2>1. Len(chunks) \in Nat /\ Len(script) \in Nat
    OBVIOUS
  <2> QED BY <1>1, <2>1 DEF Taken
<1>3. a \in Text /\ t \in Text /\ Len(a) <= Len(t)
  BY <1>2, JoinedTexts, JoinedPrefix
<1>4. Len(a) \in Nat /\ Len(t) \in Nat
  BY <1>3 DEF Text
<1>5. PICK m \in Nat : m = Len(a)
  BY <1>4
<1>6. PICK d \in Nat : d = e
  <2> HIDE DEF a, e
  <2> QED BY <1>1, <1>4
<1>7. d <= m /\ done <= d /\ m <= Len(t) /\ body = SubSeq(t, d + 1, m)
  <2> HIDE DEF a, e, t
  <2> QED BY <1>1, <1>3, <1>4, <1>5, <1>6
<1>8. d < m
  <2>1. body \in Text /\ Len(body) = m - d
    BY <1>3, <1>7, PieceType
  <2>2. Len(body) \in Nat \ {0}
    BY <1>1, <2>1, OneRequestNotEmpty
  <2> QED BY <2>1, <2>2
<1>9. NextEnd(t, d) = m
  <2>1. m \in (d + 1)..Len(t)
    BY <1>4, <1>7, <1>8
  <2>2. IsOneRequest(SubSeq(t, d + 1, m))
    BY <1>1, <1>7
  <2> QED BY <1>3, <2>1, <2>2, NextEndFound
<1>10. EndsOf(script)[done + 1] = m
  <2>1. done + 1 \in 0..Len(t) /\ done + 1 # 0 /\ (done + 1) - 1 = done
    <3> HIDE DEF t, done
    <3> QED BY <1>1, <1>4, <1>7, <1>8
  <2>2. RequestEnds(t) = [k \in 0..Len(t) |->
            IF k = 0 THEN 0 ELSE NextEnd(t, RequestEnds(t)[k - 1])]
    BY <1>4, EndsDef
  <2>3. RequestEnds(t)[done + 1] = NextEnd(t, RequestEnds(t)[done])
    <3> DEFINE places == 0..Len(t)
               end(k) == IF k = 0 THEN 0 ELSE NextEnd(t, RequestEnds(t)[k - 1])
    <3>1. RequestEnds(t) = [k \in places |-> end(k)]
      BY <2>2, Zenon
    <3>2. done + 1 \in places
      BY <2>1, Zenon
    <3>3. RequestEnds(t)[done + 1] = end(done + 1)
      <4> HIDE DEF places, end, t, done
      <4> QED BY <3>1, <3>2, Zenon
    <3>4. end(done + 1) = NextEnd(t, RequestEnds(t)[(done + 1) - 1])
      BY <2>1, Zenon
    <3> QED BY <2>1, <3>3, <3>4, Zenon
  <2>4. RequestEnds(t)[done] = d
    BY <1>6 DEF EndsOf
  <2> QED BY <1>9, <2>3, <2>4 DEF EndsOf
<1>11. Placed(script, chunks, <<>>, done + 1)
  <2>1. SubSeq(t, m + 1, m) = <<>>
    <3> HIDE DEF t
    <3> QED BY <1>3, <1>5, <1>4 DEF Text
  <2>2. m \in (done + 1)..Len(a) /\ done + 1 \in Nat
    <3> HIDE DEF done, a
    <3> QED BY <1>1, <1>5, <1>7, <1>8
  <2> HIDE DEF done
  <2> QED BY <1>1, <1>5, <1>10, <2>1, <2>2 DEF Placed
<1>12. AnsweredBy(script, Append(given, answer))
  <2> DEFINE more == Append(given, answer)
             Right(k, x) == /\ EndsOf(script)[k] \in k..Len(t)
                            /\ x.uri = OwnUri(SubSeq(t, EndsOf(script)[k - 1] + 1,
                                                     EndsOf(script)[k]))
                            /\ x.code # 400
  <2>1. /\ Len(more) = done + 1 /\ more[done + 1] = answer
        /\ \A k \in 1..done : more[k] = given[k]
    OBVIOUS
  <2>2. \A k \in 1..done : Right(k, given[k])
    BY DEF AnsweredBy
  <2>3. Right(done + 1, answer)
    <3>1. (done + 1) - 1 = done
      BY <1>1
    <3>2. m \in (done + 1)..Len(t)
      <4> HIDE DEF done, t
      <4> QED BY <1>1, <1>4, <1>7, <1>8
    <3> QED BY <1>6, <1>7, <1>10, <3>1, <3>2
  <2> HIDE DEF more, Right, done
  <2>4. \A k \in 1..(done + 1) : Right(k, more[k])
    <3> TAKE k \in 1..(done + 1)
    <3>1. CASE k \in 1..done
      BY <2>1, <2>2, <3>1
    <3>2. CASE k = done + 1
      BY <2>1, <2>3, <3>2
    <3> QED BY <1>1, <3>1, <3>2
  <2> QED BY <2>1, <2>4 DEF AnsweredBy, more, Right
<1> QED BY <1>1, <1>11, <1>12 DEF Gathering


-----------------------------------------------------------------------------
\* The requests of a script, by their places.
Places(script) == {k \in 1..Len(AllText(script)) : EndsOf(script)[k] <= Len(AllText(script))}

LEMMA SummaryParts ==
  ASSUME NEW script
  PROVE  /\ Summary(script).requests = Cardinality(Places(script))
         /\ Summary(script).uris =
               [k \in Places(script) |->
                   OwnUri(SubSeq(AllText(script), EndsOf(script)[k - 1] + 1, EndsOf(script)[k]))]
  BY Zenon DEF Summary, CutAt, Places, AllText, EndsOf

LEMMA PlacesFinite ==
  ASSUME NEW script \in Seq(NonEmpty)
  PROVE  /\ Len(AllText(script)) \in Nat
         /\ IsFiniteSet(Places(script)) /\ Cardinality(Places(script)) \in Nat
<1>1. Len(script) \in 0..Len(script)
  OBVIOUS
<1>2. AllText(script) \in Text
  BY <1>1, JoinedPrefix
<1>3. Len(AllText(script)) \in Nat
  BY <1>2 DEF Text
<1>4. IsFiniteSet(1..Len(AllText(script)))
  BY <1>3, FS_Interval
<1>5. Places(script) \subseteq 1..Len(AllText(script))
  BY DEF Places
<1> QED BY <1>3, <1>4, <1>5, FS_Subset, FS_CardinalityType

\* Answers in order are no more than there are requests, and each is about its own.
LEMMA AnsweredInOrder ==
  ASSUME NEW script \in Seq(NonEmpty), NEW given \in Seq(Answer), AnsweredBy(script, given)
  PROVE  /\ 1..Len(given) \subseteq Places(script)
         /\ Len(given) <= Summary(script).requests
         /\ \A k \in 1..Len(given) :
               /\ given[k].code # 400
               /\ k \in DOMAIN Summary(script).uris
               /\ given[k].uri = Summary(script).uris[k]
<1>1. Len(given) \in Nat
  OBVIOUS
<1>2. Len(AllText(script)) \in Nat /\ IsFiniteSet(Places(script))
      /\ Cardinality(Places(script)) \in Nat
  BY PlacesFinite
<1>3. ASSUME NEW k \in 1..Len(given)
      PROVE  /\ k \in Places(script) /\ given[k].code # 400
             /\ given[k].uri = OwnUri(SubSeq(AllText(script), EndsOf(script)[k - 1] + 1,
                                             EndsOf(script)[k]))
  <2>1. /\ EndsOf(script)[k] \in k..Len(AllText(script)) /\ given[k].code # 400
        /\ given[k].uri = OwnUri(SubSeq(AllText(script), EndsOf(script)[k - 1] + 1,
                                        EndsOf(script)[k]))
    BY DEF AnsweredBy
  <2>2. ASSUME NEW e, NEW n \in Nat, e \in k..n PROVE k \in 1..n /\ e <= n
    BY <1>1, <2>2
  <2>3. k \in 1..Len(AllText(script)) /\ EndsOf(script)[k] <= Len(AllText(script))
    BY <1>2, <2>1, <2>2
  <2> QED BY <2>1, <2>3 DEF Places
<1>4. Cardinality(1..Len(given)) = Len(given)
  <2>1. PICK n \in Nat : n = Len(given)
    BY <1>1
  <2>2. Cardinality(1..n) = IF 1 > n THEN 0 ELSE n - 1 + 1
    BY FS_Interval
  <2>3. Cardinality(1..n) = n
    BY <2>2
  <2> QED BY <2>1, <2>3
<1>5. 1..Len(given) \subseteq Places(script)
  BY <1>3
<1>6. Len(given) <= Cardinality(Places(script))
  BY <1>2, <1>4, <1>5, FS_Subset
<1> DEFINE Own(k) == OwnUri(SubSeq(AllText(script), EndsOf(script)[k - 1] + 1,
                                   EndsOf(script)[k]))
           uris == Summary(script).uris
<1>7. /\ uris = [k \in Places(script) |-> Own(k)]
      /\ Summary(script).requests = Cardinality(Places(script))
  BY SummaryParts, Zenon
<1>8. \A k \in 1..Len(given) : k \in Places(script) /\ given[k].code # 400 /\ given[k].uri = Own(k)
  BY <1>3
<1> HIDE DEF Own, uris
<1>9. \A k \in 1..Len(given) : k \in DOMAIN uris /\ given[k].uri = uris[k]
  BY <1>7, <1>8
<1> QED BY <1>5, <1>6, <1>7, <1>8, <1>9 DEF uris

\* With nothing left to read and nothing gathered there is no further request.
LEMMA NoFurtherRequest ==
  ASSUME NEW script \in Seq(NonEmpty), Orderly(script), NEW body, NEW given \in Seq(Answer),
         Gathering(script, <<>>, body, Len(given)), AnsweredBy(script, given)
  PROVE  Len(given) = Summary(script).requests
<1> DEFINE t == AllText(script)
           done == Len(given)
           ends == RequestEnds(t)
           T == {d \in Nat : done + 1 + d <= Len(t) => ends[done + 1 + d] = Len(t) + 1}
<1>1. Taken(script, <<>>) = Len(script) /\ Len(script) \in Nat /\ Len(script) \in 0..Len(script)
  BY DEF Taken
<1>2. t \in Text /\ Joined(script)[Len(script)] = t
  BY <1>1, JoinedPrefix DEF AllText
<1>3. Len(t) \in Nat /\ done \in Nat
  BY <1>2 DEF Text
<1>4. body = <<>> /\ ends[done] \in done..Len(t) /\ body = SubSeq(t, ends[done] + 1, Len(t))
  <2>1. Gathered(script)[Len(script)] = <<>>
    BY Zenon DEF Orderly
  <2> QED BY <1>1, <1>2, <2>1 DEF Gathering, Placed, EndsOf
<1> HIDE DEF t
<1>5. ends = [k \in 0..Len(t) |-> IF k = 0 THEN 0 ELSE NextEnd(t, ends[k - 1])]
  BY <1>3, EndsDef
<1> HIDE DEF done, ends
<1>6. ends[done] = Len(t)
  <2>1. PICK e \in Nat : e = ends[done] /\ e <= Len(t)
    BY <1>3, <1>4
  <2>2. Len(SubSeq(t, e + 1, Len(t))) = Len(t) - e
    BY <1>2, <1>3, <2>1, PieceType
  <2>3. SubSeq(t, e + 1, Len(t)) = <<>>
    BY <1>4, <2>1
  <2>4. Len(t) - e = 0
    BY <2>2, <2>3
  <2> QED BY <1>3, <2>1, <2>4
<1>7. 0 \in T
  <2> SUFFICES ASSUME done + 1 <= Len(t) PROVE ends[done + 1] = Len(t) + 1
    BY <1>3
  <2>1. done + 1 \in 0..Len(t) /\ done + 1 # 0 /\ (done + 1) - 1 = done
    BY <1>3
  <2>2. ends[done + 1] = NextEnd(t, Len(t))
    BY <1>5, <1>6, <2>1
  <2> QED BY <1>2, <1>3, <2>2, NextEndBeyond
<1>8. \A d \in Nat : d \in T => d + 1 \in T
  <2> SUFFICES ASSUME NEW d \in Nat, d \in T, done + 1 + (d + 1) <= Len(t)
               PROVE  ends[done + 1 + (d + 1)] = Len(t) + 1
    OBVIOUS
  <2>1. PICK k \in Nat : k = done + 1 + d
    BY <1>3
  <2>2. k + 1 \in 0..Len(t) /\ k + 1 # 0 /\ (k + 1) - 1 = k /\ k <= Len(t)
        /\ done + 1 + (d + 1) = k + 1
    BY <1>3, <2>1
  <2>3. ends[k] = Len(t) + 1
    BY <2>1, <2>2
  <2>4. ends[k + 1] = NextEnd(t, Len(t) + 1)
    BY <1>5, <2>2, <2>3
  <2>5. Len(t) + 1 \in Nat /\ Len(t) + 1 >= Len(t)
    BY <1>3
  <2> QED BY <1>2, <2>2, <2>4, <2>5, NextEndBeyond
<1>9. ASSUME NEW k \in (done + 1)..Len(t) PROVE ends[k] = Len(t) + 1
  <2>1. PICK d \in Nat : d = k - (done + 1)
    BY <1>3
  <2>2. d \in T
    <3> HIDE DEF T
    <3> QED BY <1>7, <1>8, SetInduction
  <2>3. done + 1 + d = k /\ k <= Len(t)
    BY <1>3, <2>1
  <2> QED BY <2>2, <2>3
<1>10. Places(script) = {k \in 1..Len(t) : ends[k] <= Len(t)}
  BY DEF Places, EndsOf, t, ends
<1>11. 1..done \subseteq Places(script)
  BY AnsweredInOrder DEF done
<1>12. Places(script) = 1..done
  <2>1. ASSUME NEW k \in Places(script) PROVE k \in 1..done
    <3>1. k \in 1..Len(t) /\ ends[k] <= Len(t)
      BY <1>10
    <3>2. k \notin (done + 1)..Len(t)
      BY <1>3, <1>9, <3>1
    <3> QED BY <1>3, <3>1, <3>2
  <2> QED BY <1>11, <2>1
<1>13. Cardinality(1..done) = done
  <2>1. Cardinality(1..done) = IF 1 > done THEN 0 ELSE done - 1 + 1
    BY <1>3, FS_Interval
  <2> QED BY <1>3, <2>1
<1> QED BY <1>12, <1>13, SummaryParts DEF done


-----------------------------------------------------------------------------
\* Nothing of data_ is left behind the chunk that is read next.
Fits(chunks, data) == chunks # <<>> => Len(data) <= Len(chunks[1])

\* Where a session stands in what its client sends.
InPlace(s) ==
    /\ life[s] \in {"unborn", "accepting"} => sent[s] = <<>> /\ http_body[s] = <<>>
    /\ AnsweredBy(asked[s], sent[s])
    /\ life[s] = "open" =>
          /\ workers[s] = 0
          /\ io = s => Answering(asked[s], inq[s], http_body[s], Len(sent[s]))
          /\ io # s => /\ Gathering(asked[s], inq[s], http_body[s], Len(sent[s]))
                       /\ Fits(inq[s], data_[s])

\* Also when the process has stopped, a read belongs to an open session.
Reading(s) == reads[s] > 0 => life[s] = "open" /\ io # s

OInv ==
    /\ OrderlyClients
    /\ Counting
    /\ Isolated
    /\ ParserFresh
    /\ \A s \in Sessions : InPlace(s) /\ Reading(s)

LEMMA OrderlyNothing == Orderly(<<>>)
<1>1. Gathered(<<>>)[0] = <<>>
  <2>1. Len(<<>>) = 0 /\ 0 \in 0..0
    OBVIOUS
  <2>2. Gathered(<<>>) = [i \in 0..Len(<<>>) |->
            IF i = 0 THEN <<>>
            ELSE IF EndsRequest(Gathered(<<>>)[i - 1], <<>>[i]) THEN <<>>
            ELSE Gathered(<<>>)[i - 1] \o <<>>[i]]
    BY <2>1, GatheredDef
  <2> QED BY <2>1, <2>2
<1> QED BY <1>1 DEF Orderly

LEMMA AskedOrderly ==
  ASSUME OrderlyClients, TypeOK, NEW s \in Sessions
  PROVE  /\ asked[s] \in Seq(NonEmpty) /\ Orderly(asked[s])
         /\ Summaries[asked[s]] = Summary(asked[s])
<1>1. asked[s] \in Scripts \cup {<<>>}
  BY DEF TypeOK, Nothing
<1>2. \A script \in Scripts : script \in Seq(NonEmpty) /\ Orderly(script)
  BY TextAssumption, Zenon DEF OrderlyClients, NonEmpty
<1>3. <<>> \in Seq(NonEmpty)
  OBVIOUS
<1>4. Summaries = [script \in Scripts \cup {<<>>} |-> Summary(script)]
  BY Zenon DEF Summaries, Nothing
<1> QED BY <1>1, <1>2, <1>3, <1>4, OrderlyNothing

LEMMA InitOInv == OrderlyClients /\ Init => OInv
<1> SUFFICES ASSUME OrderlyClients, Init PROVE OInv
  OBVIOUS
<1>1. Counting /\ Isolated
  BY InitCounting, InitIsolated
<1>2. ParserFresh
  BY DEF Init, ParserFresh
<1>3. ASSUME NEW s \in Sessions PROVE InPlace(s) /\ Reading(s)
  <2>1. sent[s] = <<>> /\ http_body[s] = <<>> /\ life[s] # "open" /\ reads[s] = 0
    BY DEF Init
  <2>2. AnsweredBy(asked[s], sent[s])
    BY <2>1 DEF AnsweredBy
  <2> QED BY <2>1, <2>2 DEF InPlace, Reading
<1> QED BY <1>1, <1>2, <1>3 DEF OInv

\* A step that leaves a session's text, its answers and its client alone
LEMMA InPlaceKept ==
  ASSUME NEW t \in Sessions, InPlace(t),
         http_body'[t] = http_body[t], sent'[t] = sent[t], asked'[t] = asked[t],
         inq'[t] = inq[t], workers'[t] = workers[t],
         data_'[t] = data_[t] \/ io = t, io' = t <=> io = t,
         \/ life'[t] = life[t] \/ life'[t] = "deleted"
         \/ life[t] = "unborn" /\ life'[t] = "accepting"
  PROVE  InPlace(t)'
<1> DEFINE a == asked[t]
           q == inq[t]
           b == http_body[t]
           n == Len(sent[t])
<1>1. /\ AnsweredBy(a, sent[t])' <=> AnsweredBy(a, sent[t])
      /\ Answering(a, q, b, n)' <=> Answering(a, q, b, n)
      /\ Gathering(a, q, b, n)' <=> Gathering(a, q, b, n)
      /\ io # t => (Fits(q, data_[t])' <=> Fits(q, data_[t]))
  BY DEF AnsweredBy, Answering, Gathering, Placed, Taken, Fits
<1> HIDE DEF a, q, b, n
<1> QED BY <1>1, Zenon DEF InPlace, a, q, b, n

\* Of an orderly client handle_read gets what the client has sent, and no more.
LEMMA OrderlyRead ==
  ASSUME OrderlyClients, IInv, NEW s \in Sessions, InPlace(s), HandleRead(s),
         NEW c, c = Head(inq[s]), NEW body, body = http_body[s] \o c
  PROVE  /\ inq' = [inq EXCEPT ![s] = Tail(inq[s])]
         /\ \/ /\ EndsRequest(http_body[s], c) /\ IsOneRequest(body)
               /\ GoodRequest(s, body)
            \/ /\ ~EndsRequest(http_body[s], c)
               /\ KeepReading(s, body) /\ data_' = [data_ EXCEPT ![s] = <<>>]
<1>1. /\ TypeOK /\ up = "running" /\ io = NoSession /\ io # s /\ reads[s] > 0
      /\ inq[s] # <<>> /\ inq' = [inq EXCEPT ![s] = AfterChunk(s)]
  BY SessionsAssumption DEF IInv, Typed, HandleRead, InLoop
<1>2. life[s] = "open"
  BY <1>1, OneActivity DEF IInv
<1>3. Gathering(asked[s], inq[s], http_body[s], Len(sent[s])) /\ Fits(inq[s], data_[s])
  BY <1>1, <1>2 DEF InPlace
<1>4. asked[s] \in Seq(NonEmpty) /\ Orderly(asked[s])
  BY <1>1, AskedOrderly
<1>5. inq[s] \in Seq(NonEmpty)
  BY <1>1 DEF TypeOK, NonEmpty
<1>6. PICK n : n = Taken(asked[s], inq[s])
  OBVIOUS
<1>7. /\ n \in 0..Len(asked[s]) /\ n < Len(asked[s]) /\ c = asked[s][n + 1]
      /\ http_body[s] = Gathered(asked[s])[n]
  BY <1>1, <1>3, <1>4, <1>5, <1>6, PlaceRead
<1>8. request_start[s] \in BOOLEAN /\ (request_start[s] <=> http_body[s] # <<>>)
  BY <1>1 DEF IInv, NoLeftover, TypeOK
<1> DEFINE verdict == Classify(request_start[s], c, Len(c))
<1>9. /\ Len(c) < MaxLength
      /\ EndsRequest(http_body[s], c) => verdict \in {"whole", "end"} /\ IsOneRequest(body)
      /\ ~EndsRequest(http_body[s], c) => verdict \in {"line", "header"}
  BY <1>4, <1>7, <1>8, OrderlyVerdict
<1>10. c \in Text /\ Len(c) \in Nat /\ data_[s] \in Text /\ Len(data_[s]) \in Nat
       /\ c = inq[s][1]
  <2>1. c \in NonEmpty /\ c = inq[s][1]
    BY <1>1, <1>5
  <2>2. c \in Text /\ data_[s] \in Text
    BY <1>1, <2>1 DEF NonEmpty, TypeOK
  <2> QED BY <2>1, <2>2 DEF Text
<1>11. Chunk(s) = c /\ AfterChunk(s) = Tail(inq[s])
  BY <1>9, <1>10, MaxLengthAssumption DEF Chunk, AfterChunk
<1>12. Buffer(s) = c
  <2>1. Len(data_[s]) <= Len(c)
    BY <1>1, <1>3, <1>10 DEF Fits
  <2>2. ASSUME NEW x \in Text, NEW y \in Text, Len(y) <= Len(x)
        PROVE  x \o SubSeq(y, Len(x) + 1, Len(y)) = x
    <3>1. SubSeq(y, Len(x) + 1, Len(y)) = <<>>
      BY <2>2 DEF Text
    <3>2. x \o <<>> \in Seq(Lexemes) /\ Len(x \o <<>>) = Len(x)
          /\ \A i \in 1..Len(x) : (x \o <<>>)[i] = x[i]
      BY DEF Text
    <3>3. PICK z \in Seq(Lexemes) :
              z = x \o <<>> /\ Len(z) = Len(x) /\ \A i \in 1..Len(x) : z[i] = x[i]
      BY <3>2
    <3>4. z = x
      BY <3>3 DEF Text
    <3> QED BY <3>1, <3>3, <3>4
  <2> QED BY <1>10, <1>11, <2>1, <2>2 DEF Buffer
<1>13. Received(s) = {c}
  BY <1>9, <1>12 DEF Received
<1>14. PICK request \in Received(s) :
          \E v \in {Classify(request_start[s], request, Len(Chunk(s)))} :
          \E b \in {http_body[s] \o request} :
             \/ v \in {"whole", "end"} /\ GoodRequest(s, b)
             \/ v \in {"line", "header"} /\ KeepReading(s, b) /\ data_' = [data_ EXCEPT ![s] = <<>>]
             \/ v \in {"bad method", "bad header", "garbage"}
             \/ v = "blank"
  BY Zenon DEF HandleRead
<1>15. \/ verdict \in {"whole", "end"} /\ GoodRequest(s, body)
       \/ /\ verdict \in {"line", "header"} /\ KeepReading(s, body)
          /\ data_' = [data_ EXCEPT ![s] = <<>>]
       \/ verdict \in {"bad method", "bad header", "garbage"}
       \/ verdict = "blank"
  <2>1. request = c
    BY <1>13, <1>14
  <2> QED BY <1>11, <1>14, <2>1, Zenon
<1> HIDE DEF verdict
<1> QED BY <1>1, <1>9, <1>11, <1>15


LEMMA HandleReadOInv ==
  ASSUME OInv, NEW s \in Sessions, HandleRead(s)
  PROVE  ParserFresh' /\ \A t \in Sessions : InPlace(t)'
<1>1. /\ OrderlyClients /\ IInv /\ TypeOK
      /\ up = "running" /\ io = NoSession /\ \A t \in Sessions : io # t
      /\ reads[s] > 0 /\ inq[s] # <<>> /\ UNCHANGED <<life, asked>> /\ InPlace(s)
  BY SessionsAssumption DEF OInv, Isolated, IInv, Typed, HandleRead, InLoop
<1>2. life[s] = "open" /\ workers[s] = 0
  BY <1>1, OneActivity DEF IInv
<1> DEFINE a == asked[s]
           q == inq[s]
           c == Head(q)
           body == http_body[s] \o c
<1>3. /\ inq' = [inq EXCEPT ![s] = Tail(q)]
      /\ \/ /\ EndsRequest(http_body[s], c) /\ IsOneRequest(body)
            /\ GoodRequest(s, body)
         \/ /\ ~EndsRequest(http_body[s], c)
            /\ KeepReading(s, body) /\ data_' = [data_ EXCEPT ![s] = <<>>]
  BY <1>1, OrderlyRead
<1>4. a \in Seq(NonEmpty) /\ q \in Seq(NonEmpty) /\ q # <<>>
  <2>1. a \in Seq(NonEmpty)
    BY <1>1, AskedOrderly
  <2>2. q \in Seq(NonEmpty) /\ q # <<>>
    BY <1>1 DEF TypeOK, NonEmpty
  <2> QED BY <2>1, <2>2
<1>5. Gathering(a, q, http_body[s], Len(sent[s]))
  BY <1>1, <1>2 DEF InPlace
<1>6. /\ Placed(a, Tail(q), body, Len(sent[s]))
      /\ Gathered(a)[Taken(a, Tail(q))] =
            IF EndsRequest(http_body[s], c) THEN <<>> ELSE body
  BY <1>4, <1>5, PlaceRead
<1>7. AnsweredBy(a, sent[s])
  BY <1>1 DEF InPlace
<1>8. Tail(q) \in Seq(NonEmpty)
  BY <1>4
<1>9. /\ http_body' = [http_body EXCEPT ![s] = body]
      /\ UNCHANGED <<workers, sent>>
  BY <1>3 DEF GoodRequest, KeepReading, answers
<1>10. http_body'[s] = body /\ inq'[s] = Tail(q) /\ asked'[s] = a /\ sent'[s] = sent[s]
       /\ life'[s] = "open" /\ workers'[s] = 0
  BY <1>1, <1>2, <1>3, <1>9 DEF TypeOK
<1>11. c \in Text /\ body \in Text
  <2>1. c \in NonEmpty
    BY <1>4
  <2>2. http_body[s] \in Text
    BY <1>1 DEF TypeOK
  <2> QED BY <2>1, <2>2, ConcatType DEF NonEmpty
<1> HIDE DEF a, q, c, body
<1>12. ASSUME NEW t \in Sessions, t # s PROVE InPlace(t)'
  <2>1. InPlace(t)
    BY DEF OInv
  <2>2. /\ http_body'[t] = http_body[t] /\ sent'[t] = sent[t] /\ asked'[t] = asked[t]
        /\ inq'[t] = inq[t] /\ workers'[t] = workers[t] /\ life'[t] = life[t]
    BY <1>1, <1>3, <1>9, <1>12 DEF TypeOK
  <2>3. io' # t
    BY <1>1, <1>3, <1>12 DEF GoodRequest, KeepReading, threads
  <2>4. data_'[t] = data_[t]
    BY <1>1, <1>12 DEF HandleRead, TypeOK
  <2> QED BY <1>1, <2>1, <2>2, <2>3, <2>4, InPlaceKept
<1>13. CASE EndsRequest(http_body[s], c) /\ IsOneRequest(body) /\ GoodRequest(s, body)
  <2>1. Answering(a, Tail(q), body, Len(sent[s]))
    BY <1>6, <1>13 DEF Answering
  <2>2. io' = s
    BY <1>13 DEF GoodRequest
  <2>3. InPlace(s)'
    BY <1>7, <1>10, <2>1, <2>2, Zenon DEF InPlace
  <2>4. ParserFresh'
    <3>1. request_[s] = <<>> /\ req_parser = FreshParser
      BY <1>1 DEF OInv, ParserFresh, IInv, NoLeftover
    <3>2. req_parser' = Parse(FreshParser, <<>>, body).parser
      BY <1>13, <3>1 DEF GoodRequest
    <3>3. Parse(FreshParser, <<>>, body).result = "good" /\ <<>> \in Text
      BY <1>13 DEF IsOneRequest, Text
    <3>4. Parse(FreshParser, <<>>, body).parser = FreshParser
      BY <1>11, <3>3, DecidedParseLeavesFresh
    <3> QED BY <3>2, <3>4 DEF ParserFresh
  <2> QED BY <1>12, <2>3, <2>4
<1>14. CASE /\ ~EndsRequest(http_body[s], c)
            /\ KeepReading(s, body) /\ data_' = [data_ EXCEPT ![s] = <<>>]
  <2>1. Gathering(a, Tail(q), body, Len(sent[s]))
    BY <1>6, <1>14 DEF Gathering
  <2>2. io' = io /\ io' # s /\ req_parser' = req_parser
    BY <1>1, <1>14 DEF KeepReading, threads, shared
  <2>3. Fits(Tail(q), data_'[s])
    <3>1. data_'[s] = <<>>
      BY <1>1, <1>14 DEF TypeOK
    <3>2. Tail(q) # <<>> => Tail(q)[1] \in Text
      BY <1>8 DEF NonEmpty
    <3>3. Tail(q) # <<>> => Len(Tail(q)[1]) \in Nat
      BY <3>2 DEF Text
    <3> QED BY <3>1, <3>3 DEF Fits
  <2>4. InPlace(s)'
    BY <1>7, <1>10, <2>1, <2>2, <2>3, Zenon DEF InPlace
  <2> QED BY <1>12, <2>2, <2>4 DEF OInv, ParserFresh
<1> QED BY <1>3, <1>13, <1>14

LEMMA GoodRequestEndOInv ==
  ASSUME OInv, NEW s \in Sessions, GoodRequestEnd(s)
  PROVE  \A t \in Sessions : InPlace(t)'
<1>1. /\ OrderlyClients /\ IInv /\ TypeOK
      /\ up = "running" /\ io = s /\ future # NoReply /\ s # NoSession
      /\ InPlace(s) /\ request_[s] = OwnUri(http_body[s])
      /\ future.code \in {200, 404, 500, 504}
  BY SessionsAssumption DEF OInv, Isolated, Counting, IInv, Typed, GoodRequestEnd, OwnRequest
<1>2. life[s] = "open" /\ workers[s] = 0
  BY <1>1, OneActivity DEF IInv
<1> DEFINE answer == [code |-> future.code, uri |-> request_[s], own |-> OwnUri(http_body[s])]
           a == asked[s]
           q == inq[s]
           body == http_body[s]
           given == sent[s]
<1>3. /\ sent' = [sent EXCEPT ![s] = Append(@, answer)]
      /\ data_' = [data_ EXCEPT ![s] = <<>>]
      /\ http_body' = [http_body EXCEPT ![s] = <<>>]
      /\ io' = NoSession /\ UNCHANGED <<life, workers, inq, asked>>
  BY DEF GoodRequestEnd, SendResponse, client
<1>4. a \in Seq(NonEmpty) /\ q \in Seq(NonEmpty) /\ given \in Seq(Answer)
  <2>1. a \in Seq(NonEmpty)
    BY <1>1, AskedOrderly
  <2>2. q \in Seq(NonEmpty) /\ given \in Seq(Answer)
    BY <1>1 DEF TypeOK, NonEmpty
  <2> QED BY <2>1, <2>2
<1>5. Answering(a, q, body, Len(given)) /\ AnsweredBy(a, given)
  BY <1>1, <1>2 DEF InPlace
<1>6. answer.uri = OwnUri(body) /\ answer.code # 400
  BY <1>1
<1> HIDE DEF answer
<1>7. Gathering(a, q, <<>>, Len(given) + 1) /\ AnsweredBy(a, Append(given, answer))
  BY <1>4, <1>5, <1>6, PlaceAnswer
<1>8. /\ sent'[s] = Append(given, answer) /\ Len(Append(given, answer)) = Len(given) + 1
      /\ data_'[s] = <<>> /\ http_body'[s] = <<>> /\ inq'[s] = q /\ asked'[s] = a
      /\ life'[s] = "open" /\ workers'[s] = 0 /\ io' # s
  BY <1>1, <1>2, <1>3, <1>4 DEF TypeOK
<1>9. Fits(q, <<>>)
  <2>1. q # <<>> => q[1] \in Text
    BY <1>4 DEF NonEmpty
  <2>2. q # <<>> => Len(q[1]) \in Nat
    BY <2>1 DEF Text
  <2> QED BY <2>2 DEF Fits
<1>10. InPlace(s)'
  <2> HIDE DEF a, q, body, given
  <2> QED BY <1>7, <1>8, <1>9, Zenon DEF InPlace
<1>11. ASSUME NEW t \in Sessions, t # s PROVE InPlace(t)'
  <2>1. InPlace(t)
    BY DEF OInv
  <2>2. /\ http_body'[t] = http_body[t] /\ sent'[t] = sent[t] /\ asked'[t] = asked[t]
        /\ inq'[t] = inq[t] /\ workers'[t] = workers[t] /\ life'[t] = life[t]
        /\ data_'[t] = data_[t]
    BY <1>1, <1>3, <1>11 DEF TypeOK
  <2>3. io' # t /\ io # t
    BY <1>1, <1>3, <1>11, SessionsAssumption
  <2> QED BY <2>1, <2>2, <2>3, InPlaceKept
<1> QED BY <1>10, <1>11

LEMMA HandleAcceptOInv ==
  ASSUME OInv, NEW s \in Sessions, HandleAccept(s)
  PROVE  \A t \in Sessions : InPlace(t)'
<1>1. /\ OrderlyClients /\ IInv /\ TypeOK
      /\ up = "running" /\ io = NoSession /\ acceptor = s /\ s # NoSession
      /\ InPlace(s)
  BY SessionsAssumption DEF OInv, Isolated, IInv, Typed, HandleAccept, InLoop
<1>2. life[s] = "accepting" /\ workers[s] = 0
  <2>1. life[s] = "accepting"
    BY <1>1 DEF IInv, Accepting
  <2> QED BY <1>1, <2>1, OneActivity DEF IInv
<1>3. sent[s] = <<>> /\ http_body[s] = <<>>
  BY <1>1, <1>2 DEF InPlace
<1>4. /\ UNCHANGED <<io, workers, http_body, sent>>
      /\ StartAccept([life EXCEPT ![s] = "open"])
  BY DEF HandleAccept, threads, answers
<1>5. PICK script \in Scripts, residue \in Residues :
          /\ inq' = [inq EXCEPT ![s] = script]
          /\ asked' = [asked EXCEPT ![s] = script]
          /\ data_' = [data_ EXCEPT ![s] = residue]
  BY DEF HandleAccept
<1>6. script \in Seq(NonEmpty) /\ Fits(script, residue)
  BY <1>1, TextAssumption DEF OrderlyClients, Fits, NonEmpty
<1>7. Gathering(script, script, <<>>, 0)
  BY <1>6, PlaceStart
<1>8. AnsweredBy(script, <<>>)
  BY DEF AnsweredBy
<1>9. /\ life'[s] = "open"
      /\ \A t \in Sessions \ {s} :
            life'[t] = life[t] \/ (life[t] = "unborn" /\ life'[t] = "accepting")
  BY <1>1, <1>4 DEF StartAccept, TypeOK
<1>10. /\ inq'[s] = script /\ asked'[s] = script /\ data_'[s] = residue
       /\ \A t \in Sessions \ {s} : inq'[t] = inq[t] /\ asked'[t] = asked[t] /\ data_'[t] = data_[t]
  BY <1>1, <1>5 DEF TypeOK
<1>11. InPlace(s)'
  <2>1. Len(<<>>) = 0
    OBVIOUS
  <2>2. io' # s /\ workers'[s] = 0 /\ sent'[s] = <<>> /\ http_body'[s] = <<>>
    BY <1>1, <1>2, <1>3, <1>4
  <2> QED BY <1>6, <1>7, <1>8, <1>9, <1>10, <2>1, <2>2 DEF InPlace
<1>12. ASSUME NEW t \in Sessions, t # s PROVE InPlace(t)'
  <2>1. InPlace(t)
    BY DEF OInv
  <2> QED BY <1>4, <1>9, <1>10, <1>12, <2>1, InPlaceKept
<1> QED BY <1>11, <1>12

LEMMA NextOInv == OInv /\ [Next]_vars => OInv'
<1> SUFFICES ASSUME OInv, [Next]_vars PROVE OInv'
  OBVIOUS
<1> DEFINE Kept == ParserFresh' /\ \A t \in Sessions : InPlace(t)'
<1>0. OrderlyClients /\ Counting /\ Isolated /\ ParserFresh /\ IInv /\ TypeOK
      /\ \A t \in Sessions : InPlace(t) /\ Reading(t)
  BY DEF OInv, Isolated, IInv, Typed
<1>1. Counting' /\ Isolated'
  BY <1>0, NextCounting, NextIsolated
<1>2. ASSUME UNCHANGED <<req_parser, io, workers, http_body, inq, asked, sent>>,
             \A t \in Sessions : data_'[t] = data_[t] \/ io = t,
             \A t \in Sessions : \/ life'[t] = life[t] \/ life'[t] = "deleted"
                                 \/ life[t] = "unborn" /\ life'[t] = "accepting"
      PROVE  Kept
  <2>1. ParserFresh'
    BY <1>0, <1>2 DEF ParserFresh
  <2>2. ASSUME NEW t \in Sessions PROVE InPlace(t)'
    BY <1>0, <1>2, <2>2, InPlaceKept
  <2> QED BY <2>1, <2>2
<1>3. ASSUME NEW s \in Sessions, HandleAccept(s) PROVE Kept
  <2>1. req_parser' = req_parser
    BY <1>3 DEF HandleAccept, shared
  <2> QED BY <1>0, <1>3, <2>1, HandleAcceptOInv DEF ParserFresh
<1>4. ASSUME NEW s \in Sessions, HandleAcceptError(s) PROVE Kept
  <2>1. UNCHANGED <<req_parser, io, workers, http_body, inq, asked, sent, data_>>
    BY <1>4 DEF HandleAcceptError, shared, threads, pending, objects, client, answers
  <2>2. \A t \in Sessions : \/ life'[t] = life[t] \/ life'[t] = "deleted"
                            \/ life[t] = "unborn" /\ life'[t] = "accepting"
    BY <1>0, <1>4 DEF HandleAcceptError, StartAccept, TypeOK
  <2> QED BY <1>2, <2>1, <2>2
<1>5. ASSUME NEW s \in Sessions, HandleRead(s) PROVE Kept
  BY <1>5, HandleReadOInv
<1>6. ASSUME NEW s \in Sessions, GoodRequestEnd(s) PROVE Kept
  <2>1. req_parser' = req_parser
    BY <1>6 DEF GoodRequestEnd, shared
  <2> QED BY <1>0, <1>6, <2>1, GoodRequestEndOInv DEF ParserFresh
<1>7. ASSUME NEW s \in Sessions, BadRequestThread(s) PROVE Kept
  <2>1. up = "running" /\ workers[s] > 0
    BY <1>7 DEF BadRequestThread
  <2>2. life[s] = "open"
    BY <1>0, <2>1, OneActivity DEF IInv
  <2>3. workers[s] = 0
    BY <1>0, <2>2 DEF InPlace
  <2> QED BY <2>1, <2>3
<1>8. ASSUME NEW s \in Sessions, HandleReadError(s) \/ HandleWriteError(s) PROVE Kept
  <2>1. /\ UNCHANGED <<req_parser, io, workers, http_body, inq, asked, sent, data_>>
        /\ life' = [life EXCEPT ![s] = "deleted"]
    BY <1>8 DEF HandleReadError, HandleWriteError, Delete, shared, threads, objects, client, answers
  <2>2. \A t \in Sessions : life'[t] = life[t] \/ life'[t] = "deleted"
    BY <1>0, <2>1 DEF TypeOK
  <2> QED BY <1>2, <2>1, <2>2
<1>9. ASSUME NEW s \in Sessions, DispatchThrows(s) PROVE Kept
  <2>1. /\ UNCHANGED <<req_parser, io, workers, http_body, inq, asked, sent, life>>
        /\ io = s /\ data_' = [data_ EXCEPT ![s] = <<>>]
    BY <1>9 DEF DispatchThrows, shared, threads, client, answers
  <2>2. \A t \in Sessions : data_'[t] = data_[t] \/ io = t
    BY <1>0, <2>1 DEF TypeOK
  <2> QED BY <1>2, <2>1, <2>2
<1>10. ASSUME NEW s \in Sessions, HandleAcceptThrows(s) \/ HandleWrite(s) \/ Disconnect(s)
       PROVE  Kept
  <2>1. UNCHANGED <<req_parser, io, workers, http_body, inq, asked, sent, data_, life>>
    BY <1>10 DEF HandleAcceptThrows, HandleWrite, Disconnect, shared, threads, pending, objects,
                 client, answers
  <2> QED BY <1>2, <2>1
<1>11. ASSUME HandlerTask \/ HandlerThrows PROVE Kept
  <2>1. UNCHANGED <<req_parser, io, workers, http_body, inq, asked, sent, data_, life>>
    BY <1>11 DEF HandlerTask, HandlerThrows, shared, threads, pending, objects, client, answers
  <2> QED BY <1>2, <2>1
<1>12. ASSUME UNCHANGED vars PROVE Kept
  <2>1. UNCHANGED <<req_parser, io, workers, http_body, inq, asked, sent, data_, life>>
    BY <1>12 DEF vars, shared, threads, pending, objects, client, answers
  <2> QED BY <1>2, <2>1
<1>13. Kept
  BY <1>3, <1>4, <1>5, <1>6, <1>7, <1>8, <1>9, <1>10, <1>11, <1>12 DEF Next, IoThread
<1>14. ASSUME NEW t \in Sessions PROVE Reading(t)'
  <2>1. CASE up' = "running"
    <3>1. reads'[t] \in Nat /\ writes'[t] \in Nat /\ workers'[t] \in Nat
      BY <1>1 DEF Counting, IInv, Typed, TypeOK
    <3>2. reads'[t] + writes'[t] + workers'[t] + Serving(t)' = IF life'[t] = "open" THEN 1 ELSE 0
      BY <1>1, <2>1 DEF Counting, IInv, SessionOwnership, Activities
    <3>3. Serving(t)' = IF io' = t THEN 1 ELSE 0
      BY DEF Serving
    <3> QED BY <3>1, <3>2, <3>3 DEF Reading
  <2>2. CASE up' # "running"
    <3>1. UNCHANGED <<reads, life, io>>
      BY <2>2 DEF Next, IoThread, HandleAccept, HandleAcceptError, HandleAcceptThrows, HandleRead,
                  HandleReadError, GoodRequestEnd, HandleWrite, HandleWriteError, DispatchThrows,
                  BadRequestThread, Disconnect, HandlerTask, HandlerThrows, InLoop, vars, pending,
                  threads
    <3> QED BY <1>0, <3>1 DEF Reading
  <2> QED BY <2>1, <2>2
<1>15. OrderlyClients'
  BY <1>0 DEF OrderlyClients
<1> QED BY <1>1, <1>13, <1>14, <1>15 DEF OInv


LEMMA OInvAnswers ==
  ASSUME OInv
  PROVE  ParserFresh /\ AnswersInOrder /\ NoSpuriousAnswer /\ NothingForgotten
<1>1. OrderlyClients /\ TypeOK /\ ParserFresh /\ \A s \in Sessions : InPlace(s) /\ Reading(s)
  BY DEF OInv, Isolated, IInv, Typed
<1>2. ASSUME NEW s \in Sessions
      PROVE  /\ Len(sent[s]) <= Summaries[asked[s]].requests
             /\ \A k \in 1..Len(sent[s]) :
                   /\ sent[s][k].code # 400
                   /\ k \in DOMAIN Summaries[asked[s]].uris
                   /\ sent[s][k].uri = Summaries[asked[s]].uris[k]
             /\ reads[s] > 0 /\ inq[s] = <<>> => Len(sent[s]) = Summaries[asked[s]].requests
  <2>1. /\ asked[s] \in Seq(NonEmpty) /\ Orderly(asked[s])
        /\ Summaries[asked[s]] = Summary(asked[s])
    BY <1>1, AskedOrderly
  <2>2. sent[s] \in Seq(Answer) /\ AnsweredBy(asked[s], sent[s])
    BY <1>1 DEF TypeOK, InPlace
  <2>3. /\ Len(sent[s]) <= Summary(asked[s]).requests
        /\ \A k \in 1..Len(sent[s]) :
              /\ sent[s][k].code # 400
              /\ k \in DOMAIN Summary(asked[s]).uris
              /\ sent[s][k].uri = Summary(asked[s]).uris[k]
    BY <2>1, <2>2, AnsweredInOrder
  <2>4. ASSUME reads[s] > 0, inq[s] = <<>> PROVE Len(sent[s]) = Summary(asked[s]).requests
    <3>1. life[s] = "open" /\ io # s
      BY <1>1, <2>4 DEF Reading
    <3>2. Gathering(asked[s], <<>>, http_body[s], Len(sent[s]))
      BY <1>1, <2>4, <3>1, Zenon DEF InPlace
    <3> QED BY <2>1, <2>2, <3>2, NoFurtherRequest
  <2> DEFINE sum == Summaries[asked[s]]
  <2>5. sum = Summary(asked[s])
    BY <2>1
  <2> HIDE DEF sum
  <2>6. /\ Len(sent[s]) <= sum.requests
        /\ \A k \in 1..Len(sent[s]) :
              /\ sent[s][k].code # 400
              /\ k \in DOMAIN sum.uris
              /\ sent[s][k].uri = sum.uris[k]
        /\ reads[s] > 0 /\ inq[s] = <<>> => Len(sent[s]) = sum.requests
    BY <2>3, <2>4, <2>5
  <2> QED BY <2>6 DEF sum
<1>3. AnswersInOrder
  BY <1>2 DEF AnswersInOrder
<1>4. NoSpuriousAnswer
  BY <1>2 DEF NoSpuriousAnswer
<1>5. NothingForgotten
  BY <1>2 DEF NothingForgotten
<1> QED BY <1>1, <1>3, <1>4, <1>5

\* Whatever number of orderly clients there is and however their requests follow
\* each other, good_request and bad_request find the shared parser as its
\* constructor left it, and leave it so.
THEOREM ParserStaysFresh == OrderlyClients /\ Spec => []ParserFresh
<1>1. OInv => ParserFresh
  BY OInvAnswers
<1> QED BY <1>1, InitOInv, NextOInv, PTL DEF Spec

\* The k-th answer to an orderly client is about its k-th request: handle_read,
\* which knows only chunks, finds the requests where they end.
THEOREM AnswersAreInOrder == OrderlyClients /\ Spec => []AnswersInOrder
<1>1. OInv => AnswersInOrder
  BY OInvAnswers
<1> QED BY <1>1, InitOInv, NextOInv, PTL DEF Spec

\* Orderly clients never get into each other's requests, although one parser
\* serves them all: every answer is about the URI in its own client's text.
THEOREM OrderlyRequestsIsolated == OrderlyClients /\ Spec => []RequestIsolation
<1>1. OInv => RequestIsolation
  BY DEF OInv, Isolated
<1> QED BY <1>1, InitOInv, NextOInv, PTL DEF Spec

\* No orderly client is told that its request is bad, or answered more often than
\* it has asked.
THEOREM NoAnswerIsSpurious == OrderlyClients /\ Spec => []NoSpuriousAnswer
<1>1. OInv => NoSpuriousAnswer
  BY OInvAnswers
<1> QED BY <1>1, InitOInv, NextOInv, PTL DEF Spec

\* When a session has read all of its orderly client and reads on, every request
\* has its answer.
THEOREM NothingIsForgotten == OrderlyClients /\ Spec => []NothingForgotten
<1>1. OInv => NothingForgotten
  BY OInvAnswers
<1> QED BY <1>1, InitOInv, NextOInv, PTL DEF Spec
=============================================================================
