---------------------------- MODULE StartupProofs ----------------------------
(***************************************************************************)
(* Theorems about Startup, for every config file.                          *)
(*                                                                         *)
(* IInv adds to the types what the parser's loop knows about the tokens it *)
(* has read (ParseInv of ConfigParserProofs) and what main has made sure   *)
(* of about the port by the time it gets further.                          *)
(*                                                                         *)
(* LayoutInv is about the files that are written from a layout: FileTokens *)
(* says which tokens they have, and Progress where in them each pass is    *)
(* and what it has gathered by then.                                       *)
(***************************************************************************)
EXTENDS Startup, ConfigParserProofs

\* While Parse runs it is right about what it has read, then about the file.
ParserKnows ==
    /\ tokens \in Seq(Token)
    /\ IsParser(parser)
    /\ parser.result = "running" =>
          /\ phase \in {"port", "parse", "refused", "exception"}
          /\ ParseInv(parser, tokens, at)
    /\ parser.result # "running" =>
          /\ phase \notin {"port", "parse"}
          /\ parser.result = "true" <=> Valid(tokens)

Beyond == {"parse", "headers", "skip", "listen", "handlers", "listening"}

\* Past checkPortNum the port is the declared one, then it is the acceptor's.
PortKnown ==
    /\ phase \in Beyond =>
          isNumeric(FirstPort) /\ portNum = NumberOf[FirstPort[1]] /\ isValid(portNum)
    /\ phase \in {"handlers", "listening"} => listening = portNum

IInv == TypeOK /\ ParserKnows /\ PortKnown

-----------------------------------------------------------------------------

\* The detour of a port through a short gives the port back.
LEMMA ShortAndBack ==
    ASSUME NEW n \in Nat, isValid(n)
    PROVE  ToUShort(ToShort(n)) = n
<1>1. n % 65536 = n /\ n <= 65535
    BY DEF isValid
<1>2. CASE n >= 32768
    <2>1. ToShort(n) = n - 65536
        BY <1>1, <1>2 DEF ToShort
    <2>2. (n - 65536) % 65536 = n
        BY <1>1, <1>2
    <2> QED BY <2>1, <2>2 DEF ToUShort
<1>3. CASE n < 32768
    BY <1>1, <1>3 DEF ToShort, ToUShort
<1> QED BY <1>2, <1>3

\* A search leaves every root as it was.
LEMMA SearchKeepsRoots ==
    ASSUME NEW roots, NEW uri, NEW dir
    PROVE  RootAt(AfterSearch(roots, uri), dir) = RootAt(roots, dir)
BY DEF RootAt, AfterSearch

\* And so every later search finds what it would have found.
LEMMA SearchKeepsSearches ==
    ASSUME NEW roots, NEW uri, NEW other \in Seq(STRING)
    PROVE  replace_path(AfterSearch(roots, uri), other) = replace_path(roots, other)
<1> DEFINE after == AfterSearch(roots, uri)
<1>1. \A dir : RootAt(after, dir) = RootAt(roots, dir)
    BY SearchKeepsRoots
<1> HIDE DEF after
<1>2. {n \in 0..(Len(other) - 1) : RootAt(after, Directory(other, n)) # <<>>}
        = {n \in 0..(Len(other) - 1) : RootAt(roots, Directory(other, n)) # <<>>}
    BY <1>1
<1>3. Match(after, other) = Match(roots, other)
    BY <1>2 DEF Match
<1> QED BY <1>1, <1>3 DEF replace_path, after

-----------------------------------------------------------------------------
(* The text of a file that is written from a layout                        *)

\* What is in a location is a word.
LEMMA LocationWords ==
    ASSUME NEW l \in Location
    PROVE  l.prefix \in Words /\ l.type \in Words /\ l.arg \in Words /\ l.type \in HandlerTypes
<1>1. l.prefix \in DOMAIN SegmentsOf /\ l.type \in HandlerTypes /\ l.arg \in Words
    BY DEF Location
<1>2. l.prefix \in Words
    BY <1>1, FilesAssumption
<1>3. l.type \in Words
    BY <1>1, KeywordsAssumption
<1> QED BY <1>1, <1>2, <1>3

\* Words and punctuation are lexemes.
LEMMA AllLexemes ==
    /\ Words \subseteq Lexemes
    /\ SP \in Lexemes /\ NL \in Lexemes /\ DQ \in Lexemes /\ LB \in Lexemes /\ RB \in Lexemes
    /\ SC \in Lexemes /\ HASH \in Lexemes
BY DEF Lexemes, Punctuation, Blanks

\* The parts of a location are texts, of these lengths.
LEMMA WrittenType ==
    ASSUME NEW l \in Location
    PROVE  /\ Header(l) \in Text /\ Len(Header(l)) = 10
           /\ Body(l) \in Text
           /\ Len(Body(l)) = IF l.type = "StaticHandler" THEN 12
                             ELSE IF l.type = "ProxyHandler" THEN 8 ELSE 0
           /\ <<RB, NL>> \in Text /\ Len(<<RB, NL>>) = 2
           /\ Written(l) \in Text /\ Len(Written(l)) = 10 + Len(Body(l)) + 2
<1>1. /\ l.prefix \in Lexemes /\ l.type \in Lexemes /\ l.arg \in Lexemes
      /\ "location" \in Lexemes /\ "root" \in Lexemes /\ "proxy_pass" \in Lexemes
    BY LocationWords, AllLexemes, KeywordsAssumption
<1>2. Header(l) \in Text /\ Len(Header(l)) = 10
    BY <1>1, AllLexemes DEF Header, Text
<1>3. <<RB, NL>> \in Text /\ Len(<<RB, NL>>) = 2
    BY AllLexemes DEF Text
<1> DEFINE Typed == /\ Body(l) \in Text
                    /\ Len(Body(l)) = IF l.type = "StaticHandler" THEN 12
                                      ELSE IF l.type = "ProxyHandler" THEN 8 ELSE 0
<1>4. ASSUME l.type = "StaticHandler" PROVE Typed
    <2>1. Body(l) = <<SP, "root", SP, DQ, l.arg, DQ, SC, SP, HASH, SP, SC, NL>>
        BY <1>4, Zenon DEF Body
    <2>2. Body(l) \in Text /\ Len(Body(l)) = 12
        BY <1>1, <2>1, AllLexemes DEF Text
    <2> QED BY <1>4, <2>2
<1>5. ASSUME l.type = "ProxyHandler" PROVE Typed
    <2>1. Body(l) = <<SP, "proxy_pass", SP, DQ, l.arg, DQ, SC, NL>>
        BY <1>5, Zenon DEF Body
    <2>2. Body(l) \in Text /\ Len(Body(l)) = 8
        BY <1>1, <2>1, AllLexemes DEF Text
    <2> QED BY <1>5, <2>2
<1>6. ASSUME l.type \notin {"StaticHandler", "ProxyHandler"} PROVE Typed
    <2>1. Body(l) = <<>>
        BY <1>6 DEF Body
    <2>2. Body(l) \in Text /\ Len(Body(l)) = 0
        BY <2>1 DEF Text
    <2> QED BY <1>6, <2>2
<1>7. Typed
    BY <1>4, <1>5, <1>6
<1>8. ASSUME NEW h \in Text, NEW b \in Text, NEW e \in Text
      PROVE  h \o b \o e \in Text /\ Len(h \o b \o e) = Len(h) + Len(b) + Len(e)
    BY DEF Text
<1>9. Written(l) \in Text /\ Len(Written(l)) = Len(Header(l)) + Len(Body(l)) + Len(<<RB, NL>>)
    BY <1>2, <1>3, <1>7, <1>8, Zenon DEF Written
<1> QED BY <1>2, <1>3, <1>7, <1>9

\* s stands in the file from place pos + 1 on.
Contains(file, pos, s) ==
    /\ pos \in Nat /\ Len(s) \in Nat /\ pos + Len(s) <= Len(file)
    /\ \A k \in 1..Len(s) : file[pos + k] = s[k]

\* So do the parts of s.
LEMMA ContainsParts ==
    ASSUME NEW file, NEW pos, NEW s \in Text, NEW t \in Text, Contains(file, pos, s \o t),
           Len(file) \in Nat
    PROVE  Contains(file, pos, s) /\ Contains(file, pos + Len(s), t)
<1>1. /\ pos \in Nat /\ Len(s) \in Nat /\ Len(t) \in Nat /\ Len(s \o t) = Len(s) + Len(t)
      /\ pos + Len(s \o t) <= Len(file)
      /\ \A k \in 1..Len(s \o t) : file[pos + k] = (s \o t)[k]
      /\ \A k \in 1..Len(s) : (s \o t)[k] = s[k]
      /\ \A k \in 1..Len(t) : (s \o t)[Len(s) + k] = t[k]
    BY DEF Contains, Text
<1> DEFINE u == s \o t
<1> HIDE DEF u
<1>2. Contains(file, pos, s)
    BY <1>1 DEF Contains
<1>3. \A k \in 1..Len(t) : file[(pos + Len(s)) + k] = t[k]
    <2> TAKE k \in 1..Len(t)
    <2>1. Len(s) + k \in 1..Len(s \o t) /\ pos + (Len(s) + k) = (pos + Len(s)) + k
        BY <1>1
    <2>2. file[pos + (Len(s) + k)] = (s \o t)[Len(s) + k]
        BY <1>1, <2>1
    <2> QED BY <1>1, <2>1, <2>2
<1> QED BY <1>1, <1>2, <1>3 DEF Contains

\* And what stands in the beginning of a file stands in the file.
LEMMA ContainsMore ==
    ASSUME NEW s \in Text, NEW t \in Text, NEW pos, NEW u, Contains(s, pos, u)
    PROVE  Contains(s \o t, pos, u)
<1>1. /\ Len(s) \in Nat /\ Len(t) \in Nat /\ Len(s \o t) = Len(s) + Len(t)
      /\ \A k \in 1..Len(s) : (s \o t)[k] = s[k]
    BY DEF Text
<1>2. \A k \in 1..Len(u) : pos + k \in 1..Len(s)
    BY <1>1 DEF Contains
<1> QED BY <1>1, <1>2 DEF Contains

\* The beginnings of the file up to each location
FileBuilt(config, f) ==
    /\ f \in [0..Len(config.locations) -> Text]
    /\ f[0] = PortLine(config)
    /\ \A i \in 1..Len(config.locations) : f[i] = f[i - 1] \o Written(config.locations[i])
    /\ FileOf(config) = f[Len(config.locations)]

\* The parts of a layout
LEMMA LayoutFields ==
    ASSUME NEW config \in Layout
    PROVE  /\ config.port \in Words /\ config.port \in DOMAIN NumberOf
           /\ 1 <= NumberOf[config.port] /\ NumberOf[config.port] <= 65535
           /\ Len(config.locations) \in Nat
           /\ \A i \in 1..Len(config.locations) : config.locations[i] \in Location
<1>1. /\ config.port \in {w \in DOMAIN NumberOf : 1 <= NumberOf[w] /\ NumberOf[w] <= 65535}
      /\ config.locations \in Seq(Location)
    BY DEF Layout
<1>2. config.port \in Words
    BY <1>1, NumbersAssumption
<1> QED BY <1>1, <1>2

\* The line with the port is a text.
LEMMA PortLineType ==
    ASSUME NEW config \in Layout
    PROVE  PortLine(config) \in Text /\ Len(PortLine(config)) = 9
<1>1. config.port \in Lexemes /\ "port" \in Lexemes
    BY LayoutFields, AllLexemes, KeywordsAssumption
<1> QED BY <1>1, AllLexemes DEF PortLine, Text

\* The file as the function that its recursive definition describes.
LEMMA FileIsBuilt ==
    ASSUME NEW config \in Layout
    PROVE  \E f : FileBuilt(config, f)
<1> DEFINE n == Len(config.locations)
           W(i) == Written(config.locations[i])
           start == PortLine(config)
           step == [a \in Text \X (1..n) |-> a[1] \o W(a[2])]
           Fits(f) == f = [i \in 0..n |-> IF i = 0 THEN start ELSE f[i - 1] \o W(i)]
<1>1. n \in Nat /\ \A i \in 1..n : W(i) \in Text
    BY LayoutFields, WrittenType
<1>2. start \in Text
    BY PortLineType
<1>3. ASSUME NEW s \in Text, NEW t \in Text PROVE s \o t \in Text
    BY DEF Text
<1>4. FileOf(config) = (CHOOSE f : Fits(f))[n]
    BY Zenon DEF FileOf
<1> HIDE DEF n, W, start
<1>5. step \in [Text \X (1..n) -> Text]
    BY <1>1, <1>3
<1>6. PICK f : Iterates(f, n, Text, start, step)
    <2> HIDE DEF step
    <2> QED BY <1>1, <1>2, <1>5, RecursionExists
<1>7. f \in [0..n -> Text] /\ f[0] = start /\ \A i \in 1..n : f[i] = step[<<f[i - 1], i>>]
    BY <1>6 DEF Iterates
<1>8. \A i \in 1..n : f[i] = f[i - 1] \o W(i)
    <2> TAKE i \in 1..n
    <2>1. f[i - 1] \in Text
        BY <1>1, <1>7
    <2>2. <<f[i - 1], i>> \in Text \X (1..n)
        BY <2>1
    <2>3. step[<<f[i - 1], i>>] = f[i - 1] \o W(i)
        BY <2>2
    <2> QED BY <1>7, <2>3
<1>9. Fits(f)
    <2>1. \A i \in 0..n : f[i] = IF i = 0 THEN start ELSE f[i - 1] \o W(i)
        BY <1>1, <1>7, <1>8
    <2> QED BY <1>7, <2>1
<1>10. PICK g : Fits(g) /\ FileOf(config) = g[n]
    <2> HIDE DEF Fits
    <2> QED BY <1>4, <1>9, Zenon
<1>11. g[0] = start /\ \A i \in 1..n : g[i] = g[i - 1] \o W(i)
    <2>1. \A i \in 0..n : g[i] = IF i = 0 THEN start ELSE g[i - 1] \o W(i)
        BY <1>10, Zenon
    <2>2. 0 \in 0..n /\ \A i \in 1..n : i \in 0..n /\ i # 0
        BY <1>1
    <2> QED BY <2>1, <2>2
<1>12. \A i \in 0..n : g[i] \in Text
    <2> DEFINE T == {i \in Nat : g[i] \in Text}
    <2>1. 0 \in T /\ 0 \in Nat
        BY <1>2, <1>11
    <2>2. \A i \in 0..(n - 1) : i \in T => i + 1 \in T
        <3> SUFFICES ASSUME NEW i \in 0..(n - 1), g[i] \in Text PROVE i + 1 \in Nat /\ g[i + 1] \in Text
            OBVIOUS
        <3>1. i + 1 \in 1..n /\ (i + 1) - 1 = i
            BY <1>1
        <3>2. g[i + 1] = g[i] \o W(i + 1) /\ W(i + 1) \in Text
            BY <1>1, <1>11, <3>1
        <3> QED BY <1>3, <3>1, <3>2
    <2> HIDE DEF T
    <2>3. \A i \in 0..n : i \in T
        BY <1>1, <2>1, <2>2, UpFrom
    <2> QED BY <2>3 DEF T
<1>13. g \in [0..n -> Text]
    BY <1>10, <1>12
<1> QED BY <1>10, <1>11, <1>13 DEF FileBuilt, n, W, start

\* Every location stands in the file, behind those before it.
LEMMA FileHasParts ==
    ASSUME NEW config \in Layout, NEW f, FileBuilt(config, f)
    PROVE  /\ FileOf(config) \in Text
           /\ Contains(FileOf(config), 0, PortLine(config))
           /\ \A i \in 1..Len(config.locations) :
                 /\ Contains(FileOf(config), Len(f[i - 1]), Written(config.locations[i]))
                 /\ Len(f[i]) = Len(f[i - 1]) + Len(Written(config.locations[i]))
<1> DEFINE n == Len(config.locations)
           W(i) == Written(config.locations[i])
<1>1. n \in Nat /\ \A i \in 1..n : W(i) \in Text
    BY LayoutFields, WrittenType
<1>2. /\ f \in [0..n -> Text] /\ f[0] = PortLine(config) /\ FileOf(config) = f[n]
      /\ \A i \in 1..n : f[i] = f[i - 1] \o W(i)
    BY DEF FileBuilt
<1> HIDE DEF n, W
<1>3. ASSUME NEW m \in 0..n, NEW pos, NEW u, Contains(f[m], pos, u)
      PROVE  Contains(FileOf(config), pos, u)
    <2> DEFINE T == {i \in Nat : Contains(f[i], pos, u)}
    <2>1. m \in T /\ m \in Nat
        BY <1>1, <1>3
    <2>2. \A i \in m..(n - 1) : i \in T => i + 1 \in T
        <3> SUFFICES ASSUME NEW i \in m..(n - 1), Contains(f[i], pos, u)
                     PROVE  i + 1 \in Nat /\ Contains(f[i + 1], pos, u)
            OBVIOUS
        <3>1. i + 1 \in 1..n /\ (i + 1) - 1 = i /\ i \in 0..n
            BY <1>1, <2>1
        <3>2. f[i + 1] = f[i] \o W(i + 1) /\ W(i + 1) \in Text /\ f[i] \in Text
            BY <1>1, <1>2, <3>1
        <3>3. Contains(f[i] \o W(i + 1), pos, u)
            BY <3>2, ContainsMore
        <3> QED BY <3>1, <3>2, <3>3
    <2>3. n \in m..n
        BY <1>1
    <2> HIDE DEF T
    <2>4. n \in T
        BY <1>1, <2>1, <2>2, <2>3, UpFrom
    <2> QED BY <1>2, <2>4 DEF T
<1>4. FileOf(config) \in Text
    BY <1>1, <1>2
<1>5. Contains(FileOf(config), 0, PortLine(config))
    <2>1. Contains(f[0], 0, PortLine(config))
        <3>1. ASSUME NEW p, Len(p) = 9 PROVE Contains(p, 0, p)
            <4>1. \A k \in 1..Len(p) : 0 + k = k
                BY <3>1
            <4> QED BY <3>1, <4>1 DEF Contains
        <3> QED BY <1>2, <3>1, PortLineType
    <2>2. 0 \in 0..n
        BY <1>1
    <2> QED BY <1>3, <2>1, <2>2
<1>6. ASSUME NEW i \in 1..n
      PROVE  /\ Contains(FileOf(config), Len(f[i - 1]), W(i))
             /\ Len(f[i]) = Len(f[i - 1]) + Len(W(i))
    <2>1. i \in 0..n /\ f[i - 1] \in Text /\ W(i) \in Text /\ f[i] = f[i - 1] \o W(i)
        BY <1>1, <1>2
    <2>2. ASSUME NEW s \in Text, NEW t \in Text
          PROVE  Contains(s \o t, Len(s), t) /\ Len(s \o t) = Len(s) + Len(t)
        BY DEF Contains, Text
    <2> QED BY <1>3, <2>1, <2>2
<1> QED BY <1>4, <1>5, <1>6 DEF n, W

-----------------------------------------------------------------------------
(* The tokens of a file that is written from a layout                      *)

IsToken(toks, i, type, value) ==
    i \in 1..Len(toks) /\ toks[i] = [type |-> type, value |-> value]

\* Which lexemes are blanks, and which end a word
LEMMA Kinds ==
    /\ SP \in Blanks /\ NL \in Blanks /\ SP \in WordEnd /\ SC \in WordEnd
    /\ LB \notin Blanks /\ RB \notin Blanks /\ SC \notin Blanks /\ HASH \notin Blanks
    /\ DQ \notin Blanks
    /\ \A w \in Words : w \notin Blanks
<1>1. \A w \in Words : w \notin Blanks
    BY WordsApart
<1> QED BY <1>1 DEF Blanks, WordEnd, SP, NL, CR, LB, RB, SC, HASH, DQ

\* No blank, one or two before a token
LEMMA NoBlank ==
    ASSUME NEW file \in Text, NEW from \in Nat \ {0}, from <= Len(file), file[from] \notin Blanks
    PROVE  BlankTo(file, from, from)
<1>1. Len(file) \in Nat /\ from..(from - 1) = {}
    BY DEF Text
<1> QED BY <1>1 DEF BlankTo

\* One blank, then something else
LEMMA OneBlank ==
    ASSUME NEW file \in Text, NEW from \in Nat \ {0}, NEW a, a = from + 1, a <= Len(file),
           file[from] \in Blanks, file[a] \notin Blanks
    PROVE  BlankTo(file, from, a)
<1>1. Len(file) \in Nat /\ \A j \in from..(a - 1) : j = from
    BY DEF Text
<1> QED BY <1>1 DEF BlankTo

\* Two blanks, then something else
LEMMA TwoBlanks ==
    ASSUME NEW file \in Text, NEW from \in Nat \ {0}, NEW b, b = from + 1, NEW a, a = from + 2,
           a <= Len(file), file[from] \in Blanks, file[b] \in Blanks, file[a] \notin Blanks
    PROVE  BlankTo(file, from, a)
<1>1. Len(file) \in Nat /\ \A j \in from..(a - 1) : j = from \/ j = b
    BY DEF Text
<1> QED BY <1>1 DEF BlankTo

\* A token read at its place
LEMMA TokenRead ==
    ASSUME NEW file \in Text, NEW j, NEW from, NEW a, NEW type, NEW value, NEW next \in Nat,
           Starts(file, j, from), BlankTo(file, from, a), a < next,
           Reads(file, from, type, value, next)
    PROVE  Starts(file, j + 1, next) /\ IsToken(Tokens(file), j, type, value)
<1>1. from \in Nat /\ a \in Nat /\ from <= a /\ a <= Len(file) /\ Len(file) \in Nat
    BY DEF BlankTo, Text
<1>2. from <= Len(file) /\ from < next
    BY <1>1
<1> QED BY <1>2, NextStarts DEF IsToken

HeaderAt(toks, j, l) ==
    /\ IsToken(toks, j, "NORMAL", <<"location">>)
    /\ IsToken(toks, j + 1, "NORMAL", Quoted(l.prefix))
    /\ IsToken(toks, j + 2, "NORMAL", <<l.type>>)
    /\ IsToken(toks, j + 3, "START_BLOCK", <<LB>>)

\* The header of a location, up to its brace
LEMMA HeaderTokens ==
    ASSUME NEW file \in Text, NEW l \in Location, NEW pos \in Nat, NEW j \in Nat, NEW from,
           Contains(file, pos, Header(l)), Starts(file, j, from), BlankTo(file, from, pos + 1)
    PROVE  Starts(file, j + 4, pos + 10) /\ HeaderAt(Tokens(file), j, l)
<1>0. Len(file) \in Nat
    BY DEF Text
<1>1. Len(file) \in Nat /\ pos + 10 <= Len(file)
    BY <1>0, WrittenType DEF Contains
<1>2. /\ file[pos + 1] = "location" /\ file[pos + 2] = SP /\ file[pos + 3] = DQ
      /\ file[pos + 4] = l.prefix /\ file[pos + 5] = DQ /\ file[pos + 6] = SP
      /\ file[pos + 7] = l.type /\ file[pos + 8] = SP /\ file[pos + 9] = LB
    <2>1. \A k \in 1..10 : file[pos + k] = Header(l)[k]
        BY WrittenType DEF Contains
    <2> QED BY <2>1 DEF Header
<1>3. "location" \in Words /\ l.prefix \in Words /\ l.type \in Words
    BY LocationWords, KeywordsAssumption
<1>4. Starts(file, j + 1, pos + 2) /\ IsToken(Tokens(file), j, "NORMAL", <<"location">>)
    <2>1. (pos + 1) + 1 <= Len(file) /\ (pos + 1) + 1 = pos + 2 /\ pos + 2 \in Nat /\ pos + 1 < pos + 2
        BY <1>1
    <2>2. Reads(file, from, "NORMAL", <<file[pos + 1]>>, (pos + 1) + 1)
        BY <1>2, <1>3, <2>1, Kinds, ReadsWord
    <2> QED BY <1>2, <2>1, <2>2, TokenRead
<1>5. Starts(file, j + 2, pos + 6) /\ IsToken(Tokens(file), j + 1, "NORMAL", Quoted(l.prefix))
    <2>1. /\ (pos + 3) + 2 <= Len(file) /\ (pos + 3) + 1 = pos + 4 /\ (pos + 3) + 2 = pos + 5
          /\ (pos + 3) + 3 = pos + 6 /\ pos + 6 \in Nat /\ pos + 3 < pos + 6
          /\ pos + 2 \in Nat \ {0} /\ (pos + 2) + 1 = pos + 3 /\ (j + 1) + 1 = j + 2
          /\ pos + 3 <= Len(file)
        BY <1>1
    <2>2. BlankTo(file, pos + 2, pos + 3)
        <3>1. file[pos + 2] \in Blanks /\ file[pos + 3] \notin Blanks
            BY <1>2, Kinds
        <3> QED BY <2>1, <3>1, OneBlank
    <2>3. Reads(file, pos + 2, "NORMAL", <<DQ, file[(pos + 3) + 1], DQ>>, (pos + 3) + 3)
        BY <1>2, <1>3, <2>1, <2>2, ReadsQuoted
    <2> QED BY <1>2, <1>4, <2>1, <2>2, <2>3, TokenRead DEF Quoted
<1>6. Starts(file, j + 3, pos + 8) /\ IsToken(Tokens(file), j + 2, "NORMAL", <<l.type>>)
    <2>1. /\ (pos + 7) + 1 <= Len(file) /\ (pos + 7) + 1 = pos + 8 /\ pos + 8 \in Nat
          /\ pos + 7 < pos + 8 /\ pos + 6 \in Nat \ {0} /\ (pos + 6) + 1 = pos + 7
          /\ pos + 7 <= Len(file)
          /\ (j + 2) + 1 = j + 3
        BY <1>1
    <2>2. BlankTo(file, pos + 6, pos + 7)
        <3>1. file[pos + 6] \in Blanks /\ file[pos + 7] \notin Blanks
            BY <1>2, <1>3, Kinds
        <3> QED BY <2>1, <3>1, OneBlank
    <2>3. Reads(file, pos + 6, "NORMAL", <<file[pos + 7]>>, (pos + 7) + 1)
        BY <1>2, <1>3, <2>1, <2>2, Kinds, ReadsWord
    <2> QED BY <1>2, <1>5, <2>1, <2>2, <2>3, TokenRead
<1>7. Starts(file, j + 4, pos + 10) /\ IsToken(Tokens(file), j + 3, "START_BLOCK", <<LB>>)
    <2>1. /\ (pos + 9) + 1 = pos + 10 /\ pos + 10 \in Nat /\ pos + 9 < pos + 10
          /\ pos + 8 \in Nat \ {0} /\ (pos + 8) + 1 = pos + 9 /\ (j + 3) + 1 = j + 4
        BY <1>1
    <2>2. BlankTo(file, pos + 8, pos + 9)
        BY <1>1, <1>2, <2>1, Kinds, OneBlank
    <2>3. Reads(file, pos + 8, "START_BLOCK", <<LB>>, (pos + 9) + 1)
        BY <1>2, <2>2, ReadsMark
    <2> QED BY <1>6, <2>1, <2>2, <2>3, TokenRead
<1> QED BY <1>4, <1>5, <1>6, <1>7 DEF HeaderAt

StatementAt(toks, j, keyword, arg) ==
    /\ IsToken(toks, j, "NORMAL", <<keyword>>)
    /\ IsToken(toks, j + 1, "NORMAL", Quoted(arg))
    /\ IsToken(toks, j + 2, "STATEMENT_END", <<SC>>)

\* A root or an address, with its semicolon
LEMMA StatementTokens ==
    ASSUME NEW file \in Text, NEW q \in Nat \ {0}, NEW j \in Nat, Starts(file, j, q),
           NEW keyword \in Words, NEW arg \in Words, q + 7 <= Len(file),
           file[q] = NL, file[q + 1] = SP, file[q + 2] = keyword, file[q + 3] = SP,
           file[q + 4] = DQ, file[q + 5] = arg, file[q + 6] = DQ, file[q + 7] = SC
    PROVE  Starts(file, j + 3, q + 8) /\ StatementAt(Tokens(file), j, keyword, arg)
<1>1. Len(file) \in Nat
    BY DEF Text
<1>2. Starts(file, j + 1, q + 3) /\ IsToken(Tokens(file), j, "NORMAL", <<keyword>>)
    <2>1. /\ (q + 2) + 1 <= Len(file) /\ (q + 2) + 1 = q + 3 /\ q + 3 \in Nat /\ q + 2 < q + 3
          /\ q + 2 <= Len(file)
        BY <1>1
    <2>2. BlankTo(file, q, q + 2)
        <3>1. file[q] \in Blanks /\ file[q + 1] \in Blanks /\ file[q + 2] \notin Blanks
            BY Kinds
        <3> QED BY <2>1, <3>1, TwoBlanks
    <2>3. Reads(file, q, "NORMAL", <<file[q + 2]>>, (q + 2) + 1)
        BY <2>1, <2>2, Kinds, ReadsWord
    <2> QED BY <2>1, <2>2, <2>3, TokenRead
<1>3. Starts(file, j + 2, q + 7) /\ IsToken(Tokens(file), j + 1, "NORMAL", Quoted(arg))
    <2>1. /\ (q + 4) + 2 <= Len(file) /\ (q + 4) + 1 = q + 5 /\ (q + 4) + 2 = q + 6
          /\ (q + 4) + 3 = q + 7 /\ q + 7 \in Nat /\ q + 4 < q + 7
          /\ q + 3 \in Nat \ {0} /\ (q + 3) + 1 = q + 4 /\ (j + 1) + 1 = j + 2
          /\ q + 4 <= Len(file)
        BY <1>1
    <2>2. BlankTo(file, q + 3, q + 4)
        <3>1. file[q + 3] \in Blanks /\ file[q + 4] \notin Blanks
            BY Kinds
        <3> QED BY <2>1, <3>1, OneBlank
    <2>3. Reads(file, q + 3, "NORMAL", <<DQ, file[(q + 4) + 1], DQ>>, (q + 4) + 3)
        BY <2>1, <2>2, ReadsQuoted
    <2> QED BY <1>2, <2>1, <2>2, <2>3, TokenRead DEF Quoted
<1>4. Starts(file, j + 3, q + 8) /\ IsToken(Tokens(file), j + 2, "STATEMENT_END", <<SC>>)
    <2>1. /\ q + 7 \in Nat \ {0} /\ (q + 7) + 1 = q + 8 /\ q + 8 \in Nat /\ q + 7 < q + 8
          /\ (j + 2) + 1 = j + 3
        BY <1>1
    <2>2. BlankTo(file, q + 7, q + 7)
        BY <2>1, Kinds, NoBlank
    <2>3. Reads(file, q + 7, "STATEMENT_END", <<SC>>, (q + 7) + 1)
        BY <2>2, ReadsMark
    <2> QED BY <1>3, <2>1, <2>2, <2>3, TokenRead
<1> QED BY <1>2, <1>3, <1>4 DEF StatementAt

\* A brace that closes a block, with a blank before it or without
LEMMA CloseToken ==
    ASSUME NEW file \in Text, NEW from, NEW a, NEW j \in Nat, Starts(file, j, from),
           BlankTo(file, from, a), file[a] = RB
    PROVE  Starts(file, j + 1, a + 1) /\ IsToken(Tokens(file), j, "END_BLOCK", <<RB>>)
<1>1. a + 1 \in Nat /\ a < a + 1
    BY DEF BlankTo
<1>2. Reads(file, from, "END_BLOCK", <<RB>>, a + 1)
    BY ReadsMark
<1> QED BY <1>1, <1>2, TokenRead

Width(l) == IF l.type = "StaticHandler" THEN 9 ELSE IF l.type = "ProxyHandler" THEN 8 ELSE 5

\* The tokens behind the opening brace, with the closing one
BlockAt(toks, j, l) ==
    /\ l.type = "StaticHandler" =>
          /\ StatementAt(toks, j, "root", l.arg)
          /\ IsToken(toks, j + 3, "COMMENT", <<HASH, SP, SC>>)
          /\ IsToken(toks, j + 4, "END_BLOCK", <<RB>>)
    /\ l.type = "ProxyHandler" =>
          /\ StatementAt(toks, j, "proxy_pass", l.arg)
          /\ IsToken(toks, j + 3, "END_BLOCK", <<RB>>)
    /\ l.type \notin {"StaticHandler", "ProxyHandler"} => IsToken(toks, j, "END_BLOCK", <<RB>>)

\* A block, from the line end behind its opening brace
LEMMA BlockTokens ==
    ASSUME NEW file \in Text, NEW l \in Location, NEW q \in Nat \ {0}, NEW j \in Nat,
           Starts(file, j, q), file[q] = NL,
           Contains(file, q, Body(l)), Contains(file, q + Len(Body(l)), <<RB, NL>>)
    PROVE  /\ BlockAt(Tokens(file), j, l)
           /\ Starts(file, j + (Width(l) - 4), q + Len(Body(l)) + 2)
           /\ file[q + Len(Body(l)) + 2] = NL /\ q + Len(Body(l)) + 2 <= Len(file)
<1>1. Len(file) \in Nat
    BY DEF Text
<1>2. l.arg \in Words /\ "root" \in Words /\ "proxy_pass" \in Words
    BY LocationWords, KeywordsAssumption
<1>3. ASSUME NEW e \in Nat, Contains(file, e, <<RB, NL>>)
      PROVE  file[e + 1] = RB /\ file[e + 2] = NL /\ e + 2 <= Len(file)
    <2>1. Len(<<RB, NL>>) = 2 /\ <<RB, NL>>[1] = RB /\ <<RB, NL>>[2] = NL
        OBVIOUS
    <2> QED BY <1>1, <1>3, <2>1 DEF Contains
<1>4. CASE l.type = "StaticHandler"
    <2>1. Len(Body(l)) = 12
        BY <1>4, WrittenType
    <2>2. Body(l) = <<SP, "root", SP, DQ, l.arg, DQ, SC, SP, HASH, SP, SC, NL>>
        BY <1>4, Zenon DEF Body
    <2>3. /\ file[q + 1] = SP /\ file[q + 2] = "root" /\ file[q + 3] = SP /\ file[q + 4] = DQ
          /\ file[q + 5] = l.arg /\ file[q + 6] = DQ /\ file[q + 7] = SC /\ file[q + 8] = SP
          /\ file[q + 9] = HASH /\ file[q + 10] = SP /\ file[q + 11] = SC /\ file[q + 12] = NL
        <3>1. \A k \in 1..12 : file[q + k] = Body(l)[k]
            BY <2>1 DEF Contains
        <3> QED BY <2>2, <3>1
    <2>4. /\ (q + 12) + 1 = q + 13 /\ (q + 12) + 2 = q + 14 /\ q + 12 \in Nat
          /\ q + Len(Body(l)) = q + 12 /\ q + Len(Body(l)) + 2 = q + 14
        BY <2>1
    <2>5. file[q + 13] = RB /\ file[q + 14] = NL /\ q + 14 <= Len(file)
        BY <1>3, <2>4
    <2>6. Starts(file, j + 3, q + 8) /\ StatementAt(Tokens(file), j, "root", l.arg)
        <3>1. q + 7 <= Len(file)
            BY <1>1, <2>5
        <3> QED BY <1>2, <2>3, <3>1, StatementTokens
    <2>7. Starts(file, j + 4, q + 13) /\ IsToken(Tokens(file), j + 3, "COMMENT", <<HASH, SP, SC>>)
        <3>1. /\ q + 8 \in Nat \ {0} /\ q + 9 = (q + 8) + 1 /\ q + 9 <= Len(file)
              /\ (q + 9) + 3 <= Len(file) /\ (q + 9) + 1 = q + 10 /\ (q + 9) + 2 = q + 11
              /\ (q + 9) + 3 = q + 12 /\ (q + 9) + 4 = q + 13 /\ q + 13 \in Nat /\ q + 9 < q + 13
              /\ (j + 3) + 1 = j + 4
            BY <1>1, <2>5
        <3>2. BlankTo(file, q + 8, q + 9)
            <4>1. file[q + 8] \in Blanks /\ file[q + 9] \notin Blanks
                BY <2>3, Kinds
            <4> QED BY <3>1, <4>1, OneBlank
        <3>3. Reads(file, q + 8, "COMMENT", <<HASH, SP, SC>>, (q + 9) + 4)
            BY <2>3, <3>1, <3>2, ReadsComment
        <3> QED BY <2>6, <3>1, <3>2, <3>3, TokenRead
    <2>8. Starts(file, j + 5, q + 14) /\ IsToken(Tokens(file), j + 4, "END_BLOCK", <<RB>>)
        <3>1. /\ q + 13 \in Nat \ {0} /\ q + 13 <= Len(file) /\ (q + 13) + 1 = q + 14
              /\ (j + 4) + 1 = j + 5 /\ j + 4 \in Nat
            BY <1>1, <2>5
        <3>2. BlankTo(file, q + 13, q + 13)
            BY <2>5, <3>1, Kinds, NoBlank
        <3>3. /\ Starts(file, (j + 4) + 1, (q + 13) + 1)
              /\ IsToken(Tokens(file), j + 4, "END_BLOCK", <<RB>>)
            BY <2>5, <2>7, <3>1, <3>2, CloseToken
        <3> QED BY <3>1, <3>3
    <2>9. j + (Width(l) - 4) = j + 5
        BY <1>4 DEF Width
    <2> QED BY <1>4, <2>4, <2>5, <2>6, <2>7, <2>8, <2>9 DEF BlockAt
<1>5. CASE l.type = "ProxyHandler"
    <2>1. Len(Body(l)) = 8
        BY <1>5, WrittenType
    <2>2. Body(l) = <<SP, "proxy_pass", SP, DQ, l.arg, DQ, SC, NL>>
        BY <1>5, Zenon DEF Body
    <2>3. /\ file[q + 1] = SP /\ file[q + 2] = "proxy_pass" /\ file[q + 3] = SP
          /\ file[q + 4] = DQ /\ file[q + 5] = l.arg /\ file[q + 6] = DQ /\ file[q + 7] = SC
          /\ file[q + 8] = NL
        <3>1. \A k \in 1..8 : file[q + k] = Body(l)[k]
            BY <2>1 DEF Contains
        <3> QED BY <2>2, <3>1
    <2>4. /\ (q + 8) + 1 = q + 9 /\ (q + 8) + 2 = q + 10 /\ q + 8 \in Nat
          /\ q + Len(Body(l)) = q + 8 /\ q + Len(Body(l)) + 2 = q + 10
        BY <2>1
    <2>5. file[q + 9] = RB /\ file[q + 10] = NL /\ q + 10 <= Len(file)
        BY <1>3, <2>4
    <2>6. Starts(file, j + 3, q + 8) /\ StatementAt(Tokens(file), j, "proxy_pass", l.arg)
        <3>1. q + 7 <= Len(file)
            BY <1>1, <2>5
        <3> QED BY <1>2, <2>3, <3>1, StatementTokens
    <2>7. Starts(file, j + 4, q + 10) /\ IsToken(Tokens(file), j + 3, "END_BLOCK", <<RB>>)
        <3>1. /\ q + 8 \in Nat \ {0} /\ q + 9 = (q + 8) + 1 /\ q + 9 <= Len(file)
              /\ (q + 9) + 1 = q + 10 /\ (j + 3) + 1 = j + 4 /\ j + 3 \in Nat
            BY <1>1, <2>5
        <3>2. BlankTo(file, q + 8, q + 9)
            <4>1. file[q + 8] \in Blanks /\ file[q + 9] \notin Blanks
                BY <2>3, <2>5, Kinds
            <4> QED BY <3>1, <4>1, OneBlank
        <3> QED BY <2>5, <2>6, <3>1, <3>2, CloseToken
    <2>8. j + (Width(l) - 4) = j + 4
        BY <1>5 DEF Width
    <2> QED BY <1>5, <2>4, <2>5, <2>6, <2>7, <2>8 DEF BlockAt
<1>6. CASE l.type \notin {"StaticHandler", "ProxyHandler"}
    <2>1. Len(Body(l)) = 0
        BY <1>6, WrittenType
    <2>2. q + Len(Body(l)) = q /\ q + Len(Body(l)) + 2 = q + 2
        BY <2>1
    <2>3. file[q + 1] = RB /\ file[q + 2] = NL /\ q + 2 <= Len(file)
        BY <1>3, <2>2
    <2>4. Starts(file, j + 1, q + 2) /\ IsToken(Tokens(file), j, "END_BLOCK", <<RB>>)
        <3>1. q + 1 <= Len(file) /\ (q + 1) + 1 = q + 2
            BY <1>1, <2>3
        <3>2. BlankTo(file, q, q + 1)
            <4>1. file[q] \in Blanks /\ file[q + 1] \notin Blanks
                BY <2>3, Kinds
            <4> QED BY <3>1, <4>1, OneBlank
        <3> QED BY <2>3, <3>1, <3>2, CloseToken
    <2>5. j + (Width(l) - 4) = j + 1
        BY <1>6 DEF Width
    <2> QED BY <1>6, <2>2, <2>3, <2>4, <2>5 DEF BlockAt
<1> QED BY <1>4, <1>5, <1>6

\* A location, from the place where its first token is looked for
LEMMA LocationTokens ==
    ASSUME NEW file \in Text, NEW l \in Location, NEW pos \in Nat, NEW j \in Nat, NEW from,
           Contains(file, pos, Written(l)), Starts(file, j, from), BlankTo(file, from, pos + 1),
           NEW end, end = pos + Len(Written(l))
    PROVE  /\ HeaderAt(Tokens(file), j, l) /\ BlockAt(Tokens(file), j + 4, l)
           /\ Starts(file, j + Width(l), end) /\ file[end] = NL
           /\ end <= Len(file) /\ end \in Nat \ {0}
<1>1. Len(file) \in Nat
    BY DEF Text
<1>2. /\ Header(l) \in Text /\ Body(l) \in Text /\ <<RB, NL>> \in Text
      /\ Len(Header(l)) = 10 /\ Len(Body(l)) \in Nat /\ Len(<<RB, NL>>) = 2
      /\ Len(Written(l)) = 10 + Len(Body(l)) + 2
    <2>1. ASSUME NEW s \in Text PROVE Len(s) \in Nat
        BY DEF Text
    <2> QED BY <2>1, WrittenType
<1>3. ASSUME NEW h \in Text, NEW b \in Text, NEW e \in Text, Contains(file, pos, h \o b \o e)
      PROVE  /\ Contains(file, pos, h) /\ Contains(file, pos + Len(h), b)
             /\ Contains(file, pos + Len(h) + Len(b), e)
    <2>1. h \o b \in Text /\ Len(h \o b) = Len(h) + Len(b) /\ Len(h) \in Nat /\ Len(b) \in Nat
        BY DEF Text
    <2>2. Contains(file, pos, h \o b) /\ Contains(file, pos + Len(h \o b), e)
        BY <1>1, <1>3, <2>1, ContainsParts
    <2>3. Contains(file, pos, h) /\ Contains(file, pos + Len(h), b)
        BY <1>1, <2>2, ContainsParts
    <2>4. pos + Len(h \o b) = pos + Len(h) + Len(b)
        BY <2>1
    <2> QED BY <2>2, <2>3, <2>4
<1>4. /\ Contains(file, pos, Header(l)) /\ Contains(file, pos + Len(Header(l)), Body(l))
      /\ Contains(file, pos + Len(Header(l)) + Len(Body(l)), <<RB, NL>>)
    <2>1. Contains(file, pos, Header(l) \o Body(l) \o <<RB, NL>>)
        BY Zenon DEF Written
    <2> QED BY <1>2, <1>3, <2>1
<1>5. Starts(file, j + 4, pos + 10) /\ HeaderAt(Tokens(file), j, l)
    BY <1>4, HeaderTokens
<1>6. file[pos + 10] = NL
    <2>1. \A k \in 1..10 : file[pos + k] = Header(l)[k]
        BY <1>2, <1>4 DEF Contains
    <2> QED BY <2>1 DEF Header
<1>7. /\ pos + 10 \in Nat \ {0} /\ j + 4 \in Nat /\ pos + Len(Header(l)) = pos + 10
      /\ pos + Len(Header(l)) + Len(Body(l)) = (pos + 10) + Len(Body(l))
      /\ end = (pos + 10) + Len(Body(l)) + 2 /\ end \in Nat \ {0}
    BY <1>2
<1>8. Contains(file, pos + 10, Body(l)) /\ Contains(file, (pos + 10) + Len(Body(l)), <<RB, NL>>)
    BY <1>4, <1>7
<1>9. /\ BlockAt(Tokens(file), j + 4, l)
      /\ Starts(file, (j + 4) + (Width(l) - 4), (pos + 10) + Len(Body(l)) + 2)
      /\ file[(pos + 10) + Len(Body(l)) + 2] = NL
      /\ (pos + 10) + Len(Body(l)) + 2 <= Len(file)
    BY <1>5, <1>6, <1>7, <1>8, BlockTokens
<1>10. (j + 4) + (Width(l) - 4) = j + Width(l)
    BY DEF Width
<1> QED BY <1>5, <1>7, <1>9, <1>10

\* The line with the port, and the comment behind it
PortAt(toks, j, config) ==
    /\ IsToken(toks, j, "NORMAL", <<"port">>)
    /\ IsToken(toks, j + 1, "NORMAL", <<config.port>>)
    /\ IsToken(toks, j + 2, "STATEMENT_END", <<SC>>)
    /\ IsToken(toks, j + 3, "COMMENT", <<HASH, SP, SC>>)

\* The tokens of the line with the port
LEMMA PortLineTokens ==
    ASSUME NEW file \in Text, NEW config \in Layout, NEW q \in Nat \ {0}, NEW j \in Nat,
           Starts(file, j, q), Contains(file, q - 1, PortLine(config))
    PROVE  PortAt(Tokens(file), j, config) /\ Starts(file, j + 4, q + 9)
<1>1. Len(file) \in Nat
    BY DEF Text
<1>2. /\ file[q] = "port" /\ file[q + 1] = SP /\ file[q + 2] = config.port /\ file[q + 3] = SC
      /\ file[q + 4] = SP /\ file[q + 5] = HASH /\ file[q + 6] = SP /\ file[q + 7] = SC
      /\ file[q + 8] = NL
    <2>1. \A k \in 1..9 : file[(q - 1) + k] = PortLine(config)[k]
        BY PortLineType DEF Contains
    <2>2. \A k \in 1..9 : (q - 1) + k = q + (k - 1)
        OBVIOUS
    <2>3. \A k \in 1..9 : file[q + (k - 1)] = PortLine(config)[k]
        BY <2>1, <2>2
    <2> QED BY <2>3 DEF PortLine
<1>0. /\ q + 8 <= Len(file) /\ q + 7 <= Len(file) /\ q + 5 <= Len(file) /\ q + 3 <= Len(file)
      /\ q + 2 <= Len(file) /\ q + 1 <= Len(file) /\ q <= Len(file)
    <2>1. (q - 1) + 9 <= Len(file)
        BY <1>1, PortLineType DEF Contains
    <2> QED BY <1>1, <2>1
<1>3. "port" \in Words /\ config.port \in Words
    BY KeywordsAssumption, LayoutFields
<1>4. Starts(file, j + 1, q + 1) /\ IsToken(Tokens(file), j, "NORMAL", <<"port">>)
    <2>1. q + 1 <= Len(file) /\ q <= Len(file) /\ q < q + 1 /\ q + 1 \in Nat
        BY <1>0, <1>1
    <2>2. BlankTo(file, q, q)
        BY <1>2, <1>3, <2>1, Kinds, NoBlank
    <2>3. Reads(file, q, "NORMAL", <<file[q]>>, q + 1)
        BY <1>2, <1>3, <2>1, <2>2, Kinds, ReadsWord
    <2> QED BY <1>2, <2>1, <2>2, <2>3, TokenRead
<1>5. Starts(file, j + 2, q + 3) /\ IsToken(Tokens(file), j + 1, "NORMAL", <<config.port>>)
    <2>1. /\ (q + 2) + 1 <= Len(file) /\ (q + 2) + 1 = q + 3 /\ q + 3 \in Nat /\ q + 2 < q + 3
          /\ q + 1 \in Nat \ {0} /\ (q + 1) + 1 = q + 2 /\ q + 2 <= Len(file)
          /\ (j + 1) + 1 = j + 2
        BY <1>0, <1>1
    <2>2. BlankTo(file, q + 1, q + 2)
        <3>1. file[q + 1] \in Blanks /\ file[q + 2] \notin Blanks
            BY <1>2, <1>3, Kinds
        <3> QED BY <2>1, <3>1, OneBlank
    <2>3. Reads(file, q + 1, "NORMAL", <<file[q + 2]>>, (q + 2) + 1)
        BY <1>2, <1>3, <2>1, <2>2, Kinds, ReadsWord
    <2> QED BY <1>2, <1>4, <2>1, <2>2, <2>3, TokenRead
<1>6. Starts(file, j + 3, q + 4) /\ IsToken(Tokens(file), j + 2, "STATEMENT_END", <<SC>>)
    <2>1. /\ q + 3 \in Nat \ {0} /\ (q + 3) + 1 = q + 4 /\ q + 4 \in Nat /\ q + 3 < q + 4
          /\ (j + 2) + 1 = j + 3 /\ q + 3 <= Len(file)
        BY <1>0, <1>1
    <2>2. BlankTo(file, q + 3, q + 3)
        BY <1>2, <2>1, Kinds, NoBlank
    <2>3. Reads(file, q + 3, "STATEMENT_END", <<SC>>, (q + 3) + 1)
        BY <1>2, <2>2, ReadsMark
    <2> QED BY <1>5, <2>1, <2>2, <2>3, TokenRead
<1>7. Starts(file, j + 4, q + 9) /\ IsToken(Tokens(file), j + 3, "COMMENT", <<HASH, SP, SC>>)
    <2>1. /\ q + 4 \in Nat \ {0} /\ q + 5 = (q + 4) + 1 /\ q + 5 <= Len(file)
          /\ (q + 5) + 3 <= Len(file) /\ (q + 5) + 1 = q + 6 /\ (q + 5) + 2 = q + 7
          /\ (q + 5) + 3 = q + 8 /\ (q + 5) + 4 = q + 9 /\ q + 9 \in Nat /\ q + 5 < q + 9
          /\ (j + 3) + 1 = j + 4
        BY <1>0, <1>1
    <2>2. BlankTo(file, q + 4, q + 5)
        <3>1. file[q + 4] \in Blanks /\ file[q + 5] \notin Blanks
            BY <1>2, Kinds
        <3> QED BY <2>1, <3>1, OneBlank
    <2>3. Reads(file, q + 4, "COMMENT", <<HASH, SP, SC>>, (q + 5) + 4)
        BY <1>2, <2>1, <2>2, ReadsComment
    <2> QED BY <1>6, <2>1, <2>2, <2>3, TokenRead
<1> QED BY <1>4, <1>5, <1>6, <1>7 DEF PortAt

\* Where the tokens of each location start in a file written from a layout, and
\* which they are
TokensAre(toks, config, g) ==
    /\ g \in [0..Len(config.locations) -> Nat] /\ g[0] = 5
    /\ \A i \in 1..Len(config.locations) :
          /\ g[i] = g[i - 1] + Width(config.locations[i])
          /\ HeaderAt(toks, g[i - 1], config.locations[i])
          /\ BlockAt(toks, g[i - 1] + 4, config.locations[i])
    /\ PortAt(toks, 1, config)
    /\ Len(toks) = g[Len(config.locations)] - 1

\* The tokens of a file that is written from a layout are those of its parts.
LEMMA FileTokens ==
    ASSUME NEW config \in Layout
    PROVE  \E g : TokensAre(Tokens(FileOf(config)), config, g)
<1> DEFINE n == Len(config.locations)
           L(i) == config.locations[i]
           file == FileOf(config)
           toks == Tokens(file)
           step == [a \in Nat \X (1..n) |-> a[1] + Width(L(a[2]))]
<1>1. n \in Nat /\ \A i \in 1..n : L(i) \in Location
    BY LayoutFields
<1>2. PICK f : FileBuilt(config, f)
    BY FileIsBuilt
<1>3. /\ file \in Text /\ Contains(file, 0, PortLine(config))
      /\ \A i \in 1..n : Contains(file, Len(f[i - 1]), Written(L(i)))
      /\ \A i \in 1..n : Len(f[i]) = Len(f[i - 1]) + Len(Written(L(i)))
    BY <1>2, FileHasParts
<1>4. Len(f[0]) = 9 /\ Len(file) = Len(f[n])
    BY <1>2, PortLineType DEF FileBuilt
<1>5. Len(file) \in Nat
    BY <1>3 DEF Text
<1>6. PortAt(toks, 1, config) /\ Starts(file, 5, 10)
    <2>1. 1 - 1 = 0 /\ 1 + 4 = 5 /\ 1 + 9 = 10 /\ 1 \in Nat \ {0}
        OBVIOUS
    <2>2. Contains(file, 1 - 1, PortLine(config))
        BY <1>3, <2>1
    <2>3. ASSUME NEW one \in Nat \ {0}, Starts(file, one, one), Contains(file, one - 1, PortLine(config))
          PROVE  PortAt(toks, one, config) /\ Starts(file, one + 4, one + 9)
        BY <1>3, <2>3, PortLineTokens
    <2>4. PortAt(toks, 1, config) /\ Starts(file, 1 + 4, 1 + 9)
        BY <1>3, <2>1, <2>2, <2>3, FirstStarts
    <2> QED BY <2>1, <2>4
<1>7. step \in [Nat \X (1..n) -> Nat]
    BY <1>1 DEF Width
<1> HIDE DEF n, L, file, toks
<1>8. PICK g : Iterates(g, n, Nat, 5, step)
    <2> HIDE DEF step
    <2> QED BY <1>1, <1>7, RecursionExists
<1>9. g \in [0..n -> Nat] /\ g[0] = 5 /\ \A i \in 1..n : g[i] = g[i - 1] + Width(L(i))
    <2>1. g \in [0..n -> Nat] /\ g[0] = 5 /\ \A i \in 1..n : g[i] = step[<<g[i - 1], i>>]
        BY <1>8 DEF Iterates
    <2>2. ASSUME NEW i \in 1..n PROVE g[i] = g[i - 1] + Width(L(i))
        <3>1. g[i - 1] \in Nat
            BY <1>1, <2>1
        <3>2. <<g[i - 1], i>> \in Nat \X (1..n)
            BY <3>1
        <3>3. step[<<g[i - 1], i>>] = g[i - 1] + Width(L(i))
            BY <3>2
        <3> QED BY <2>1, <3>3
    <2> QED BY <2>1, <2>2
<1> HIDE DEF step
<1> DEFINE At(i) == /\ i > 0 => HeaderAt(toks, g[i - 1], L(i)) /\ BlockAt(toks, g[i - 1] + 4, L(i))
                    /\ Len(f[i]) \in Nat \ {0} /\ Len(f[i]) <= Len(file)
                    /\ i = 0 => Starts(file, g[i], Len(f[i]) + 1)
                    /\ i > 0 => Starts(file, g[i], Len(f[i])) /\ file[Len(f[i])] = NL
           T == {i \in Nat : At(i)}
<1>10. 0 \in T
    <2>1. 9 <= Len(file)
        <3>1. ASSUME NEW s, Len(s) = 9, Contains(file, 0, s) PROVE 9 <= Len(file)
            BY <1>5, <3>1 DEF Contains
        <3> QED BY <1>3, <3>1, PortLineType
    <2>2. Len(f[0]) + 1 = 10 /\ Len(f[0]) \in Nat \ {0} /\ Len(f[0]) <= Len(file)
        BY <1>4, <1>5, <2>1
    <2>3. Starts(file, g[0], Len(f[0]) + 1)
        BY <1>6, <1>9, <2>2
    <2>4. At(0)
        BY <2>2, <2>3
    <2> QED BY <2>4
<1>11. \A i \in 0..(n - 1) : i \in T => i + 1 \in T
    <2> SUFFICES ASSUME NEW i \in 0..(n - 1), At(i)
                 PROVE  At(i + 1)
        OBVIOUS
    <2> DEFINE pos == Len(f[i])
               l == L(i + 1)
    <2>1. i + 1 \in 1..n /\ (i + 1) - 1 = i /\ i \in 0..n /\ i + 1 > 0 /\ i \in Nat
        BY <1>1
    <2>2. /\ l \in Location /\ g[i] \in Nat /\ g[i + 1] = g[i] + Width(l)
          /\ Contains(file, pos, Written(l)) /\ Len(f[i + 1]) = pos + Len(Written(l))
          /\ pos \in Nat \ {0} /\ pos <= Len(file)
        BY <1>1, <1>3, <1>9, <2>1
    <2>3. PICK from : Starts(file, g[i], from) /\ BlankTo(file, from, pos + 1)
        <3>1. file[pos + 1] \notin Blanks /\ pos + 1 <= Len(file)
            <4>1. Len(Written(l)) \in Nat /\ Len(Written(l)) >= 12 /\ 1 \in 1..Len(Written(l))
                <5>1. Len(Body(l)) >= 0
                    BY <2>2, WrittenType
                <5>2. Len(Body(l)) \in Nat
                    BY <2>2, WrittenType
                <5> QED BY <2>2, <5>1, <5>2, WrittenType
            <4>2. file[pos + 1] = Written(l)[1] /\ pos + 1 <= Len(file)
                <5>1. ASSUME NEW s, 1 \in 1..Len(s), Contains(file, pos, s)
                      PROVE  file[pos + 1] = s[1] /\ pos + 1 <= Len(file)
                    BY <1>5, <2>2, <5>1 DEF Contains
                <5> QED BY <2>2, <4>1, <5>1
            <4>3. Written(l)[1] = "location"
                <5>1. /\ Header(l) \in Text /\ Body(l) \in Text /\ <<RB, NL>> \in Text
                      /\ Len(Header(l)) = 10 /\ Header(l)[1] = "location"
                    BY <2>2, WrittenType DEF Header
                <5>2. ASSUME NEW h \in Text, NEW b \in Text, NEW e \in Text, Len(h) = 10
                      PROVE  (h \o b \o e)[1] = h[1]
                    <6>1. ASSUME NEW s \in Text, Len(s) >= 10, NEW t \in Text
                          PROVE  s \o t \in Text /\ Len(s \o t) >= 10 /\ (s \o t)[1] = s[1]
                        <7>1. Len(s) \in Nat /\ Len(t) \in Nat /\ Len(s \o t) = Len(s) + Len(t)
                            BY DEF Text
                        <7>2. 1 \in 1..Len(s) /\ \A k \in 1..Len(s) : (s \o t)[k] = s[k]
                            BY <6>1, <7>1 DEF Text
                        <7>3. s \o t \in Text
                            BY DEF Text
                        <7> QED BY <6>1, <7>1, <7>2, <7>3
                    <6>2. Len(h) >= 10
                        BY <5>2
                    <6> QED BY <6>1, <6>2
                <5>3. (Header(l) \o Body(l) \o <<RB, NL>>)[1] = Header(l)[1]
                    BY <5>1, <5>2
                <5> QED BY <5>1, <5>3, Zenon DEF Written
            <4> QED BY <4>2, <4>3, Kinds, KeywordsAssumption
        <3>2. CASE i = 0
            <4>1. BlankTo(file, pos + 1, pos + 1)
                BY <1>3, <2>2, <3>1, NoBlank
            <4> QED BY <3>2, <4>1
        <3>3. CASE i > 0
            <4>1. Starts(file, g[i], pos) /\ file[pos] \in Blanks
                BY <3>3, Kinds
            <4>2. BlankTo(file, pos, pos + 1)
                BY <1>3, <2>2, <3>1, <4>1, OneBlank
            <4> QED BY <4>1, <4>2
        <3> QED BY <2>1, <3>2, <3>3
    <2> HIDE DEF pos, l
    <2>4. /\ HeaderAt(toks, g[i], l) /\ BlockAt(toks, g[i] + 4, l)
          /\ Starts(file, g[i] + Width(l), Len(f[i + 1])) /\ file[Len(f[i + 1])] = NL
          /\ Len(f[i + 1]) <= Len(file) /\ Len(f[i + 1]) \in Nat \ {0}
        BY <1>3, <2>2, <2>3, LocationTokens DEF toks
    <2> QED BY <2>1, <2>2, <2>4 DEF l
<1>12. \A i \in 0..n : At(i)
    <2> HIDE DEF At
    <2>1. \A i \in 0..n : i \in T
        <3> HIDE DEF T
        <3> QED BY <1>1, <1>10, <1>11, UpFrom
    <2> QED BY <2>1
<1>13. Len(toks) = g[n] - 1
    <2>1. PICK from \in Nat \ {0} : Starts(file, g[n], from) /\ \A k \in from..Len(file) : file[k] \in Blanks
        <3>1. At(n)
            BY <1>1, <1>12
        <3>2. CASE n = 0
            <4>1. Len(f[n]) + 1 \in Nat \ {0} /\ (Len(f[n]) + 1)..Len(file) = {}
                BY <1>4, <1>5
            <4> QED BY <3>1, <3>2, <4>1
        <3>3. CASE n > 0
            <4>1. Len(f[n]) \in Nat \ {0} /\ \A k \in Len(f[n])..Len(file) : k = Len(f[n])
                BY <1>4, <1>5, <3>1
            <4>2. Starts(file, g[n], Len(f[n])) /\ file[Len(f[n])] \in Blanks
                BY <3>1, <3>3, Kinds
            <4> QED BY <4>1, <4>2
        <3> QED BY <1>1, <3>2, <3>3
    <2>2. ParseToken(file, from).value = <<>>
        BY <1>3, <2>1, ReadsNothing
    <2> QED BY <1>3, <2>1, <2>2, LastStarts DEF toks
<1>14. \A i \in 1..n : HeaderAt(toks, g[i - 1], L(i)) /\ BlockAt(toks, g[i - 1] + 4, L(i))
    <2>1. ASSUME NEW i \in 1..n PROVE i \in 0..n /\ i > 0
        BY <1>1
    <2> QED BY <1>12, <2>1
<1> QED BY <1>6, <1>9, <1>13, <1>14 DEF TokensAre, n, L, file, toks

-----------------------------------------------------------------------------
(* How far main has got with a file that is written from a layout.  Where  *)
(* g is, g[i - 1] is the place of the first token of location i.           *)

StatementOf(values) == [tokens |-> values, block |-> FALSE, child |-> <<>>]

HasBody(l) == l.type \in {"StaticHandler", "ProxyHandler"}
Keyword(l) == IF l.type = "StaticHandler" THEN "root" ELSE "proxy_pass"

\* What Parse makes of a location's block
ContentOf(l) ==
    IF HasBody(l) THEN <<StatementOf(<<<<Keyword(l)>>, Quoted(l.arg)>>)>> ELSE <<>>

Contents(config, m) == [k \in 1..m |-> ContentOf(config.locations[k])]

\* No block is open, or one is.
Outside(p, blocks) ==
    /\ IsParser(p) /\ p.result = "running" /\ p.braces = 0
    /\ IsSeq(p.config_stack, 1) /\ p.config_blocks_content = blocks

Inside(p, block, blocks) ==
    /\ IsParser(p) /\ p.result = "running" /\ p.braces = 1
    /\ IsSeq(p.config_stack, 2) /\ p.config_stack[2] = block /\ p.config_blocks_content = blocks

\* Parse has read o tokens of a location, and the blocks of those before it.
Within(p, l, o, blocks) ==
    /\ o = 0 => Outside(p, blocks) /\ p.last_token_type \in {"STATEMENT_END", "END_BLOCK"}
    /\ o \in 1..3 => Outside(p, blocks) /\ p.last_token_type = "NORMAL"
    /\ o = 4 => Inside(p, <<>>, blocks) /\ p.last_token_type = "START_BLOCK"
    /\ o = 5 => /\ Inside(p, <<StatementOf(<<<<Keyword(l)>>>>)>>, blocks)
                /\ p.last_token_type = "NORMAL"
    /\ o = 6 => Inside(p, ContentOf(l), blocks) /\ p.last_token_type = "NORMAL"
    /\ o \in 7..8 => Inside(p, ContentOf(l), blocks) /\ p.last_token_type = "STATEMENT_END"

Parsing(config, g, p, i) ==
    \/ i = 1 /\ p = StartState
    \/ i \in {2, 3} /\ Outside(p, <<>>) /\ p.last_token_type = "NORMAL"
    \/ i = 4 /\ Outside(p, <<>>) /\ p.last_token_type = "STATEMENT_END"
    \/ \E m \in 1..Len(config.locations), o \in 0..8 :
          /\ i = g[m - 1] + o /\ o < Width(config.locations[m])
          /\ Within(p, config.locations[m], o, Contents(config, m - 1))
    \/ /\ i = g[Len(config.locations)]
       /\ Within(p, <<>>, 0, Contents(config, Len(config.locations)))

\* The second pass: the headers of the locations, first without their contents
Heads(config, m) ==
    [k \in 1..m |-> Block(Quoted(config.locations[k].prefix), <<config.locations[k].type>>)]

Heading(config, g, p, i, last, stop, blocks) ==
    \/ p = "headers" /\ i \in 1..4 /\ last # <<"location">> /\ blocks = <<>>
    \/ /\ p = "headers" /\ i = g[Len(config.locations)] /\ last # <<"location">>
       /\ blocks = Heads(config, Len(config.locations))
    \/ \E m \in 1..Len(config.locations) :
          \/ /\ p = "headers" /\ blocks = Heads(config, m - 1)
             /\ \/ i = g[m - 1] /\ last # <<"location">>
                \/ i = g[m - 1] + 1 /\ last = <<"location">>
          \/ /\ config.locations[m].type = "StaticHandler" /\ blocks = Heads(config, m)
             /\ \/ p = "skip" /\ stop = <<SC>> /\ i \in (g[m - 1] + 4)..(g[m - 1] + 6)
                \/ /\ p = "headers" /\ i \in (g[m - 1] + 7)..(g[m - 1] + 8)
                   /\ last # <<"location">>
          \/ /\ config.locations[m].type # "StaticHandler" /\ blocks = Heads(config, m)
             /\ p = "skip" /\ stop = <<RB>> /\ i \in (g[m - 1] + 3)..(g[m] - 1)

\* The blocks with their contents
Blocks(config) ==
    [k \in 1..Len(config.locations) |->
        [Block(Quoted(config.locations[k].prefix), <<config.locations[k].type>>) EXCEPT
            !.content = ContentOf(config.locations[k])]]

\* The handlers of the first m locations: of those with one path the last counts.
HandlerOf(l) ==
    [type |-> l.type, addr |-> IF l.type = "ProxyHandler" THEN <<l.arg>> ELSE <<>>]

HandlersMade(config, m, map) ==
    /\ map = [key \in {Quoted(config.locations[i].prefix) : i \in 1..m} |-> map[key]]
    /\ \A i \in 1..m :
          (\A j \in (i + 1)..m : config.locations[j].prefix # config.locations[i].prefix)
             => map[Quoted(config.locations[i].prefix)] = HandlerOf(config.locations[i])

\* And their roots
IsStaticAt(config, i) == config.locations[i].type = "StaticHandler"

RootsMade(config, m, roots) ==
    /\ \A i \in 1..m :
          /\ IsStaticAt(config, i)
          /\ \A j \in (i + 1)..m : IsStaticAt(config, j) =>
                config.locations[j].prefix # config.locations[i].prefix
          => RootAt(roots, SegmentsOf[config.locations[i].prefix])
                = <<FromSlash[config.locations[i].arg]>>
    /\ \A dir : RootAt(roots, dir) # <<>> =>
          \E i \in 1..m : IsStaticAt(config, i) /\ dir = SegmentsOf[config.locations[i].prefix]

\* All of it
Progress(config, g) ==
    /\ phase \notin {"refused", "crashed"}
    /\ phase \in {"port", "parse"} => config_blocks = <<>> /\ last_token = <<>>
    /\ phase = "port" => at = 1 /\ parser = StartState
    /\ phase = "parse" => Parsing(config, g, parser, at)
    /\ phase \in {"headers", "skip"} =>
          /\ parser.config_blocks_content = Contents(config, Len(config.locations))
          /\ Heading(config, g, phase, at, last_token, until, config_blocks)
    /\ phase \in {"listen", "handlers"} => config_blocks = Blocks(config)
    /\ phase \in {"port", "parse", "headers", "skip", "listen"} =>
          handlers_tackers = <<>> /\ locationToRoot = <<>>
    /\ phase = "handlers" =>
          /\ at <= Len(config.locations) + 1
          /\ HandlersMade(config, at - 1, handlers_tackers)
          /\ RootsMade(config, at - 1, locationToRoot)
    /\ phase = "listening" =>
          /\ HandlersMade(config, Len(config.locations), handlers_tackers)
          /\ RootsMade(config, Len(config.locations), locationToRoot)

\* On a sequence of one element
LEMMA AppendOne ==
    ASSUME NEW s, IsSeq(s, 1), NEW e
    PROVE  IsSeq(Append(s, e), 2) /\ Append(s, e)[1] = s[1] /\ Append(s, e)[2] = e
<1> DEFINE S == {s[i] : i \in 1..1} \cup {e}
<1>1. s \in [1..1 -> S] /\ e \in S
    BY DEF IsSeq
<1> HIDE DEF S
<1>2. s \in Seq(S) /\ Len(s) = 1
    <2>1. ASSUME NEW n \in Nat, s \in [1..n -> S]
          PROVE  s \in Seq(S) /\ Len(s) = n
        BY <2>1
    <2> QED BY <1>1, <2>1
<1>3. ASSUME NEW m \in Nat, Len(s) = m
      PROVE  /\ Append(s, e) \in Seq(S) /\ Len(Append(s, e)) = m + 1
             /\ Append(s, e)[m + 1] = e /\ \A k \in 1..m : Append(s, e)[k] = s[k]
    BY <1>1, <1>2, <1>3
<1>4. /\ Append(s, e) \in Seq(S) /\ Len(Append(s, e)) = 1 + 1
      /\ Append(s, e)[1 + 1] = e /\ \A k \in 1..1 : Append(s, e)[k] = s[k]
    <2>1. 1 \in Nat
        OBVIOUS
    <2> QED BY <1>2, <1>3, <2>1, Zenon
<1> DEFINE a == Append(s, e)
<1>5. a \in Seq(S) /\ Len(a) = 2 /\ a[2] = e /\ a[1] = s[1]
    <2> HIDE DEF a
    <2>1. 1 + 1 = 2 /\ 1 \in 1..1
        OBVIOUS
    <2>2. a \in Seq(S) /\ Len(a) = 1 + 1 /\ a[1 + 1] = e /\ \A k \in 1..1 : a[k] = s[k]
        BY <1>4 DEF a
    <2> QED BY <2>1, <2>2
<1>6. IsSeq(a, 2)
    <2> HIDE DEF a
    <2> QED BY <1>5 DEF IsSeq
<1> QED BY <1>5, <1>6

\* On a sequence of one element, written out
LEMMA AppendTwo ==
    ASSUME NEW v, NEW w
    PROVE  Append(<<v>>, w) = <<v, w>>
<1> DEFINE a == Append(<<v>>, w)
<1>1. IsSeq(<<v>>, 1) /\ <<v>>[1] = v
    BY DEF IsSeq
<1>2. IsSeq(a, 2) /\ a[1] = v /\ a[2] = w
    BY <1>1, AppendOne
<1> HIDE DEF a
<1>3. <<v, w>> = [i \in 1..2 |-> IF i = 1 THEN v ELSE w]
    OBVIOUS
<1>4. a = <<v, w>>
    BY <1>2, <1>3 DEF IsSeq
<1> QED BY <1>4 DEF a

\* A turn of Parse outside all blocks
LEMMA TurnOutside ==
    ASSUME NEW p, NEW blocks, Outside(p, blocks), NEW t, NEW q, q = Turn(p, t)
    PROVE  /\ (/\ t.type = "NORMAL"
               /\ p.last_token_type \in {"START", "NORMAL", "STATEMENT_END", "END_BLOCK"})
              => Outside(q, blocks) /\ q.last_token_type = "NORMAL"
           /\ t.type = "STATEMENT_END" /\ p.last_token_type = "NORMAL"
              => Outside(q, blocks) /\ q.last_token_type = "STATEMENT_END"
           /\ t.type = "COMMENT" => q = p
           /\ t.type = "START_BLOCK" /\ p.last_token_type = "NORMAL"
              => Inside(q, <<>>, blocks) /\ q.last_token_type = "START_BLOCK"
           /\ t.type = "EOF" /\ p.last_token_type \in {"STATEMENT_END", "END_BLOCK"}
              => q.result = "true" /\ q.config_blocks_content = blocks
<1> DEFINE last(r) == [r EXCEPT !.last_token_type = t.type]
<1>1. /\ IsParser(p) /\ p.result = "running" /\ p.braces = 0
      /\ IsSeq(p.config_stack, 1) /\ p.config_blocks_content = blocks
    BY DEF Outside
<1>2. Len(p.config_stack) = 1
    BY <1>1, SeqLen
<1>3. ASSUME t.type = "NORMAL",
             p.last_token_type \in {"START", "NORMAL", "STATEMENT_END", "END_BLOCK"}
      PROVE  Outside(q, blocks) /\ q.last_token_type = "NORMAL"
    <2> DEFINE r == AddWord(p, t.value)
    <2>1. q = last(r)
        BY <1>3 DEF Turn, MayFollow
    <2>2. PICK x : r = [p EXCEPT !.config_stack = Replace(@, x)]
        BY Zenon DEF AddWord
    <2> HIDE DEF r
    <2>3. /\ IsParser(q) /\ q.result = "running" /\ q.braces = 0
          /\ q.last_token_type = "NORMAL" /\ q.config_stack = Replace(p.config_stack, x)
          /\ q.config_blocks_content = blocks
        BY <1>1, <1>3, <2>1, <2>2 DEF IsParser
    <2>4. IsSeq(q.config_stack, 1)
        BY <1>1, <2>3, SeqReplace
    <2> QED BY <2>3, <2>4 DEF Outside
<1>4. ASSUME t.type = "STATEMENT_END", p.last_token_type = "NORMAL"
      PROVE  Outside(q, blocks) /\ q.last_token_type = "STATEMENT_END"
    <2>1. q = last(p)
        BY <1>4 DEF Turn, MayFollow
    <2> QED BY <1>1, <1>4, <2>1 DEF IsParser, Outside
<1>5. ASSUME t.type = "COMMENT" PROVE q = p
    BY <1>5 DEF Turn
<1>6. ASSUME t.type = "START_BLOCK", p.last_token_type = "NORMAL"
      PROVE  Inside(q, <<>>, blocks) /\ q.last_token_type = "START_BLOCK"
    <2>1. q = last(OpenBlock(p))
        BY <1>6 DEF Turn, MayFollow
    <2>2. PICK x : OpenBlock(p) = [p EXCEPT !.config_stack = Append(Replace(@, x), <<>>),
                                            !.braces = @ + 1]
        BY Zenon DEF OpenBlock
    <2>3. /\ IsParser(q) /\ q.result = "running" /\ q.braces = p.braces + 1
          /\ q.last_token_type = "START_BLOCK"
          /\ q.config_stack = Append(Replace(p.config_stack, x), <<>>)
          /\ q.config_blocks_content = p.config_blocks_content
        BY <1>1, <1>6, <2>1, <2>2 DEF IsParser
    <2>4. q.braces = 1 /\ q.config_blocks_content = blocks
        BY <1>1, <2>3
    <2>6. IsSeq(q.config_stack, 2) /\ q.config_stack[2] = <<>>
        <3>1. IsSeq(Replace(p.config_stack, x), 1)
            BY <1>1, SeqReplace
        <3>2. ASSUME NEW e, q.config_stack = Append(Replace(p.config_stack, x), e)
              PROVE  IsSeq(q.config_stack, 2) /\ q.config_stack[2] = e
            <4>1. ASSUME NEW s, IsSeq(s, 1), q.config_stack = Append(s, e)
                  PROVE  IsSeq(q.config_stack, 2) /\ q.config_stack[2] = e
                <5>1. IsSeq(Append(s, e), 2) /\ Append(s, e)[2] = e
                    BY <4>1, AppendOne
                <5> QED BY <4>1, <5>1, Zenon
            <4> QED BY <3>1, <3>2, <4>1, Zenon
        <3> QED BY <2>3, <3>2, Zenon
    <2> QED BY <2>3, <2>4, <2>6 DEF Inside
<1>7. ASSUME t.type = "EOF", p.last_token_type \in {"STATEMENT_END", "END_BLOCK"}
      PROVE  q.result = "true" /\ q.config_blocks_content = blocks
    <2>1. q = [p EXCEPT !.result = "true"]
        BY <1>1, <1>2, <1>7 DEF Turn, MayFollow
    <2> QED BY <1>1, <2>1 DEF IsParser
<1> QED BY <1>3, <1>4, <1>5, <1>6, <1>7

\* A turn of Parse inside a block, for a word
LEMMA TurnWord ==
    ASSUME NEW p, NEW block, NEW blocks, Inside(p, block, blocks), NEW t, NEW q, q = Turn(p, t),
           t.type = "NORMAL", NEW x, p.last_token_type \in {"NORMAL", "START_BLOCK"},
           AddWord(p, t.value) = [p EXCEPT !.config_stack = Replace(@, x)]
    PROVE  Inside(q, x, blocks) /\ q.last_token_type = "NORMAL"
<1> DEFINE last(r) == [r EXCEPT !.last_token_type = t.type]
<1>1. /\ IsParser(p) /\ p.result = "running" /\ p.braces = 1
      /\ IsSeq(p.config_stack, 2) /\ p.config_stack[2] = block /\ p.config_blocks_content = blocks
    BY DEF Inside
<1>2. Len(p.config_stack) = 2 /\ Top(p.config_stack) = block
    BY <1>1, SeqLen DEF Top
<1>3. q = last(AddWord(p, t.value))
    BY DEF Turn, MayFollow
<1>4. /\ IsParser(q) /\ q.result = "running" /\ q.braces = 1
      /\ q.last_token_type = "NORMAL" /\ q.config_stack = Replace(p.config_stack, x)
      /\ q.config_blocks_content = blocks
    BY <1>1, <1>3 DEF IsParser
<1>5. IsSeq(q.config_stack, 2)
    BY <1>1, <1>4, SeqReplace
<1>6. q.config_stack[2] = x
    BY <1>1, <1>2, <1>4 DEF Replace, IsSeq
<1> QED BY <1>4, <1>5, <1>6 DEF Inside

\* The first word of a block starts a statement.
LEMMA TurnFirstWord ==
    ASSUME NEW p, NEW block, NEW blocks, Inside(p, block, blocks), NEW t, NEW q, q = Turn(p, t),
           t.type = "NORMAL", p.last_token_type = "START_BLOCK", block = <<>>
    PROVE  Inside(q, <<StatementOf(<<t.value>>)>>, blocks) /\ q.last_token_type = "NORMAL"
<1>1. /\ IsParser(p) /\ p.result = "running" /\ p.braces = 1
      /\ IsSeq(p.config_stack, 2) /\ p.config_stack[2] = block /\ p.config_blocks_content = blocks
    BY DEF Inside
<1>2. Len(p.config_stack) = 2 /\ Top(p.config_stack) = block
    BY <1>1, SeqLen DEF Top
<1>3. AddWord(p, t.value) =
          [p EXCEPT !.config_stack = Replace(@, Append(block, StatementOf(<<t.value>>)))]
    BY <1>2 DEF AddWord, StatementOf
<1>4. Append(block, StatementOf(<<t.value>>)) = <<StatementOf(<<t.value>>)>>
    <2>1. ASSUME NEW x PROVE Append(<<>>, x) = <<x>>
        OBVIOUS
    <2> QED BY <2>1
<1> QED BY TurnWord, <1>3, <1>4

\* The second word goes on with it.
LEMMA TurnSecondWord ==
    ASSUME NEW p, NEW block, NEW blocks, Inside(p, block, blocks), NEW t, NEW q, q = Turn(p, t),
           NEW v, t.type = "NORMAL", p.last_token_type = "NORMAL", block = <<StatementOf(<<v>>)>>
    PROVE  Inside(q, <<StatementOf(<<v, t.value>>)>>, blocks) /\ q.last_token_type = "NORMAL"
<1>1. /\ IsParser(p) /\ p.result = "running" /\ p.braces = 1
      /\ IsSeq(p.config_stack, 2) /\ p.config_stack[2] = block /\ p.config_blocks_content = blocks
    BY DEF Inside
<1>2. Len(p.config_stack) = 2 /\ Top(p.config_stack) = block
    BY <1>1, SeqLen DEF Top
<1>3. AddWord(p, t.value) =
          [p EXCEPT !.config_stack =
              Replace(@, [block EXCEPT ![Len(block)].tokens = Append(@, t.value)])]
    BY <1>2 DEF AddWord
<1>4. [block EXCEPT ![Len(block)].tokens = Append(@, t.value)] = <<StatementOf(<<v, t.value>>)>>
    <2>1. Append(<<v>>, t.value) = <<v, t.value>>
        BY AppendTwo
    <2>2. Len(block) = 1 /\ block[1] = StatementOf(<<v>>)
        OBVIOUS
    <2>3. ASSUME NEW a, NEW b
          PROVE  StatementOf(a).tokens = a /\ [StatementOf(a) EXCEPT !.tokens = b] = StatementOf(b)
        <3>1. ASSUME NEW f, NEW c, NEW r, r = [tokens |-> a, block |-> f, child |-> c]
              PROVE  r.tokens = a /\ [r EXCEPT !.tokens = b] = [tokens |-> b, block |-> f, child |-> c]
            BY <3>1
        <3> QED BY <3>1, Zenon DEF StatementOf
    <2>4. ASSUME NEW a, NEW b PROVE [<<a>> EXCEPT ![1] = b] = <<b>>
        OBVIOUS
    <2>5. [block[1] EXCEPT !.tokens = Append(block[1].tokens, t.value)] = StatementOf(<<v, t.value>>)
        BY <2>1, <2>2, <2>3
    <2>6. [block EXCEPT ![1] = StatementOf(<<v, t.value>>)] = <<StatementOf(<<v, t.value>>)>>
        BY <2>4
    <2> QED BY <2>2, <2>5, <2>6
<1> QED BY TurnWord, <1>3, <1>4

\* And for any other token
LEMMA TurnInside ==
    ASSUME NEW p, NEW block, NEW blocks, Inside(p, block, blocks), NEW t, NEW q, q = Turn(p, t)
    PROVE  /\ t.type = "STATEMENT_END" /\ p.last_token_type = "NORMAL"
              => Inside(q, block, blocks) /\ q.last_token_type = "STATEMENT_END"
           /\ t.type = "COMMENT" => q = p
           /\ t.type = "END_BLOCK" /\ p.last_token_type \in {"STATEMENT_END", "START_BLOCK"}
              => Outside(q, Append(blocks, block)) /\ q.last_token_type = "END_BLOCK"
<1> DEFINE last(r) == [r EXCEPT !.last_token_type = t.type]
<1>1. /\ IsParser(p) /\ p.result = "running" /\ p.braces = 1
      /\ IsSeq(p.config_stack, 2) /\ p.config_stack[2] = block /\ p.config_blocks_content = blocks
    BY DEF Inside
<1>2. Len(p.config_stack) = 2 /\ Top(p.config_stack) = block
    BY <1>1, SeqLen DEF Top
<1>6. ASSUME t.type = "STATEMENT_END", p.last_token_type = "NORMAL"
      PROVE  Inside(q, block, blocks) /\ q.last_token_type = "STATEMENT_END"
    <2>1. q = last(p)
        BY <1>6 DEF Turn, MayFollow
    <2> QED BY <1>1, <1>6, <2>1 DEF IsParser, Inside
<1>7. ASSUME t.type = "COMMENT" PROVE q = p
    BY <1>7 DEF Turn
<1>8. ASSUME t.type = "END_BLOCK", p.last_token_type \in {"STATEMENT_END", "START_BLOCK"}
      PROVE  Outside(q, Append(blocks, block)) /\ q.last_token_type = "END_BLOCK"
    <2>1. q = last(CloseBlock(p))
        BY <1>1, <1>2, <1>8 DEF Turn, MayFollow
    <2>2. PICK x : CloseBlock(p) = [p EXCEPT !.config_stack = Replace(Pop(p.config_stack), x),
                                             !.braces = @ - 1,
                                             !.config_blocks_content = Append(@, Top(p.config_stack))]
        BY Zenon DEF CloseBlock
    <2>5. /\ IsParser(q) /\ q.result = "running" /\ q.braces = p.braces - 1
          /\ q.last_token_type = "END_BLOCK"
          /\ q.config_stack = Replace(Pop(p.config_stack), x)
          /\ q.config_blocks_content = Append(p.config_blocks_content, Top(p.config_stack))
        BY <1>1, <1>8, <2>1, <2>2 DEF IsParser
    <2>3. /\ IsParser(q) /\ q.result = "running" /\ q.braces = 0
          /\ q.last_token_type = "END_BLOCK"
          /\ q.config_stack = Replace(Pop(p.config_stack), x)
          /\ q.config_blocks_content = Append(blocks, block)
        BY <1>1, <1>2, <2>5
    <2>4. IsSeq(q.config_stack, 1)
        <3>1. IsSeq(Pop(p.config_stack), 2 - 1)
            BY <1>1, SeqPop
        <3>2. 2 - 1 = 1
            OBVIOUS
        <3> QED BY <2>3, <3>1, <3>2, SeqReplace
    <2> QED BY <2>3, <2>4 DEF Outside
<1> QED BY <1>6, <1>7, <1>8

\* A token that is known to be there is got.
LEMMA GetIsToken ==
    ASSUME NEW toks, NEW i, NEW type, NEW value, IsToken(toks, i, type, value)
    PROVE  getToken(toks, i).type = type /\ getToken(toks, i).value = value
BY DEF IsToken, getToken

\* A turn of Parse within a location
LEMMA WithinTurn ==
    ASSUME NEW l \in Location, NEW toks, NEW j \in Nat, HeaderAt(toks, j, l),
           BlockAt(toks, j + 4, l), NEW o \in 0..8, o < Width(l), NEW p, NEW blocks,
           Within(p, l, o, blocks), NEW q, q = Turn(p, getToken(toks, j + o))
    PROVE  /\ q.result = "running"
           /\ \/ o + 1 < Width(l) /\ o + 1 \in 0..8 /\ Within(q, l, o + 1, blocks)
              \/ o + 1 = Width(l) /\ Within(q, <<>>, 0, Append(blocks, ContentOf(l)))
<1> DEFINE t == getToken(toks, j + o)
           Goal == /\ q.result = "running"
                   /\ \/ o + 1 < Width(l) /\ o + 1 \in 0..8 /\ Within(q, l, o + 1, blocks)
                      \/ o + 1 = Width(l) /\ Within(q, <<>>, 0, Append(blocks, ContentOf(l)))
<1>1. l.type \in HandlerTypes /\ l.type \in Words
    BY LocationWords
<1>2. Width(l) = IF l.type = "StaticHandler" THEN 9 ELSE IF l.type = "ProxyHandler" THEN 8 ELSE 5
    BY DEF Width
<1>3. HasBody(l) <=> l.type \in {"StaticHandler", "ProxyHandler"}
    BY DEF HasBody
\* The types and values of the tokens
<1>4. /\ o = 0 => t.type = "NORMAL"
      /\ o = 1 => t.type = "NORMAL"
      /\ o = 2 => t.type = "NORMAL"
      /\ o = 3 => t.type = "START_BLOCK"
    <2>1. j + 0 = j
        OBVIOUS
    <2> QED BY <2>1, GetIsToken DEF HeaderAt
<1>5. /\ o = 4 /\ HasBody(l) => t.type = "NORMAL" /\ t.value = <<Keyword(l)>>
      /\ o = 4 /\ ~HasBody(l) => t.type = "END_BLOCK"
      /\ o = 5 => t.type = "NORMAL" /\ t.value = Quoted(l.arg)
      /\ o = 6 => t.type = "STATEMENT_END"
      /\ o = 7 => t.type = IF l.type = "StaticHandler" THEN "COMMENT" ELSE "END_BLOCK"
      /\ o = 8 => t.type = "END_BLOCK"
    <2>1. /\ (j + 4) + 1 = j + 5 /\ (j + 4) + 2 = j + 6 /\ (j + 4) + 3 = j + 7 /\ (j + 4) + 4 = j + 8
          /\ (o > 4 => HasBody(l)) /\ (o = 8 => l.type = "StaticHandler")
        BY <1>2, <1>3
    <2>2. CASE l.type = "StaticHandler"
        <3>1. /\ IsToken(toks, j + 4, "NORMAL", <<"root">>)
              /\ IsToken(toks, j + 5, "NORMAL", Quoted(l.arg))
              /\ IsToken(toks, j + 6, "STATEMENT_END", <<SC>>)
              /\ IsToken(toks, j + 7, "COMMENT", <<HASH, SP, SC>>)
              /\ IsToken(toks, j + 8, "END_BLOCK", <<RB>>)
            BY <2>1, <2>2 DEF BlockAt, StatementAt
        <3>2. Keyword(l) = "root" /\ HasBody(l)
            BY <1>3, <2>2 DEF Keyword
        <3> QED BY <2>2, <3>1, <3>2, GetIsToken
    <2>3. CASE l.type = "ProxyHandler"
        <3>1. /\ IsToken(toks, j + 4, "NORMAL", <<"proxy_pass">>)
              /\ IsToken(toks, j + 5, "NORMAL", Quoted(l.arg))
              /\ IsToken(toks, j + 6, "STATEMENT_END", <<SC>>)
              /\ IsToken(toks, j + 7, "END_BLOCK", <<RB>>)
            BY <2>1, <2>3 DEF BlockAt, StatementAt
        <3>2. Keyword(l) = "proxy_pass" /\ HasBody(l) /\ o # 8 /\ l.type # "StaticHandler"
            BY <1>3, <2>1, <2>3 DEF Keyword
        <3> QED BY <2>3, <3>1, <3>2, GetIsToken
    <2>4. CASE ~HasBody(l)
        <3>1. IsToken(toks, j + 4, "END_BLOCK", <<RB>>)
            BY <1>3, <2>4 DEF BlockAt
        <3> QED BY <2>1, <2>4, <3>1, GetIsToken
    <2> QED BY <1>3, <2>2, <2>3, <2>4
<1>6. q = Turn(p, t)
    OBVIOUS
<1> HIDE DEF t
<1> SUFFICES Goal
    OBVIOUS
<1>7. ASSUME o + 1 < Width(l), o + 1 \in 0..8, Within(q, l, o + 1, blocks), q.result = "running"
      PROVE  Goal
    BY <1>7
<1>8. ASSUME o + 1 = Width(l), Outside(q, Append(blocks, ContentOf(l))), q.last_token_type = "END_BLOCK"
      PROVE  Goal
    <2>1. Within(q, <<>>, 0, Append(blocks, ContentOf(l)))
        BY <1>8 DEF Within
    <2>2. q.result = "running"
        BY <1>8 DEF Outside
    <2> QED BY <1>8, <2>1, <2>2
<1> HIDE DEF Goal
<1>9. ASSUME NEW b, NEW bs, Outside(q, bs) \/ Inside(q, b, bs) PROVE q.result = "running"
    BY <1>9 DEF Outside, Inside
<1>10. CASE o \in 0..2
    <2>1. /\ Outside(p, blocks)
          /\ p.last_token_type \in {"START", "NORMAL", "STATEMENT_END", "END_BLOCK"}
        BY <1>10 DEF Within
    <2>2. Outside(q, blocks) /\ q.last_token_type = "NORMAL"
        BY <1>4, <1>6, <1>10, <2>1, TurnOutside
    <2>3. o + 1 \in 1..3 /\ o + 1 \in 0..8 /\ o + 1 < Width(l)
        BY <1>2, <1>10
    <2>4. Within(q, l, o + 1, blocks)
        BY <2>2, <2>3 DEF Within
    <2> QED BY <1>7, <1>9, <2>2, <2>3, <2>4
<1>11. CASE o = 3
    <2>1. Outside(p, blocks) /\ p.last_token_type = "NORMAL"
        BY <1>11 DEF Within
    <2>2. Inside(q, <<>>, blocks) /\ q.last_token_type = "START_BLOCK"
        BY <1>4, <1>6, <1>11, <2>1, TurnOutside
    <2>3. o + 1 = 4 /\ o + 1 \in 0..8 /\ o + 1 < Width(l)
        BY <1>2, <1>11
    <2>4. Within(q, l, o + 1, blocks)
        BY <2>2, <2>3 DEF Within
    <2> QED BY <1>7, <1>9, <2>2, <2>3, <2>4
<1>12. CASE o = 4 /\ HasBody(l)
    <2>1. Inside(p, <<>>, blocks) /\ p.last_token_type = "START_BLOCK"
        BY <1>12 DEF Within
    <2>2. Inside(q, <<StatementOf(<<<<Keyword(l)>>>>)>>, blocks) /\ q.last_token_type = "NORMAL"
        <3>1. Inside(q, <<StatementOf(<<t.value>>)>>, blocks) /\ q.last_token_type = "NORMAL"
            BY <1>5, <1>6, <1>12, <2>1, TurnFirstWord
        <3> QED BY <1>5, <1>12, <3>1
    <2>3. o + 1 = 5 /\ o + 1 \in 0..8 /\ o + 1 < Width(l)
        BY <1>2, <1>3, <1>12
    <2>4. Within(q, l, o + 1, blocks)
        BY <2>2, <2>3 DEF Within
    <2> QED BY <1>7, <1>9, <2>2, <2>3, <2>4
<1>13. CASE o = 4 /\ ~HasBody(l)
    <2>1. Inside(p, <<>>, blocks) /\ p.last_token_type = "START_BLOCK"
        BY <1>13 DEF Within
    <2>2. ContentOf(l) = <<>>
        BY <1>13 DEF ContentOf
    <2>3. Inside(p, ContentOf(l), blocks)
        BY <2>1, <2>2
    <2>4. Outside(q, Append(blocks, ContentOf(l))) /\ q.last_token_type = "END_BLOCK"
        BY <1>5, <1>6, <1>13, <2>1, <2>3, TurnInside
    <2>5. o + 1 = Width(l)
        BY <1>2, <1>3, <1>13
    <2> QED BY <1>8, <2>4, <2>5
<1>14. CASE o = 5
    <2>1. HasBody(l) /\ o + 1 = 6 /\ o + 1 \in 0..8 /\ o + 1 < Width(l)
        BY <1>2, <1>3, <1>14
    <2>2. Inside(p, <<StatementOf(<<<<Keyword(l)>>>>)>>, blocks) /\ p.last_token_type = "NORMAL"
        BY <1>14 DEF Within
    <2>3. /\ Inside(q, <<StatementOf(<<<<Keyword(l)>>, t.value>>)>>, blocks)
          /\ q.last_token_type = "NORMAL"
        <3>1. t.type = "NORMAL"
            BY <1>5, <1>14
        <3>2. ASSUME NEW v, NEW block, Inside(p, block, blocks), block = <<StatementOf(<<v>>)>>
              PROVE  Inside(q, <<StatementOf(<<v, t.value>>)>>, blocks) /\ q.last_token_type = "NORMAL"
            BY <1>6, <2>2, <3>1, <3>2, TurnSecondWord
        <3> QED BY <2>2, <3>2
    <2>4. ContentOf(l) = <<StatementOf(<<<<Keyword(l)>>, t.value>>)>>
        BY <1>5, <1>14, <2>1 DEF ContentOf
    <2>5. Inside(q, ContentOf(l), blocks)
        BY <2>3, <2>4
    <2>6. Within(q, l, o + 1, blocks)
        BY <2>1, <2>3, <2>5 DEF Within
    <2> QED BY <1>7, <1>9, <2>1, <2>5, <2>6
<1>15. CASE o = 6
    <2>1. o + 1 = 7 /\ o + 1 \in 0..8 /\ o + 1 < Width(l)
        BY <1>2, <1>15
    <2>2. Inside(p, ContentOf(l), blocks) /\ p.last_token_type = "NORMAL"
        BY <1>15 DEF Within
    <2>3. Inside(q, ContentOf(l), blocks) /\ q.last_token_type = "STATEMENT_END"
        <3>1. t.type = "STATEMENT_END"
            BY <1>5, <1>15
        <3> QED BY <1>6, <2>2, <3>1, TurnInside
    <2>4. Within(q, l, o + 1, blocks)
        BY <2>1, <2>3 DEF Within
    <2> QED BY <1>7, <1>9, <2>1, <2>3, <2>4
<1>16. CASE o = 7 /\ l.type = "StaticHandler"
    <2>1. o + 1 = 8 /\ o + 1 \in 0..8 /\ o + 1 < Width(l)
        BY <1>2, <1>16
    <2>2. Inside(p, ContentOf(l), blocks) /\ p.last_token_type = "STATEMENT_END"
        BY <1>16 DEF Within
    <2>3. q = p
        <3>1. t.type = "COMMENT"
            BY <1>5, <1>16
        <3> QED BY <1>6, <2>2, <3>1, TurnInside
    <2>4. Within(q, l, o + 1, blocks)
        BY <2>1, <2>2, <2>3 DEF Within
    <2> QED BY <1>7, <1>9, <2>1, <2>2, <2>3, <2>4
<1>17. CASE o = 8 \/ (o = 7 /\ l.type # "StaticHandler")
    <2>1. o + 1 = Width(l)
        BY <1>2, <1>17
    <2>2. Inside(p, ContentOf(l), blocks) /\ p.last_token_type = "STATEMENT_END"
        BY <1>17 DEF Within
    <2>3. Outside(q, Append(blocks, ContentOf(l))) /\ q.last_token_type = "END_BLOCK"
        BY <1>5, <1>6, <1>17, <2>2, TurnInside
    <2> QED BY <1>8, <2>1, <2>3
<1>18. o \in 0..2 \/ o = 3 \/ o = 4 \/ o = 5 \/ o = 6 \/ o = 7 \/ o = 8
    OBVIOUS
<1> QED BY <1>10, <1>11, <1>12, <1>13, <1>14, <1>15, <1>16, <1>17, <1>18

\* A sequence that is one longer is made by Append.
LEMMA AppendMakes ==
    ASSUME NEW m \in Nat, NEW s, IsSeq(s, m), NEW r, IsSeq(r, m + 1), \A k \in 1..m : r[k] = s[k]
    PROVE  Append(s, r[m + 1]) = r
<1> DEFINE x == r[m + 1]
           S == {s[i] : i \in 1..m} \cup {x}
           a == Append(s, x)
<1>1. s \in [1..m -> S] /\ x \in S
    BY DEF IsSeq
<1> HIDE DEF S, x
<1>2. s \in Seq(S) /\ Len(s) = m
    BY <1>1
<1>3. a \in Seq(S) /\ Len(a) = m + 1 /\ a[m + 1] = x /\ \A k \in 1..m : a[k] = s[k]
    BY <1>1, <1>2
<1> HIDE DEF a
<1>4. IsSeq(a, m + 1)
    BY <1>3 DEF IsSeq
<1>5. \A k \in 1..(m + 1) : a[k] = r[k]
    <2> TAKE k \in 1..(m + 1)
    <2>1. k \in 1..m \/ k = m + 1
        OBVIOUS
    <2> QED BY <1>3, <2>1 DEF x
<1>6. a = r
    BY <1>4, <1>5 DEF IsSeq
<1> QED BY <1>6 DEF a, x

\* The contents of one location more
LEMMA ContentsGrow ==
    ASSUME NEW config, NEW m \in Nat \ {0}
    PROVE  Append(Contents(config, m - 1), ContentOf(config.locations[m])) = Contents(config, m)
<1> DEFINE s == Contents(config, m - 1)
           r == Contents(config, m)
<1>1. IsSeq(s, m - 1) /\ IsSeq(r, (m - 1) + 1) /\ m - 1 \in Nat /\ (m - 1) + 1 = m
    BY DEF Contents, IsSeq
<1>2. \A k \in 1..(m - 1) : r[k] = s[k]
    BY DEF Contents
<1>3. r[m] = ContentOf(config.locations[m])
    BY DEF Contents
<1> HIDE DEF s, r
<1>4. Append(s, r[(m - 1) + 1]) = r
    BY <1>1, <1>2, AppendMakes
<1>5. Append(s, r[m]) = r
    BY <1>1, <1>4
<1> QED BY <1>3, <1>5 DEF s, r

\* What is known of the places of the tokens
LEMMA PlacesKnown ==
    ASSUME NEW config \in Layout, NEW toks, NEW g, TokensAre(toks, config, g)
    PROVE  /\ Len(config.locations) \in Nat /\ g[0] = 5
           /\ \A m \in 0..Len(config.locations) : g[m] \in Nat
           /\ \A m \in 1..Len(config.locations) :
                 /\ config.locations[m] \in Location
                 /\ g[m - 1] \in Nat /\ g[m] = g[m - 1] + Width(config.locations[m])
                 /\ HeaderAt(toks, g[m - 1], config.locations[m])
                 /\ BlockAt(toks, g[m - 1] + 4, config.locations[m])
           /\ PortAt(toks, 1, config)
           /\ Len(toks) = g[Len(config.locations)] - 1
<1>1. /\ Len(config.locations) \in Nat
      /\ \A m \in 1..Len(config.locations) : config.locations[m] \in Location
    BY LayoutFields
<1>2. \A m \in 1..Len(config.locations) : m - 1 \in 0..Len(config.locations)
    BY <1>1
<1>3. g \in [0..Len(config.locations) -> Nat]
    BY DEF TokensAre
<1> QED BY <1>1, <1>2, <1>3 DEF TokensAre

\* A turn of Parse, anywhere in a file that is written from a layout
LEMMA ParsingTurn ==
    ASSUME NEW config \in Layout, NEW toks, NEW g, TokensAre(toks, config, g),
           NEW p, NEW i, Parsing(config, g, p, i), NEW q, q = Turn(p, getToken(toks, i))
    PROVE  \/ q.result = "running" /\ Parsing(config, g, q, i + 1)
           \/ /\ q.result # "running"
              /\ q.config_blocks_content = Contents(config, Len(config.locations))
<1> DEFINE n == Len(config.locations)
           L(m) == config.locations[m]
           t == getToken(toks, i)
           Goal == \/ q.result = "running" /\ Parsing(config, g, q, i + 1)
                   \/ /\ q.result # "running"
                      /\ q.config_blocks_content = Contents(config, n)
<1>1. /\ n \in Nat /\ g[0] = 5 /\ \A m \in 0..n : g[m] \in Nat
      /\ \A m \in 1..n : /\ L(m) \in Location /\ g[m - 1] \in Nat /\ g[m] = g[m - 1] + Width(L(m))
                         /\ HeaderAt(toks, g[m - 1], L(m)) /\ BlockAt(toks, g[m - 1] + 4, L(m))
      /\ PortAt(toks, 1, config) /\ Len(toks) = g[n] - 1
    BY PlacesKnown
<1>2. /\ i = 1 => t.type = "NORMAL"
      /\ i = 2 => t.type = "NORMAL"
      /\ i = 3 => t.type = "STATEMENT_END"
      /\ i = 4 => t.type = "COMMENT"
    <2>1. 1 + 1 = 2 /\ 1 + 2 = 3 /\ 1 + 3 = 4
        OBVIOUS
    <2>2. /\ IsToken(toks, 1, "NORMAL", <<"port">>) /\ IsToken(toks, 2, "NORMAL", <<config.port>>)
          /\ IsToken(toks, 3, "STATEMENT_END", <<SC>>) /\ IsToken(toks, 4, "COMMENT", <<HASH, SP, SC>>)
        BY <1>1, <2>1 DEF PortAt
    <2> QED BY <2>2, GetIsToken
<1>3. q = Turn(p, t)
    OBVIOUS
\* Between two locations
<1>4. ASSUME NEW m \in 0..n, NEW r, Within(r, <<>>, 0, Contents(config, m))
      PROVE  Parsing(config, g, r, g[m])
    <2>1. CASE m = n
        BY <1>4, <2>1 DEF Parsing
    <2>2. CASE m < n
        <3>1. m + 1 \in 1..n /\ (m + 1) - 1 = m /\ 0 \in 0..8 /\ g[m] = g[m] + 0 /\ 0 < Width(L(m + 1))
            BY <1>1, <2>2 DEF Width
        <3>2. Within(r, L(m + 1), 0, Contents(config, m))
            BY <1>4 DEF Within
        <3>3. \E k \in 1..n, o \in 0..8 :
                 /\ g[m] = g[k - 1] + o /\ o < Width(L(k))
                 /\ Within(r, L(k), o, Contents(config, k - 1))
            BY <3>1, <3>2
        <3> QED BY <3>3 DEF Parsing
    <2> QED BY <1>1, <2>1, <2>2
<1>5. ASSUME NEW r, Outside(r, Contents(config, 0)),
             r.last_token_type \in {"STATEMENT_END", "END_BLOCK"}
      PROVE  Parsing(config, g, r, 5)
    <2>1. Within(r, <<>>, 0, Contents(config, 0)) /\ 0 \in 0..n
        BY <1>1, <1>5 DEF Within
    <2> QED BY <1>1, <1>4, <2>1
<1>6. Contents(config, 0) = <<>>
    BY DEF Contents
<1> HIDE DEF t
<1> SUFFICES Goal
    OBVIOUS
<1>7. ASSUME q.result = "running", Parsing(config, g, q, i + 1) PROVE Goal
    BY <1>7
<1>8. ASSUME NEW bs, Outside(q, bs) PROVE q.result = "running"
    BY <1>8 DEF Outside
<1>9. CASE i = 1 /\ p = StartState
    <2>1. Outside(p, <<>>) /\ p.last_token_type = "START"
        BY <1>9 DEF Outside, StartState, IsParser, IsSeq
    <2>2. Outside(q, <<>>) /\ q.last_token_type = "NORMAL"
        BY <1>2, <1>3, <1>9, <2>1, TurnOutside
    <2>3. Parsing(config, g, q, i + 1)
        BY <1>9, <2>2 DEF Parsing
    <2> QED BY <1>7, <1>8, <2>2, <2>3
<1>10. CASE i \in {2, 3} /\ Outside(p, <<>>) /\ p.last_token_type = "NORMAL"
    <2>1. CASE i = 2
        <3>1. Outside(q, <<>>) /\ q.last_token_type = "NORMAL"
            BY <1>2, <1>3, <1>10, <2>1, TurnOutside
        <3>2. Parsing(config, g, q, i + 1)
            BY <2>1, <3>1 DEF Parsing
        <3> QED BY <1>7, <1>8, <3>1, <3>2
    <2>2. CASE i = 3
        <3>1. Outside(q, <<>>) /\ q.last_token_type = "STATEMENT_END"
            BY <1>2, <1>3, <1>10, <2>2, TurnOutside
        <3>2. Parsing(config, g, q, i + 1)
            BY <2>2, <3>1 DEF Parsing
        <3> QED BY <1>7, <1>8, <3>1, <3>2
    <2> QED BY <1>10, <2>1, <2>2
<1>11. CASE i = 4 /\ Outside(p, <<>>) /\ p.last_token_type = "STATEMENT_END"
    <2>1. q = p
        BY <1>2, <1>3, <1>11, TurnOutside
    <2>2. Parsing(config, g, q, 5) /\ i + 1 = 5
        BY <1>5, <1>6, <1>11, <2>1
    <2> QED BY <1>7, <1>8, <1>11, <2>1, <2>2
<1>12. ASSUME NEW m \in 1..n, NEW o \in 0..8, i = g[m - 1] + o, o < Width(L(m)),
              Within(p, L(m), o, Contents(config, m - 1))
       PROVE  Goal
    <2> DEFINE j == g[m - 1]
               l == L(m)
               blocks == Contents(config, m - 1)
    <2>1. /\ q = Turn(p, getToken(toks, j + o)) /\ l \in Location /\ j \in Nat
          /\ g[m] = j + Width(l) /\ Width(l) \in Nat
          /\ HeaderAt(toks, j, l) /\ BlockAt(toks, j + 4, l) /\ i = j + o /\ o < Width(l)
          /\ Within(p, l, o, blocks)
        BY <1>1, <1>12 DEF Width
    <2>2. /\ q.result = "running"
          /\ \/ o + 1 < Width(L(m)) /\ o + 1 \in 0..8 /\ Within(q, L(m), o + 1, Contents(config, m - 1))
             \/ /\ o + 1 = Width(L(m))
                /\ Within(q, <<>>, 0, Append(Contents(config, m - 1), ContentOf(L(m))))
        <3> HIDE DEF j, l, blocks
        <3>1. /\ q.result = "running"
              /\ \/ o + 1 < Width(l) /\ o + 1 \in 0..8 /\ Within(q, l, o + 1, blocks)
                 \/ o + 1 = Width(l) /\ Within(q, <<>>, 0, Append(blocks, ContentOf(l)))
            BY <2>1, WithinTurn
        <3> QED BY <3>1 DEF l, blocks
    <2>3. CASE o + 1 < Width(L(m)) /\ o + 1 \in 0..8 /\ Within(q, L(m), o + 1, Contents(config, m - 1))
        <3>1. i + 1 = g[m - 1] + (o + 1)
            BY <1>1, <1>12
        <3>2. \E k \in 1..n, e \in 0..8 :
                 /\ i + 1 = g[k - 1] + e /\ e < Width(L(k))
                 /\ Within(q, L(k), e, Contents(config, k - 1))
            BY <2>3, <3>1
        <3>3. Parsing(config, g, q, i + 1)
            BY <3>2 DEF Parsing
        <3> QED BY <1>7, <2>2, <3>3
    <2>4. CASE /\ o + 1 = Width(L(m))
               /\ Within(q, <<>>, 0, Append(Contents(config, m - 1), ContentOf(L(m))))
        <3>1. i + 1 = g[m] /\ m \in 0..n /\ m \in Nat \ {0}
            <4>1. m \in 0..n /\ m \in Nat \ {0}
                BY <1>1
            <4>2. o + 1 = Width(l)
                BY <2>4
            <4> HIDE DEF j, l
            <4> QED BY <2>1, <4>1, <4>2
        <3>2. Within(q, <<>>, 0, Contents(config, m))
            BY <2>4, <3>1, ContentsGrow
        <3> QED BY <1>4, <1>7, <2>2, <3>1, <3>2
    <2> QED BY <2>2, <2>3, <2>4
<1>13. CASE i = g[n] /\ Within(p, <<>>, 0, Contents(config, n))
    <2>1. Outside(p, Contents(config, n)) /\ p.last_token_type \in {"STATEMENT_END", "END_BLOCK"}
        BY <1>13 DEF Within
    <2>2. t.type = "EOF"
        <3>1. ~(i <= Len(toks))
            BY <1>1, <1>13
        <3> QED BY <3>1 DEF t, getToken, EndToken
    <2>3. q.result = "true" /\ q.config_blocks_content = Contents(config, n)
        BY <1>3, <2>1, <2>2, TurnOutside
    <2> QED BY <2>3
<1> HIDE DEF Goal
<1> QED BY <1>9, <1>10, <1>11, <1>12, <1>13 DEF Parsing

\* Values that differ
LEMMA ValuesDiffer ==
    /\ <<SC>> # <<"location">> /\ <<RB>> # <<"location">> /\ <<LB>> # <<"location">>
    /\ <<LB>> # <<RB>> /\ <<SC>> # <<RB>>
    /\ <<HASH, SP, SC>> # <<"location">> /\ <<HASH, SP, SC>> # <<>>
    /\ \A w \in Words : <<w>> # <<SC>> /\ <<w>> # <<RB>> /\ <<w>> # <<>>
    /\ \A w : Quoted(w) # <<SC>> /\ Quoted(w) # <<RB>> /\ Quoted(w) # <<"location">> /\ Quoted(w) # <<>>
    /\ <<"root">> # <<"location">> /\ <<"proxy_pass">> # <<"location">> /\ <<"port">> # <<"location">>
    /\ <<SC>> # <<>> /\ <<RB>> # <<>> /\ <<LB>> # <<>>
<1>1. ASSUME NEW a, NEW b, a # b PROVE <<a>> # <<b>>
    BY <1>1
<1>2. ASSUME NEW a, NEW b, NEW c, NEW d PROVE <<a, b, c>> # <<d>> /\ <<a, b, c>> # <<>> /\ <<d>> # <<>>
    <2>1. Len(<<a, b, c>>) = 3 /\ Len(<<d>>) = 1 /\ Len(<<>>) = 0
        OBVIOUS
    <2> QED BY <2>1
<1>3. \A w \in Words : w # SC /\ w # RB
    BY WordsAssumption DEF Punctuation
<1>4. /\ SC # "location" /\ RB # "location" /\ LB # "location" /\ LB # RB /\ SC # RB
      /\ "root" # "location" /\ "proxy_pass" # "location" /\ "port" # "location"
    BY DEF SC, RB, LB
<1> QED BY <1>1, <1>2, <1>3, <1>4 DEF Quoted

\* The values in a location
ValueWithin(toks, l, j, o, v) ==
    /\ j + o <= Len(toks) /\ v # <<>>
    /\ o = 0 => v = <<"location">>
    /\ o = 1 => v = Quoted(l.prefix)
    /\ o = 2 => v = <<l.type>>
    /\ o = 3 => v = <<LB>>
    /\ o >= 3 => v # <<"location">>
    /\ l.type = "StaticHandler" => (o \in 4..6 => (v = <<SC>> <=> o = 6))
    /\ l.type # "StaticHandler" => (o \in 3..8 => (v = <<RB>> <=> o = Width(l) - 1))

\* Which value stands where
LEMMA LocationValues ==
    ASSUME NEW l \in Location, NEW toks, NEW j \in Nat, HeaderAt(toks, j, l),
           BlockAt(toks, j + 4, l), NEW o \in 0..8, o < Width(l), NEW v,
           v = getToken(toks, j + o).value
    PROVE  ValueWithin(toks, l, j, o, v)
<1> DEFINE Goal(x) == /\ j + o <= Len(toks) /\ x # <<>>
                      /\ o = 0 => x = <<"location">>
                      /\ o = 1 => x = Quoted(l.prefix)
                      /\ o = 2 => x = <<l.type>>
                      /\ o = 3 => x = <<LB>>
                      /\ o >= 3 => x # <<"location">>
                      /\ l.type = "StaticHandler" => (o \in 4..6 => (x = <<SC>> <=> o = 6))
                      /\ l.type # "StaticHandler" =>
                            (o \in 3..8 => (x = <<RB>> <=> o = Width(l) - 1))
<1>1. l.type \in Words /\ "root" \in Words /\ "proxy_pass" \in Words /\ "location" \in Words
    BY LocationWords, KeywordsAssumption
<1>0. /\ <<"location">> # <<>> /\ <<l.type>> # <<>>
      /\ \A w \in {"root", "proxy_pass"} :
            <<w>> # <<SC>> /\ <<w>> # <<RB>> /\ <<w>> # <<>> /\ <<w>> # <<"location">>
      /\ <<LB>> # <<"location">> /\ <<LB>> # <<RB>> /\ <<LB>> # <<>>
      /\ <<SC>> # <<"location">> /\ <<SC>> # <<RB>> /\ <<SC>> # <<>>
      /\ <<RB>> # <<"location">> /\ <<RB>> # <<>>
    BY <1>1, ValuesDiffer
<1>2. Width(l) = IF l.type = "StaticHandler" THEN 9 ELSE IF l.type = "ProxyHandler" THEN 8 ELSE 5
    BY DEF Width
<1>3. ASSUME NEW type, NEW value, IsToken(toks, j + o, type, value)
      PROVE  v = value /\ j + o <= Len(toks)
    BY <1>3, GetIsToken DEF IsToken
<1>4. /\ j + 0 = j
      /\ (j + 4) + 1 = j + 5 /\ (j + 4) + 2 = j + 6 /\ (j + 4) + 3 = j + 7 /\ (j + 4) + 4 = j + 8
    OBVIOUS
<1> SUFFICES Goal(v)
    BY Zenon DEF ValueWithin
<1>5. CASE o = 0
    <2>1. v = <<"location">> /\ j + o <= Len(toks)
        BY <1>3, <1>4, <1>5 DEF HeaderAt
    <2>2. v # <<>>
        BY <1>0, <2>1, Zenon
    <2>3. /\ ~(o = 1) /\ ~(o = 2) /\ ~(o = 3) /\ ~(o >= 3) /\ ~(o \in 4..6) /\ ~(o \in 3..8)
        BY <1>5
    <2> QED BY <2>1, <2>2, <2>3, Zenon
<1>6. CASE o = 1
    <2>1. v = Quoted(l.prefix) /\ j + o <= Len(toks)
        BY <1>3, <1>6 DEF HeaderAt
    <2> QED BY <1>6, <2>1, ValuesDiffer
<1>7. CASE o = 2
    <2>1. v = <<l.type>> /\ j + o <= Len(toks)
        BY <1>3, <1>7 DEF HeaderAt
    <2>2. v # <<>>
        BY <1>0, <2>1, Zenon
    <2>3. /\ ~(o = 0) /\ ~(o = 1) /\ ~(o = 3) /\ ~(o >= 3) /\ ~(o \in 4..6) /\ ~(o \in 3..8)
        BY <1>7
    <2> QED BY <2>1, <2>2, <2>3, Zenon
<1>8. CASE o = 3
    <2>1. v = <<LB>> /\ j + o <= Len(toks) /\ o # Width(l) - 1
        BY <1>2, <1>3, <1>8 DEF HeaderAt
    <2> QED BY <1>0, <1>8, <2>1
<1>9. CASE o > 3 /\ l.type = "StaticHandler"
    <2>1. /\ IsToken(toks, j + 4, "NORMAL", <<"root">>)
          /\ IsToken(toks, j + 5, "NORMAL", Quoted(l.arg))
          /\ IsToken(toks, j + 6, "STATEMENT_END", <<SC>>)
          /\ IsToken(toks, j + 7, "COMMENT", <<HASH, SP, SC>>)
          /\ IsToken(toks, j + 8, "END_BLOCK", <<RB>>)
        BY <1>4, <1>9 DEF BlockAt, StatementAt
    <2>2. CASE o = 4
        BY <1>0, <1>3, <1>9, <2>1, <2>2
    <2>3. CASE o = 5
        BY <1>3, <1>9, <2>1, <2>3, ValuesDiffer
    <2>4. CASE o = 6
        BY <1>0, <1>3, <1>9, <2>1, <2>4
    <2>5. CASE o = 7
        BY <1>3, <1>9, <2>1, <2>5, ValuesDiffer
    <2>6. CASE o = 8
        BY <1>3, <1>9, <2>1, <2>6, ValuesDiffer
    <2> QED BY <1>9, <2>2, <2>3, <2>4, <2>5, <2>6
<1>10. CASE o > 3 /\ l.type = "ProxyHandler"
    <2>1. /\ IsToken(toks, j + 4, "NORMAL", <<"proxy_pass">>)
          /\ IsToken(toks, j + 5, "NORMAL", Quoted(l.arg))
          /\ IsToken(toks, j + 6, "STATEMENT_END", <<SC>>)
          /\ IsToken(toks, j + 7, "END_BLOCK", <<RB>>)
        BY <1>4, <1>10 DEF BlockAt, StatementAt
    <2>2. CASE o = 4
        BY <1>0, <1>2, <1>3, <1>10, <2>1, <2>2
    <2>3. CASE o = 5
        BY <1>2, <1>3, <1>10, <2>1, <2>3, ValuesDiffer
    <2>4. CASE o = 6
        BY <1>0, <1>2, <1>3, <1>10, <2>1, <2>4
    <2>5. CASE o = 7
        BY <1>0, <1>2, <1>3, <1>10, <2>1, <2>5
    <2> QED BY <1>2, <1>10, <2>2, <2>3, <2>4, <2>5
<1>11. CASE o > 3 /\ l.type \notin {"StaticHandler", "ProxyHandler"}
    <2>1. IsToken(toks, j + 4, "END_BLOCK", <<RB>>) /\ o = 4
        BY <1>2, <1>11 DEF BlockAt
    <2> QED BY <1>0, <1>2, <1>3, <1>11, <2>1
<1>12. o = 0 \/ o = 1 \/ o = 2 \/ o = 3 \/ o > 3
    OBVIOUS
<1> HIDE DEF Goal
<1> QED BY <1>5, <1>6, <1>7, <1>8, <1>9, <1>10, <1>11, <1>12

\* The headers of one location more
LEMMA HeadsGrow ==
    ASSUME NEW config, NEW m \in Nat \ {0}
    PROVE  Append(Heads(config, m - 1),
                  Block(Quoted(config.locations[m].prefix), <<config.locations[m].type>>))
              = Heads(config, m)
<1> DEFINE s == Heads(config, m - 1)
           r == Heads(config, m)
<1>1. IsSeq(s, m - 1) /\ IsSeq(r, (m - 1) + 1) /\ m - 1 \in Nat /\ (m - 1) + 1 = m
    BY DEF Heads, IsSeq
<1>2. \A k \in 1..(m - 1) : r[k] = s[k]
    BY DEF Heads
<1>3. r[m] = Block(Quoted(config.locations[m].prefix), <<config.locations[m].type>>)
    BY DEF Heads
<1> HIDE DEF s, r
<1>4. Append(s, r[(m - 1) + 1]) = r
    BY <1>1, <1>2, AppendMakes
<1>5. Append(s, r[m]) = r
    BY <1>1, <1>4
<1> QED BY <1>3, <1>5 DEF s, r

\* Between two locations, and after the last one
LEMMA HeadingBetween ==
    ASSUME NEW config, NEW g, Len(config.locations) \in Nat,
           NEW m \in 0..Len(config.locations), NEW last, last # <<"location">>, NEW stop,
           NEW blocks, blocks = Heads(config, m), NEW i, i = g[m]
    PROVE  Heading(config, g, "headers", i, last, stop, blocks)
<1>1. CASE m = Len(config.locations)
    BY <1>1 DEF Heading
<1>2. CASE m < Len(config.locations)
    <2>1. m + 1 \in 1..Len(config.locations) /\ (m + 1) - 1 = m
        BY <1>2
    <2>2. \E k \in 1..Len(config.locations) :
             blocks = Heads(config, k - 1) /\ i = g[k - 1] /\ last # <<"location">>
        BY <2>1
    <2> QED BY <2>2 DEF Heading
<1> QED BY <1>1, <1>2

\* A step of the second pass within location m
LocationStep(config, g, m) ==
    \/ /\ phase = "headers" /\ config_blocks = Heads(config, m - 1)
       /\ \/ at = g[m - 1] /\ last_token # <<"location">>
          \/ at = g[m - 1] + 1 /\ last_token = <<"location">>
    \/ /\ config.locations[m].type = "StaticHandler" /\ config_blocks = Heads(config, m)
       /\ \/ phase = "skip" /\ until = <<SC>> /\ at \in (g[m - 1] + 4)..(g[m - 1] + 6)
          \/ /\ phase = "headers" /\ at \in (g[m - 1] + 7)..(g[m - 1] + 8)
             /\ last_token # <<"location">>
    \/ /\ config.locations[m].type # "StaticHandler" /\ config_blocks = Heads(config, m)
       /\ phase = "skip" /\ until = <<RB>> /\ at \in (g[m - 1] + 3)..(g[m] - 1)

\* Such a step stays within the location, or ends behind it.
LEMMA LocationKept ==
    ASSUME NEW config \in Layout, NEW g, TokensAre(tokens, config, g),
           NEW m \in 1..Len(config.locations), LocationStep(config, g, m),
           NextToken \/ LocationHeader \/ Skip
    PROVE  \/ LocationStep(config, g, m)'
           \/ /\ phase' = "headers" /\ at' = g[m] /\ last_token' # <<"location">>
              /\ config_blocks' = Heads(config, m)
<1> DEFINE j == g[m - 1]
           l == config.locations[m]
           w == Width(config.locations[m])
           e == g[m]
           heads == Heads(config, m)
           before == Heads(config, m - 1)
           here(p, i, last, stop, blocks) ==
               \/ /\ p = "headers" /\ blocks = before
                  /\ \/ i = j /\ last # <<"location">>
                     \/ i = j + 1 /\ last = <<"location">>
               \/ /\ l.type = "StaticHandler" /\ blocks = heads
                  /\ \/ p = "skip" /\ stop = <<SC>> /\ i \in (j + 4)..(j + 6)
                     \/ p = "headers" /\ i \in (j + 7)..(j + 8) /\ last # <<"location">>
               \/ /\ l.type # "StaticHandler" /\ blocks = heads
                  /\ p = "skip" /\ stop = <<RB>> /\ i \in (j + 3)..(e - 1)
           Goal == \/ here(phase', at', last_token', until', config_blocks')
                   \/ /\ phase' = "headers" /\ at' = e /\ last_token' # <<"location">>
                      /\ config_blocks' = heads
<1>1. /\ l \in Location /\ j \in Nat /\ g[m] = j + Width(l) /\ HeaderAt(tokens, j, l)
      /\ BlockAt(tokens, j + 4, l)
    BY PlacesKnown
<1>1a. w = Width(l)
    OBVIOUS
<1>2. j \in Nat /\ w \in 5..9 /\ e = j + w
    BY <1>1 DEF Width
<1>2a. l.type = "StaticHandler" => w = 9
    BY DEF Width
<1>3. here(phase, at, last_token, until, config_blocks)
    BY Zenon DEF LocationStep
<1>4. Append(before, Block(Quoted(l.prefix), <<l.type>>)) = heads
    <2>1. m \in Nat \ {0}
        BY PlacesKnown
    <2> QED BY <2>1, HeadsGrow
<1>5. SUFFICES Goal
    BY Zenon DEF LocationStep
<1>6. l.type \in HandlerTypes
    BY <1>1 DEF Location
<1> HIDE DEF j, l, heads, before, w, e
<1>7. ASSUME NEW o \in 0..8, o < w, at = j + o
      PROVE  /\ at <= Len(tokens) /\ Value(at) # <<>>
             /\ o = 0 => Value(at) = <<"location">>
             /\ o = 1 => Value(at) = Quoted(l.prefix)
             /\ o >= 3 => Value(at) # <<"location">>
             /\ l.type = "StaticHandler" => (o \in 4..6 => (Value(at) = <<SC>> <=> o = 6))
             /\ l.type # "StaticHandler" => (o \in 3..8 => (Value(at) = <<RB>> <=> o = w - 1))
    <2>1. Value(at) = getToken(tokens, j + o).value
        BY <1>7 DEF Value
    <2>2. ASSUME NEW v, v = getToken(tokens, j + o).value
          PROVE  /\ j + o <= Len(tokens) /\ v # <<>>
                 /\ o = 0 => v = <<"location">>
                 /\ o = 1 => v = Quoted(l.prefix)
                 /\ o >= 3 => v # <<"location">>
                 /\ l.type = "StaticHandler" => (o \in 4..6 => (v = <<SC>> <=> o = 6))
                 /\ l.type # "StaticHandler" => (o \in 3..8 => (v = <<RB>> <=> o = w - 1))
        <3>1. o < Width(l)
            BY <1>7, <1>1a
        <3>2. /\ j + o <= Len(tokens) /\ v # <<>>
              /\ o = 0 => v = <<"location">>
              /\ o = 1 => v = Quoted(l.prefix)
              /\ o >= 3 => v # <<"location">>
              /\ l.type = "StaticHandler" => (o \in 4..6 => (v = <<SC>> <=> o = 6))
              /\ l.type # "StaticHandler" => (o \in 3..8 => (v = <<RB>> <=> o = Width(l) - 1))
            <4>1. ValueWithin(tokens, l, j, o, v)
                BY <1>1, <2>2, <3>1, LocationValues
            <4> QED BY <4>1, Zenon DEF ValueWithin
        <3> QED BY <1>1a, <3>2, Zenon
    <2> QED BY <1>7, <2>1, <2>2, Zenon
\* The word location
<1>8. CASE phase = "headers" /\ config_blocks = before /\ at = j /\ last_token # <<"location">>
    <2>1. Value(at) = <<"location">>
        <3>1. 0 \in 0..8 /\ 0 < w /\ at = j + 0
            BY <1>1, <1>2, <1>8
        <3> QED BY <1>7, <3>1
    <2>2. phase' = phase /\ config_blocks' = config_blocks /\ last_token' = Value(at) /\ at' = at + 1
        BY <1>8 DEF NextToken, LocationHeader, Skip
    <2> QED BY <1>8, <2>1, <2>2
\* The prefix and the type
<1>9. CASE phase = "headers" /\ config_blocks = before /\ at = j + 1 /\ last_token = <<"location">>
    <2>1. Value(at) = Quoted(l.prefix)
        <3>1. 1 \in 0..8 /\ 1 < w
            BY <1>2
        <3> QED BY <1>7, <1>9, <3>1
    <2>2. Value(at + 1) = <<l.type>> /\ Value(at + 2) = <<LB>>
        <3>1. (j + 1) + 1 = j + 2 /\ (j + 1) + 2 = j + 3
            BY <1>1
        <3>2. IsToken(tokens, j + 2, "NORMAL", <<l.type>>) /\ IsToken(tokens, j + 3, "START_BLOCK", <<LB>>)
            BY <1>1 DEF HeaderAt
        <3> QED BY <1>9, <3>1, <3>2, GetIsToken DEF Value
    <2>3. IsListed(Value(at + 1)) <=> l.type # "StaticHandler"
        BY <1>6, <2>2 DEF IsListed, HandlerTypes, ListedTypes
    <2>4. LocationHeader
        BY <1>9 DEF NextToken, Skip
    <2>5. /\ phase' = "skip" /\ config_blocks' = Append(before, Block(Quoted(l.prefix), <<l.type>>))
          /\ \/ l.type # "StaticHandler" /\ until' = <<RB>> /\ at' = at + 2
             \/ l.type = "StaticHandler" /\ until' = <<SC>> /\ at' = at + 3
        BY <1>9, <2>1, <2>2, <2>3, <2>4 DEF LocationHeader
    <2>6. config_blocks' = heads
        BY <1>4, <2>5
    <2>7. at + 2 \in (j + 3)..(e - 1) /\ at + 3 \in (j + 4)..(j + 6)
        <3>1. at = j + 1
            BY <1>9
        <3> QED BY <1>2, <3>1
    <2> QED BY <2>5, <2>6, <2>7
\* Past the semicolon of a static location
<1>10. CASE /\ l.type = "StaticHandler" /\ config_blocks = heads /\ phase = "skip" /\ until = <<SC>>
            /\ at \in (j + 4)..(j + 6)
    <2>1. PICK o \in 4..6 : at = j + o
        <3>1. at - j \in 4..6 /\ at = j + (at - j)
            BY <1>1, <1>10
        <3> QED BY <3>1
    <2>2. at <= Len(tokens) /\ (Value(at) = until <=> o = 6)
        <3>1. o \in 0..8 /\ o < w
            BY <1>2a, <1>10
        <3> QED BY <1>7, <1>10, <2>1, <3>1
    <2>3. /\ config_blocks' = heads /\ until' = until
          /\ \/ Value(at) = until /\ phase' = "headers" /\ last_token' = <<SC>> /\ at' = at + 1
             \/ Value(at) # until /\ phase' = "skip" /\ at' = at + 1
        BY <1>10, <2>2 DEF NextToken, LocationHeader, Skip
    <2>4. CASE o = 6
        <3>1. at' \in (j + 7)..(j + 8)
            BY <1>1, <2>1, <2>2, <2>3, <2>4
        <3> QED BY <1>10, <2>2, <2>3, <2>4, <3>1, ValuesDiffer
    <2>5. CASE o # 6
        <3>1. at' \in (j + 4)..(j + 6)
            BY <1>1, <2>1, <2>2, <2>3, <2>5
        <3> QED BY <1>10, <2>2, <2>3, <2>5, <3>1
    <2> QED BY <2>4, <2>5
\* The rest of it
<1>11. CASE /\ l.type = "StaticHandler" /\ config_blocks = heads /\ phase = "headers"
            /\ at \in (j + 7)..(j + 8) /\ last_token # <<"location">>
    <2>1. PICK o \in 7..8 : at = j + o
        <3>1. at - j \in 7..8 /\ at = j + (at - j)
            BY <1>1, <1>11
        <3> QED BY <3>1
    <2>2. Value(at) # <<"location">>
        <3>1. o \in 0..8 /\ o < w /\ o >= 3
            BY <1>2a, <1>11
        <3> QED BY <1>7, <2>1, <3>1
    <2>3. /\ config_blocks' = heads /\ phase' = "headers" /\ last_token' = Value(at) /\ at' = at + 1
        BY <1>11 DEF NextToken, LocationHeader, Skip
    <2>4. at' \in (j + 7)..(j + 8) \/ at' = e
        <3>1. w = 9 /\ at' = at + 1
            BY <1>11, <1>2a, <2>3
        <3> QED BY <1>2, <2>1, <3>1
    <2> QED BY <1>11, <2>2, <2>3, <2>4
\* Past the brace of any other location
<1>12. CASE /\ l.type # "StaticHandler" /\ config_blocks = heads /\ phase = "skip" /\ until = <<RB>>
            /\ at \in (j + 3)..(e - 1)
    <2>1. PICK o \in 3..8 : at = j + o /\ o < w
        <3>0. at \in (j + 3)..(e - 1)
            BY <1>12
        <3>1. at - j \in 3..8 /\ at = j + (at - j) /\ at - j < w
            BY <1>2, <3>0
        <3> QED BY <3>1
    <2>2. at <= Len(tokens) /\ (Value(at) = until <=> o = w - 1)
        <3>1. o \in 0..8
            OBVIOUS
        <3> QED BY <1>7, <1>12, <2>1, <3>1
    <2>3. /\ config_blocks' = heads /\ until' = until
          /\ \/ Value(at) = until /\ phase' = "headers" /\ last_token' = <<RB>> /\ at' = at + 1
             \/ Value(at) # until /\ phase' = "skip" /\ at' = at + 1
        BY <1>12, <2>2 DEF NextToken, LocationHeader, Skip
    <2>4. CASE o = w - 1
        <3>1. at' = e
            <4>1. at' = at + 1
                BY <2>3
            <4> QED BY <1>2, <2>1, <2>4, <4>1
        <3> QED BY <2>2, <2>3, <2>4, <3>1, ValuesDiffer
    <2>5. CASE o # w - 1
        <3>1. at' \in (j + 3)..(e - 1)
            <4>1. at' = at + 1
                BY <2>2, <2>3, <2>5
            <4> QED BY <1>2, <2>1, <2>5, <4>1
        <3> QED BY <1>12, <2>2, <2>3, <2>5, <3>1
    <2> QED BY <2>4, <2>5
<1> HIDE DEF Goal
<1> QED BY <1>3, <1>8, <1>9, <1>10, <1>11, <1>12

\* A step of the second pass, anywhere in the file
LEMMA HeadingKept ==
    ASSUME NEW config \in Layout, NEW g, TokensAre(tokens, config, g),
           Heading(config, g, phase, at, last_token, until, config_blocks),
           NextToken \/ LocationHeader \/ Skip
    PROVE  Heading(config, g, phase', at', last_token', until', config_blocks')
<1> DEFINE n == Len(config.locations)
           Goal == Heading(config, g, phase', at', last_token', until', config_blocks')
<1> SUFFICES Goal
    OBVIOUS
<1>1. n \in Nat /\ g[0] = 5 /\ PortAt(tokens, 1, config) /\ Len(tokens) = g[n] - 1 /\ g[n] \in Nat
    BY PlacesKnown
<1>2. CASE phase = "headers" /\ at \in 1..4 /\ last_token # <<"location">> /\ config_blocks = <<>>
    <2>1. /\ phase' = "headers" /\ config_blocks' = <<>> /\ last_token' = Value(at) /\ at' = at + 1
        BY <1>2 DEF NextToken, LocationHeader, Skip
    <2>2. Value(at) # <<"location">>
        <3>1. 1 + 1 = 2 /\ 1 + 2 = 3 /\ 1 + 3 = 4
            OBVIOUS
        <3>2. /\ IsToken(tokens, 1, "NORMAL", <<"port">>) /\ IsToken(tokens, 2, "NORMAL", <<config.port>>)
              /\ IsToken(tokens, 3, "STATEMENT_END", <<SC>>)
              /\ IsToken(tokens, 4, "COMMENT", <<HASH, SP, SC>>)
            BY <1>1, <3>1 DEF PortAt
        <3>3. \A i, type, value : IsToken(tokens, i, type, value) => Value(i) = value
            BY GetIsToken DEF Value
        <3>4. <<config.port>> # <<"location">>
            <4>1. config.port # "location"
                BY KeywordsAssumption DEF Layout
            <4>2. ASSUME NEW a, NEW b, a # b PROVE <<a>> # <<b>>
                BY <4>2
            <4> QED BY <4>1, <4>2, Zenon
        <3>5. CASE at = 1
            BY <3>2, <3>3, <3>5, ValuesDiffer, Zenon
        <3>6. CASE at = 2
            BY <3>2, <3>3, <3>4, <3>6, Zenon
        <3>7. CASE at = 3
            BY <3>2, <3>3, <3>7, ValuesDiffer, Zenon
        <3>8. CASE at = 4
            BY <3>2, <3>3, <3>8, ValuesDiffer, Zenon
        <3> QED BY <1>2, <3>5, <3>6, <3>7, <3>8
    <2>3. CASE at = 4
        <3>1. at' = 5
            BY <2>1, <2>3
        <3>2. config_blocks' = Heads(config, 0) /\ 0 \in 0..n /\ at' = g[0]
            BY <1>1, <2>1, <3>1 DEF Heads
        <3> QED BY <1>1, <2>1, <2>2, <3>2, HeadingBetween
    <2>4. CASE at # 4
        <3>1. at' \in 1..4
            BY <1>2, <2>1, <2>4
        <3> QED BY <2>1, <2>2, <3>1 DEF Heading
    <2> QED BY <2>3, <2>4
<1>3. ASSUME phase = "headers", at = g[n] PROVE FALSE
    <2>1. ~(at <= Len(tokens))
        BY <1>1, <1>3
    <2>2. Value(at) = <<>>
        BY <2>1 DEF Value, getToken, EndToken
    <2> QED BY <1>3, <2>2 DEF NextToken, LocationHeader, Skip
<1>4. ASSUME NEW m \in 1..n, LocationStep(config, g, m) PROVE Goal
    <2>1. CASE LocationStep(config, g, m)'
        BY <2>1, Zenon DEF LocationStep, Heading
    <2>2. CASE /\ phase' = "headers" /\ at' = g[m] /\ last_token' # <<"location">>
               /\ config_blocks' = Heads(config, m)
        <3>1. m \in 0..n
            BY <1>1
        <3> QED BY <1>1, <2>2, <3>1, HeadingBetween
    <2> QED BY <1>4, <2>1, <2>2, LocationKept
<1>5. \/ phase = "headers" /\ at \in 1..4 /\ last_token # <<"location">> /\ config_blocks = <<>>
      \/ phase = "headers" /\ at = g[n]
      \/ \E m \in 1..n : LocationStep(config, g, m)
    BY Zenon DEF Heading, LocationStep
<1> HIDE DEF Goal
<1> QED BY <1>2, <1>3, <1>4, <1>5

\* The second pass ends with the headers of all locations, and each gets its content.
LEMMA ContentsPaired ==
    ASSUME NEW config \in Layout, NEW g, TokensAre(tokens, config, g),
           Heading(config, g, phase, at, last_token, until, config_blocks), PairContents,
           parser.config_blocks_content = Contents(config, Len(config.locations))
    PROVE  phase' = "listen" /\ config_blocks' = Blocks(config)
<1> DEFINE n == Len(config.locations)
           heads == Heads(config, n)
           contents == Contents(config, n)
<1>1. n \in Nat /\ g[0] = 5 /\ PortAt(tokens, 1, config)
    BY PlacesKnown
<1>2. phase = "headers" /\ Value(at) = <<>>
    BY DEF PairContents
<1>3. ASSUME at \in 1..4 PROVE FALSE
    <2>1. 1 + 1 = 2 /\ 1 + 2 = 3 /\ 1 + 3 = 4
        OBVIOUS
    <2>2. /\ IsToken(tokens, 1, "NORMAL", <<"port">>) /\ IsToken(tokens, 2, "NORMAL", <<config.port>>)
          /\ IsToken(tokens, 3, "STATEMENT_END", <<SC>>)
          /\ IsToken(tokens, 4, "COMMENT", <<HASH, SP, SC>>)
        BY <1>1, <2>1 DEF PortAt
    <2>3. \A i, type, value : IsToken(tokens, i, type, value) => Value(i) = value
        BY GetIsToken DEF Value
    <2>4. /\ <<"port">> # <<>> /\ <<config.port>> # <<>> /\ <<SC>> # <<>> /\ <<HASH, SP, SC>> # <<>>
        <3>1. ASSUME NEW a PROVE <<a>> # <<>>
            <4>1. Len(<<a>>) = 1 /\ Len(<<>>) = 0
                OBVIOUS
            <4> QED BY <4>1
        <3> QED BY <3>1, ValuesDiffer, Zenon
    <2>5. at = 1 \/ at = 2 \/ at = 3 \/ at = 4
        BY <1>3
    <2> QED BY <1>2, <2>2, <2>3, <2>4, <2>5, Zenon
<1>4. ASSUME NEW m \in 1..n, NEW o \in 0..8, o < Width(config.locations[m]), at = g[m - 1] + o
      PROVE  FALSE
    <2> DEFINE j == g[m - 1]
               l == config.locations[m]
               v == Value(at)
    <2>1. /\ l \in Location /\ j \in Nat /\ HeaderAt(tokens, j, l) /\ BlockAt(tokens, j + 4, l)
          /\ o < Width(l)
        BY <1>4, PlacesKnown
    <2>2. v = getToken(tokens, j + o).value
        BY <1>4 DEF Value
    <2> HIDE DEF j, l, v
    <2>3. ValueWithin(tokens, l, j, o, v)
        BY <2>1, <2>2, LocationValues
    <2> QED BY <1>2, <2>3, Zenon DEF ValueWithin, v
<1>5. config_blocks = heads
    <2>1. CASE at \in 1..4
        BY <1>3, <2>1
    <2>2. CASE config_blocks = heads
        BY <2>2
    <2>3. ASSUME NEW m \in 1..n,
                 \/ at = g[m - 1] \/ at = g[m - 1] + 1
                 \/ /\ config.locations[m].type = "StaticHandler"
                    /\ at \in (g[m - 1] + 7)..(g[m - 1] + 8)
          PROVE  FALSE
        <3>1. g[m - 1] \in Nat
            BY PlacesKnown
        <3>2. \E o \in 0..8 : o < Width(config.locations[m]) /\ at = g[m - 1] + o
            <4>1. CASE at = g[m - 1]
                BY <3>1, <4>1 DEF Width
            <4>2. CASE at = g[m - 1] + 1
                BY <3>1, <4>2 DEF Width
            <4>3. CASE /\ config.locations[m].type = "StaticHandler"
                       /\ at \in (g[m - 1] + 7)..(g[m - 1] + 8)
                <5>1. /\ at - g[m - 1] \in 0..8 /\ at - g[m - 1] < 9
                      /\ at = g[m - 1] + (at - g[m - 1])
                    <6>1. ASSUME NEW j \in Nat, at \in (j + 7)..(j + 8)
                          PROVE  at - j \in 0..8 /\ at - j < 9 /\ at = j + (at - j)
                        BY <6>1
                    <6> QED BY <3>1, <4>3, <6>1, Zenon
                <5>2. Width(config.locations[m]) = 9
                    BY <4>3 DEF Width
                <5> QED BY <5>1, <5>2
            <4> QED BY <2>3, <4>1, <4>2, <4>3
        <3> QED BY <1>4, <3>2
    <2> QED BY <1>2, <2>1, <2>2, <2>3 DEF Heading
<1>6. IsSeq(heads, n) /\ IsSeq(contents, n)
    BY <1>1 DEF IsSeq, Heads, Contents
<1>7. Len(heads) = n /\ Len(contents) = n
    BY <1>1, <1>6, SeqLen
<1>8. /\ \A i \in 1..n : heads[i] = Block(Quoted(config.locations[i].prefix), <<config.locations[i].type>>)
      /\ \A i \in 1..n : contents[i] = ContentOf(config.locations[i])
    BY DEF Heads, Contents
<1> HIDE DEF heads, contents
<1>9. phase' = "listen"
    <2>1. ~(Len(contents) > Len(heads))
        BY <1>1, <1>7
    <2> QED BY <1>5, <2>1 DEF PairContents, contents
<1>10. config_blocks' = [i \in 1..n |-> [heads[i] EXCEPT !.content = contents[i]]]
    <2>1. config_blocks' = [i \in 1..n |-> IF i <= n THEN [heads[i] EXCEPT !.content = contents[i]]
                                          ELSE heads[i]]
        BY <1>5, <1>7, Zenon DEF PairContents, contents
    <2>2. \A i \in 1..n : i <= n
        BY <1>1
    <2> QED BY <2>1, <2>2
<1>11. config_blocks' = Blocks(config)
    BY <1>8, <1>10 DEF Blocks
<1> QED BY <1>9, <1>11

-----------------------------------------------------------------------------
(* What createHandler reads in a block's text                              *)

\* Two texts behind one another
LEMMA Concatenated ==
    ASSUME NEW s \in Text, NEW t \in Text, NEW m \in Nat, NEW k \in Nat, Len(s) = m, Len(t) = k
    PROVE  /\ s \o t \in Text /\ Len(s \o t) = m + k
           /\ \A i \in 1..m : (s \o t)[i] = s[i]
           /\ \A i \in 1..k : (s \o t)[m + i] = t[i]
BY DEF Text

\* The empty text in front of another
LEMMA EmptyBefore ==
    ASSUME NEW s \in Text
    PROVE  <<>> \o s = s /\ <<>> \in Text
BY DEF Text

\* Two values with a blank between them
LEMMA TwoJoined ==
    ASSUME NEW a \in Text, NEW b \in Text
    PROVE  Joined(<<a, b>>) = (a \o <<SP>>) \o b
<1> DEFINE values == <<a, b>>
           n == Len(values)
           Fits(f) == f = [i \in 0..n |->
                              IF i = 0 THEN <<>>
                              ELSE f[i - 1] \o (IF i = 1 THEN <<>> ELSE <<SP>>) \o values[i]]
           h == [i \in 0..n |-> IF i = 0 THEN <<>> ELSE IF i = 1 THEN (<<>> \o <<>>) \o a
                                ELSE (((<<>> \o <<>>) \o a) \o <<SP>>) \o b]
<1>1. Joined(values) = (CHOOSE f : Fits(f))[n]
    BY Zenon DEF Joined
<1>2. n = 2 /\ values[1] = a /\ values[2] = b
    OBVIOUS
<1> HIDE DEF values, n
<1>3. Fits(h)
    <2>1. ASSUME NEW i \in 0..n
          PROVE  h[i] = IF i = 0 THEN <<>>
                        ELSE h[i - 1] \o (IF i = 1 THEN <<>> ELSE <<SP>>) \o values[i]
        <3>1. i = 0 \/ i = 1 \/ i = 2
            BY <1>2
        <3>2. 0 \in 0..n /\ 1 \in 0..n /\ 2 \in 0..n /\ 1 - 1 = 0 /\ 2 - 1 = 1
            BY <1>2
        <3> QED BY <1>2, <3>1, <3>2
    <2>2. h = [i \in 0..n |-> h[i]]
        OBVIOUS
    <2> HIDE DEF h
    <2> QED BY <2>1, <2>2
<1>4. PICK f : Fits(f) /\ Joined(values) = f[n]
    <2> HIDE DEF Fits
    <2> QED BY <1>1, <1>3, Zenon
<1>5. ASSUME NEW i \in 0..n
      PROVE  f[i] = IF i = 0 THEN <<>>
                    ELSE f[i - 1] \o (IF i = 1 THEN <<>> ELSE <<SP>>) \o values[i]
    BY <1>4, Zenon
<1>6. f[0] = <<>> /\ f[1] = (f[0] \o <<>>) \o a /\ f[2] = (f[1] \o <<SP>>) \o b
    <2>1. 0 \in 0..n /\ 1 \in 0..n /\ 2 \in 0..n /\ 1 - 1 = 0 /\ 2 - 1 = 1 /\ 1 # 0 /\ 2 # 0 /\ 2 # 1
        BY <1>2
    <2> QED BY <1>2, <1>5, <2>1
<1>7. (<<>> \o <<>>) \o a = a
    BY EmptyBefore
<1> QED BY <1>2, <1>4, <1>6, <1>7, Zenon DEF values

\* A block of one statement of two values
LEMMA OneStatement ==
    ASSUME NEW a \in Text, NEW b \in Text
    PROVE  ToString(<<StatementOf(<<a, b>>)>>) = (((a \o <<SP>>) \o b) \o <<SC>>) \o <<NL>>
<1> DEFINE s == StatementOf(<<a, b>>)
           statements == <<s>>
           n == Len(statements)
           text == StatementToString(s)
           Fits(f) == f = [i \in 0..n |->
                              IF i = 0 THEN <<>> ELSE f[i - 1] \o StatementToString(statements[i])]
           h == [i \in 0..n |-> IF i = 0 THEN <<>> ELSE <<>> \o text]
<1>1. ToString(statements) = (CHOOSE f : Fits(f))[n]
    BY Zenon DEF ToString
<1>2. n = 1 /\ statements[1] = s
    OBVIOUS
<1>3. text = (((a \o <<SP>>) \o b) \o <<SC>>) \o <<NL>>
    <2>1. s.tokens = <<a, b>> /\ ~s.block
        BY DEF StatementOf
    <2> HIDE DEF s
    <2> QED BY <2>1, TwoJoined, Zenon DEF StatementToString
<1>4. text \in Text
    <2>1. <<SP>> \in Text /\ <<SC>> \in Text /\ <<NL>> \in Text
        BY AllLexemes DEF Text
    <2>2. ASSUME NEW u \in Text, NEW v \in Text PROVE u \o v \in Text
        BY DEF Text
    <2> HIDE DEF text
    <2> QED BY <1>3, <2>1, <2>2
<1> HIDE DEF s, statements, n, text
<1>5. Fits(h)
    <2>1. ASSUME NEW i \in 0..n
          PROVE  h[i] = IF i = 0 THEN <<>> ELSE h[i - 1] \o StatementToString(statements[i])
        <3>1. i = 0 \/ i = 1
            BY <1>2
        <3>2. 0 \in 0..n /\ 1 \in 0..n /\ 1 - 1 = 0
            BY <1>2
        <3> QED BY <1>2, <3>1, <3>2 DEF text
    <2>2. h = [i \in 0..n |-> h[i]]
        OBVIOUS
    <2> HIDE DEF h
    <2> QED BY <2>1, <2>2
<1>6. PICK f : Fits(f) /\ ToString(statements) = f[n]
    <2> HIDE DEF Fits
    <2> QED BY <1>1, <1>5, Zenon
<1>7. ASSUME NEW i \in 0..n
      PROVE  f[i] = IF i = 0 THEN <<>> ELSE f[i - 1] \o StatementToString(statements[i])
    BY <1>6, Zenon
<1>8. f[0] = <<>> /\ f[1] = f[0] \o text
    <2>1. 0 \in 0..n /\ 1 \in 0..n /\ 1 - 1 = 0 /\ 1 # 0
        BY <1>2
    <2> QED BY <1>2, <1>7, <2>1 DEF text
<1>9. <<>> \o text = text
    BY <1>4, EmptyBefore
<1>10. ToString(statements) = text
    BY <1>2, <1>6, <1>8, <1>9, Zenon
<1> QED BY <1>3, <1>10, Zenon DEF statements, s

\* The text of a static location's block, lexeme by lexeme
Spells(text, a, w) ==
    /\ text \in Text /\ Len(text) = 7
    /\ text[1] = a /\ text[2] = SP /\ text[3] = DQ /\ text[4] = w /\ text[5] = DQ
    /\ text[6] = SC /\ text[7] = NL

\* It is spelt like this.
LEMMA RootText ==
    ASSUME NEW a \in Words, NEW w \in Words
    PROVE  Spells((((<<a>> \o <<SP>>) \o Quoted(w)) \o <<SC>>) \o <<NL>>, a, w)
<1> DEFINE s1 == <<a>> \o <<SP>>
           q  == Quoted(w)
           s2 == s1 \o q
           s3 == s2 \o <<SC>>
           s4 == s3 \o <<NL>>
<1>1. ASSUME NEW x \in Lexemes PROVE <<x>> \in Text /\ Len(<<x>>) = 1 /\ <<x>>[1] = x
    BY DEF Text
<1>2. a \in Lexemes /\ w \in Lexemes
    BY AllLexemes
<1>3. q \in Text /\ Len(q) = 3 /\ q[1] = DQ /\ q[2] = w /\ q[3] = DQ
    BY <1>2, AllLexemes DEF Text, Quoted
<1> HIDE DEF q
<1>4. ASSUME NEW s \in Text, NEW m \in Nat, Len(s) = m, NEW x \in Lexemes
      PROVE  /\ s \o <<x>> \in Text /\ Len(s \o <<x>>) = m + 1 /\ (s \o <<x>>)[m + 1] = x
             /\ \A i \in 1..m : (s \o <<x>>)[i] = s[i]
    <2> DEFINE t == <<x>>
    <2>1. t \in Text /\ Len(t) = 1 /\ t[1] = x
        BY <1>1
    <2> HIDE DEF t
    <2>2. /\ s \o t \in Text /\ Len(s \o t) = m + 1 /\ (s \o t)[m + 1] = t[1]
          /\ \A i \in 1..m : (s \o t)[i] = s[i]
        <3>1. 1 \in Nat /\ 1 \in 1..1
            OBVIOUS
        <3>2. /\ s \o t \in Text /\ Len(s \o t) = m + 1
              /\ \A i \in 1..m : (s \o t)[i] = s[i]
              /\ \A i \in 1..1 : (s \o t)[m + i] = t[i]
            <4>1. ASSUME NEW k \in Nat, Len(t) = k
                  PROVE  /\ s \o t \in Text /\ Len(s \o t) = m + k
                         /\ \A i \in 1..m : (s \o t)[i] = s[i]
                         /\ \A i \in 1..k : (s \o t)[m + i] = t[i]
                BY <1>4, <2>1, <4>1, Concatenated
            <4> QED BY <2>1, <3>1, <4>1, Zenon
        <3> QED BY <3>1, <3>2, Zenon
    <2> QED BY <2>1, <2>2 DEF t
<1>5. s1 \in Text /\ Len(s1) = 2 /\ s1[1] = a /\ s1[2] = SP
    <2>1. /\ s1 \in Text /\ Len(s1) = 1 + 1 /\ s1[1 + 1] = SP
          /\ \A i \in 1..1 : s1[i] = <<a>>[i]
        <3>1. 1 \in Nat
            OBVIOUS
        <3> QED BY <1>1, <1>2, <1>4, <3>1, AllLexemes, Zenon
    <2>2. 1 + 1 = 2 /\ 1 \in 1..1
        OBVIOUS
    <2> HIDE DEF s1
    <2> QED BY <1>1, <1>2, <2>1, <2>2
<1> HIDE DEF s1
<1>6. /\ s2 \in Text /\ Len(s2) = 5 /\ s2[1] = a /\ s2[2] = SP
      /\ s2[3] = DQ /\ s2[4] = w /\ s2[5] = DQ
    <2>1. /\ s2 \in Text /\ Len(s2) = 2 + 3
          /\ \A i \in 1..2 : s2[i] = s1[i]
          /\ \A i \in 1..3 : s2[2 + i] = q[i]
        <3>1. 2 \in Nat /\ 3 \in Nat
            OBVIOUS
        <3> QED BY <1>3, <1>5, <3>1, Concatenated, Zenon
    <2>2. 2 + 3 = 5 /\ 2 + 1 = 3 /\ 2 + 2 = 4 /\ 1 \in 1..2 /\ 2 \in 1..2
        OBVIOUS
    <2>3. 1 \in 1..3 /\ 2 \in 1..3 /\ 3 \in 1..3
        OBVIOUS
    <2> HIDE DEF s2
    <2> QED BY <1>3, <1>5, <2>1, <2>2, <2>3
<1> HIDE DEF s2
<1>7. s3 \in Text /\ Len(s3) = 6 /\ s3[6] = SC /\ \A i \in 1..5 : s3[i] = s2[i]
    <2>1. s3 \in Text /\ Len(s3) = 5 + 1 /\ s3[5 + 1] = SC /\ \A i \in 1..5 : s3[i] = s2[i]
        <3>1. 5 \in Nat
            OBVIOUS
        <3> QED BY <1>4, <1>6, <3>1, AllLexemes, Zenon
    <2>2. 5 + 1 = 6
        OBVIOUS
    <2> HIDE DEF s3
    <2> QED BY <2>1, <2>2
<1> HIDE DEF s3
<1>8. s4 \in Text /\ Len(s4) = 7 /\ s4[7] = NL /\ \A i \in 1..6 : s4[i] = s3[i]
    <2>1. s4 \in Text /\ Len(s4) = 6 + 1 /\ s4[6 + 1] = NL /\ \A i \in 1..6 : s4[i] = s3[i]
        <3>1. 6 \in Nat
            OBVIOUS
        <3> QED BY <1>4, <1>7, <3>1, AllLexemes, Zenon
    <2>2. 6 + 1 = 7
        OBVIOUS
    <2> HIDE DEF s4
    <2> QED BY <2>1, <2>2
<1>9. (((<<a>> \o <<SP>>) \o Quoted(w)) \o <<SC>>) \o <<NL>> = s4
    BY Zenon DEF s1, q, s2, s3
<1> HIDE DEF s4
<1>10. /\ 1 \in 1..5 /\ 2 \in 1..5 /\ 3 \in 1..5 /\ 4 \in 1..5 /\ 5 \in 1..5
       /\ \A i \in 1..5 : i \in 1..6
       /\ 6 \in 1..6
    OBVIOUS
<1>11. (\A i \in 1..5 : s4[i] = s2[i]) /\ s4[6] = SC
    BY <1>7, <1>8, <1>10, Zenon
<1>12. /\ s4[1] = a /\ s4[2] = SP /\ s4[3] = DQ /\ s4[4] = w /\ s4[5] = DQ
    BY <1>6, <1>10, <1>11, Zenon
<1>13. Spells(s4, a, w)
    BY <1>8, <1>11, <1>12, Zenon DEF Spells
<1> QED BY <1>9, <1>13, Zenon

\* The root that is found in it
LEMMA RootFound ==
    ASSUME NEW l \in Location, l.type = "StaticHandler", NEW text, text = ToString(ContentOf(l))
    PROVE  /\ ~HasNoRoot(text) => l.arg \in DOMAIN FromSlash
           /\ l.arg \in DOMAIN FromSlash => Root(text) = <<FromSlash[l.arg]>>
<1>1. l.arg \in Words /\ "root" \in Words
    BY KeywordsAssumption DEF Location
<1>2. ContentOf(l) = <<StatementOf(<<<<"root">>, Quoted(l.arg)>>)>>
    BY DEF ContentOf, HasBody, Keyword
<1>3. <<"root">> \in Text /\ Quoted(l.arg) \in Text
    BY <1>1, AllLexemes DEF Text, Quoted
<1>4. text = (((<<"root">> \o <<SP>>) \o Quoted(l.arg)) \o <<SC>>) \o <<NL>>
    BY <1>2, <1>3, OneStatement
<1>5. /\ text \in Text /\ Len(text) = 7
      /\ text[1] = "root" /\ text[2] = SP /\ text[3] = DQ /\ text[4] = l.arg /\ text[5] = DQ
      /\ text[6] = SC /\ text[7] = NL
    <2>1. Spells(text, "root", l.arg)
        BY <1>1, <1>4, RootText, Zenon
    <2> QED BY <2>1, Zenon DEF Spells
<1>6. SP \notin Words /\ DQ \notin Words /\ SC \notin Words /\ NL \notin Words
    BY WordsAssumption DEF Punctuation, Blanks
<1>7. DOMAIN FromSlash \subseteq Words /\ "root" \notin DOMAIN FromSlash
    BY FilesAssumption, KeywordsAssumption
<1>8. DOMAIN text = 1..7
    <2>1. DOMAIN text = 1..Len(text)
        BY <1>5 DEF Text
    <2> QED BY <1>5, <2>1
<1>9. \A i \in 1..7 : text[i] \in DOMAIN FromSlash => i = 4
    <2>1. \A i \in 1..7 : i = 1 \/ i = 2 \/ i = 3 \/ i = 4 \/ i = 5 \/ i = 6 \/ i = 7
        OBVIOUS
    <2> QED BY <1>5, <1>6, <1>7, <2>1
<1>10. ~HasNoRoot(text) => l.arg \in DOMAIN FromSlash
    BY <1>5, <1>8, <1>9 DEF HasNoRoot
<1>11. ASSUME l.arg \in DOMAIN FromSlash PROVE Root(text) = <<FromSlash[l.arg]>>
    <2>1. First(text, 1, DOMAIN FromSlash) = 4
        <3> DEFINE hits == {k \in 1..Len(text) : text[k] \in DOMAIN FromSlash}
        <3>1. hits = {4}
            <4>1. 4 \in 1..7 /\ 1..Len(text) = 1..7
                BY <1>5
            <4> QED BY <1>5, <1>9, <1>11, <4>1
        <3>2. (CHOOSE k \in {4} : \A j \in {4} : k <= j) = 4
            OBVIOUS
        <3>3. First(text, 1, DOMAIN FromSlash) = (CHOOSE k \in hits : \A j \in hits : k <= j)
            BY <3>1, Zenon DEF First
        <3> QED BY <3>1, <3>2, <3>3, Zenon
    <2>2. Len(text) - 2 = 5 /\ 4 + 1 = 5 /\ 5 - 1 = 4
        BY <1>5
    <2>3. Root(text) = <<FromSlash[text[4]]>> \o SubSeq(text, 5, 4)
        BY <1>5, <1>6, <2>1, <2>2 DEF Root
    <2>4. SubSeq(text, 5, 4) = <<>>
        BY <1>5 DEF Text
    <2>5. ASSUME NEW x PROVE <<x>> \o <<>> = <<x>>
        <3>1. <<x>> \in Seq({x})
            OBVIOUS
        <3> QED BY <3>1
    <2> QED BY <1>5, <2>3, <2>4, <2>5, Zenon
<1> QED BY <1>10, <1>11

\* The keys and the addresses: the quotes are left out.
LEMMA KeyFound ==
    ASSUME NEW w \in DOMAIN SegmentsOf
    PROVE  LocationKey(Quoted(w)) = SegmentsOf[w]
<1> DEFINE q == Quoted(w)
<1>1. w \in Lexemes
    BY FilesAssumption, AllLexemes
<1>2. q \in Text /\ Len(q) = 3 /\ q[1] = DQ /\ q[2] = w /\ q[3] = DQ
    BY <1>1, AllLexemes DEF Quoted, Text
<1> HIDE DEF q
<1>3. DQ \in Punctuation
    BY DEF Punctuation
<1>4. Unquoted(q) = SubSeq(q, 2, 2)
    BY <1>2, <1>3 DEF Unquoted
<1>5. SubSeq(q, 2, 2) \in Text /\ Len(SubSeq(q, 2, 2)) = 1 /\ SubSeq(q, 2, 2)[1] = w
    BY <1>2 DEF Text
<1>6. Unquoted(q) # <<>>
    <2>1. ASSUME NEW u, Len(u) = 1 PROVE u # <<>>
        <3>1. Len(<<>>) = 0
            OBVIOUS
        <3> QED BY <2>1, <3>1
    <2> QED BY <1>4, <1>5, <2>1, Zenon
<1>7. LocationKey(q) = SegmentsOf[w]
    BY <1>4, <1>5, <1>6 DEF LocationKey
<1> QED BY <1>7 DEF q

\* The address of a proxy is found without its quotes.
LEMMA AddressFound ==
    ASSUME NEW l \in Location, l.type = "ProxyHandler"
    PROVE  ProxyPass(ContentOf(l)) = <<l.arg>>
<1> DEFINE q == Quoted(l.arg)
           word == <<"proxy_pass">>
           s == StatementOf(<<word, q>>)
           content == <<s>>
<1>1. l.arg \in Words
    BY DEF Location
<1>2. ContentOf(l) = content
    BY DEF ContentOf, HasBody, Keyword
<1>3. q \in Text /\ Len(q) = 3 /\ q[1] = DQ /\ q[2] = l.arg /\ q[3] = DQ /\ l.arg # DQ
    <2>1. l.arg \in Lexemes /\ l.arg # DQ
        BY <1>1, AllLexemes, WordsAssumption DEF Punctuation
    <2> QED BY <2>1, AllLexemes DEF Quoted, Text
<1> HIDE DEF q
<1>4. Len(s.tokens) = 2 /\ s.tokens[1] = <<"proxy_pass">> /\ s.tokens[2] = q
    <2> HIDE DEF word
    <2>1. s.tokens = <<word, q>>
        BY DEF StatementOf
    <2>2. ASSUME NEW a, NEW b, NEW t, t = <<a, b>> PROVE Len(t) = 2 /\ t[1] = a /\ t[2] = b
        BY <2>2
    <2> HIDE DEF s
    <2>3. Len(s.tokens) = 2 /\ s.tokens[1] = word /\ s.tokens[2] = q
        BY <2>1, <2>2
    <2> QED BY <2>3 DEF word
<1> HIDE DEF s
<1>5. DOMAIN content = {1} /\ content[1] = s
    OBVIOUS
<1> HIDE DEF content
<1> DEFINE hits == {i \in DOMAIN content : /\ content[i].tokens[1] = <<"proxy_pass">>
                                           /\ Len(content[i].tokens) >= 2}
<1>6. hits = {1}
    <2>1. 2 >= 2
        OBVIOUS
    <2> QED BY <1>4, <1>5, <2>1
<1>7. (CHOOSE i \in {1} : \A j \in {1} : i <= j) = 1
    OBVIOUS
<1>8. ProxyPass(content) = Trimmed(content[CHOOSE i \in hits : \A j \in hits : i <= j].tokens[2])
    BY <1>6, Zenon DEF ProxyPass
<1>9. ProxyPass(content) = Trimmed(q)
    BY <1>4, <1>5, <1>6, <1>7, <1>8, Zenon
<1> DEFINE inner == {i \in DOMAIN q : q[i] # DQ}
<1>10. inner = {2}
    <2>1. DOMAIN q = 1..3
        <3>1. DOMAIN q = 1..Len(q)
            BY <1>3 DEF Text
        <3> QED BY <1>3, <3>1
    <2>2. \A i \in 1..3 : i = 1 \/ i = 2 \/ i = 3
        OBVIOUS
    <2>3. 2 \in 1..3
        OBVIOUS
    <2> QED BY <1>3, <2>1, <2>2, <2>3
<1>11. /\ (CHOOSE i \in {2} : \A j \in {2} : i <= j) = 2
       /\ (CHOOSE i \in {2} : \A j \in {2} : i >= j) = 2
    OBVIOUS
<1>12. Trimmed(q) = SubSeq(q, CHOOSE i \in inner : \A j \in inner : i <= j,
                              CHOOSE i \in inner : \A j \in inner : i >= j)
    BY <1>10, Zenon DEF Trimmed
<1>13. Trimmed(q) = SubSeq(q, 2, 2)
    BY <1>10, <1>11, <1>12, Zenon
<1>14. SubSeq(q, 2, 2) = <<l.arg>>
    <2>1. SubSeq(q, 2, 2) \in Text /\ Len(SubSeq(q, 2, 2)) = 1 /\ SubSeq(q, 2, 2)[1] = l.arg
        <3>1. SubSeq(q, 2, 2) \in Text /\ Len(SubSeq(q, 2, 2)) = 1 /\ SubSeq(q, 2, 2)[1] = q[2]
            <4>1. ASSUME NEW a \in Nat, a >= 1, a <= Len(q)
                  PROVE  SubSeq(q, a, a) \in Text /\ Len(SubSeq(q, a, a)) = 1 /\ SubSeq(q, a, a)[1] = q[a]
                <5>1. q \in Text
                    BY <1>3
                <5> QED BY <4>1, <5>1 DEF Text
            <4>2. 2 \in Nat /\ 2 >= 1 /\ 2 <= Len(q)
                BY <1>3
            <4> QED BY <4>1, <4>2, Zenon
        <3> QED BY <1>3, <3>1, Zenon
    <2>2. ASSUME NEW u \in Text, Len(u) = 1 PROVE u = <<u[1]>>
        BY <2>2 DEF Text
    <2> QED BY <2>1, <2>2, Zenon
<1> QED BY <1>2, <1>9, <1>13, <1>14, Zenon

\* Different paths make different keys.
LEMMA QuotedDiffer ==
    ASSUME NEW v, NEW w, Quoted(v) = Quoted(w)
    PROVE  v = w
<1>1. Quoted(v)[2] = v /\ Quoted(w)[2] = w
    BY DEF Quoted
<1> QED BY <1>1

\* One handler more
LEMMA HandlersGrow ==
    ASSUME NEW config, NEW m \in Nat \ {0}, NEW map, HandlersMade(config, m - 1, map),
           NEW new, new = Put(map, Quoted(config.locations[m].prefix), HandlerOf(config.locations[m]))
    PROVE  HandlersMade(config, m, new)
<1> DEFINE P(i) == Quoted(config.locations[i].prefix)
           key == P(m)
           Keys(k) == {P(i) : i \in 1..k}
<1>1. DOMAIN map = Keys(m - 1)
    BY DEF HandlersMade
<1>2. 1..m = (1..(m - 1)) \cup {m}
    OBVIOUS
<1>3. Keys(m) = Keys(m - 1) \cup {key}
    BY <1>2, Zenon
<1>4. new = [k \in DOMAIN map \cup {key} |-> IF k = key THEN HandlerOf(config.locations[m]) ELSE map[k]]
    BY Zenon DEF Put
<1>5. DOMAIN new = Keys(m) /\ new = [k \in Keys(m) |-> new[k]]
    BY <1>1, <1>3, <1>4
<1>6. new[key] = HandlerOf(config.locations[m])
    BY <1>4, Zenon
<1>7. ASSUME NEW i \in 1..m,
             \A j \in (i + 1)..m : config.locations[j].prefix # config.locations[i].prefix
      PROVE  new[P(i)] = HandlerOf(config.locations[i])
    <2>1. CASE i = m
        BY <1>6, <2>1
    <2>2. CASE i # m
        <3>1. i \in 1..(m - 1) /\ m \in (i + 1)..m
            BY <2>2
        <3>2. config.locations[m].prefix # config.locations[i].prefix
            BY <1>7, <3>1
        <3>3. P(i) # key
            BY <3>2, QuotedDiffer
        <3>4. \A j \in (i + 1)..(m - 1) : j \in (i + 1)..m
            OBVIOUS
        <3>5. map[P(i)] = HandlerOf(config.locations[i])
            BY <1>7, <3>1, <3>4 DEF HandlersMade
        <3>6. P(i) \in DOMAIN map
            BY <1>1, <3>1
        <3> QED BY <1>4, <3>3, <3>5, <3>6
    <2> QED BY <2>1, <2>2
<1> QED BY <1>5, <1>7 DEF HandlersMade

\* One root more, or none
LEMMA RootsGrow ==
    ASSUME NEW config, NEW m \in Nat \ {0}, NEW roots, RootsMade(config, m - 1, roots),
           \A i \in 1..m : config.locations[i].prefix \in DOMAIN SegmentsOf, NEW new,
           \/ ~IsStaticAt(config, m) /\ new = roots
           \/ /\ IsStaticAt(config, m)
              /\ new = Put(roots, SegmentsOf[config.locations[m].prefix],
                           <<FromSlash[config.locations[m].arg]>>)
    PROVE  RootsMade(config, m, new)
<1> DEFINE P(i) == config.locations[i].prefix
           key == SegmentsOf[P(m)]
           root == <<FromSlash[config.locations[m].arg]>>
<1>1. 1..m = (1..(m - 1)) \cup {m} /\ m \in 1..m
    OBVIOUS
<1>2. ASSUME NEW dir
      PROVE  /\ IsStaticAt(config, m) => RootAt(new, dir) = IF dir = key THEN root ELSE RootAt(roots, dir)
             /\ ~IsStaticAt(config, m) => RootAt(new, dir) = RootAt(roots, dir)
    <2>1. CASE IsStaticAt(config, m)
        <3>1. new = [k \in DOMAIN roots \cup {key} |-> IF k = key THEN root ELSE roots[k]]
            BY <2>1, Zenon DEF Put
        <3> HIDE DEF key, root
        <3> QED BY <2>1, <3>1 DEF RootAt
    <2>2. CASE ~IsStaticAt(config, m)
        BY <2>2
    <2> QED BY <2>1, <2>2
<1>3. ASSUME NEW i \in 1..m, IsStaticAt(config, i),
             \A j \in (i + 1)..m : IsStaticAt(config, j) => P(j) # P(i)
      PROVE  RootAt(new, SegmentsOf[P(i)]) = <<FromSlash[config.locations[i].arg]>>
    <2>1. CASE i = m
        BY <1>2, <1>3, <2>1
    <2>2. CASE i # m
        <3>1. i \in 1..(m - 1) /\ m \in (i + 1)..m
            BY <2>2
        <3>2. \A j \in (i + 1)..(m - 1) : j \in (i + 1)..m
            OBVIOUS
        <3>3. RootAt(roots, SegmentsOf[P(i)]) = <<FromSlash[config.locations[i].arg]>>
            BY <1>3, <3>1, <3>2 DEF RootsMade
        <3>4. IsStaticAt(config, m) => SegmentsOf[P(i)] # key
            BY <1>1, <1>3, <3>1, FilesAssumption
        <3> QED BY <1>2, <3>3, <3>4
    <2> QED BY <2>1, <2>2
<1>4. ASSUME NEW dir, RootAt(new, dir) # <<>>
      PROVE  \E i \in 1..m : IsStaticAt(config, i) /\ dir = SegmentsOf[P(i)]
    <2>1. CASE IsStaticAt(config, m) /\ dir = key
        BY <1>1, <2>1
    <2>2. CASE RootAt(new, dir) = RootAt(roots, dir)
        <3>1. \E i \in 1..(m - 1) : IsStaticAt(config, i) /\ dir = SegmentsOf[P(i)]
            BY <1>4, <2>2 DEF RootsMade
        <3> QED BY <1>1, <3>1
    <2> QED BY <1>2, <2>1, <2>2
<1> QED BY <1>3, <1>4 DEF RootsMade

\* The fields of the blocks
LEMMA BlocksKnown ==
    ASSUME NEW config \in Layout
    PROVE  /\ Len(Blocks(config)) = Len(config.locations) /\ Len(config.locations) \in Nat
           /\ \A i \in 1..Len(config.locations) :
                 /\ Blocks(config)[i].prefix = Quoted(config.locations[i].prefix)
                 /\ Blocks(config)[i].handler_type = <<config.locations[i].type>>
                 /\ Blocks(config)[i].content = ContentOf(config.locations[i])
<1> DEFINE n == Len(config.locations)
<1>1. n \in Nat
    BY LayoutFields
<1>2. IsSeq(Blocks(config), n)
    BY <1>1 DEF IsSeq, Blocks
<1>3. Len(Blocks(config)) = n
    BY <1>1, <1>2, SeqLen
<1>4. ASSUME NEW i \in 1..n
      PROVE  Blocks(config)[i] =
                [Block(Quoted(config.locations[i].prefix), <<config.locations[i].type>>) EXCEPT
                    !.content = ContentOf(config.locations[i])]
    BY DEF Blocks
<1>5. ASSUME NEW i \in 1..n
      PROVE  /\ Blocks(config)[i].prefix = Quoted(config.locations[i].prefix)
             /\ Blocks(config)[i].handler_type = <<config.locations[i].type>>
             /\ Blocks(config)[i].content = ContentOf(config.locations[i])
    <2> DEFINE p == Quoted(config.locations[i].prefix)
               t == <<config.locations[i].type>>
               c == ContentOf(config.locations[i])
               b == Blocks(config)[i]
    <2>1. b = [Block(p, t) EXCEPT !.content = c]
        BY <1>4
    <2> HIDE DEF p, t, c, b
    <2>2. b.prefix = p /\ b.handler_type = t /\ b.content = c
        BY <2>1 DEF Block
    <2> QED BY <2>2 DEF p, t, c, b
<1> QED BY <1>1, <1>3, <1>5

\* Every call of createHandler makes the handler of one location, or throws.
LEMMA HandlerIsMade ==
    ASSUME NEW config \in Layout, config_blocks = Blocks(config), at \in Nat \ {0}, CreateHandler,
           HandlersMade(config, at - 1, handlers_tackers), RootsMade(config, at - 1, locationToRoot)
    PROVE  \/ phase' = "exception"
           \/ /\ phase' = "handlers" /\ at' = at + 1 /\ at <= Len(config.locations)
              /\ HandlersMade(config, at, handlers_tackers')
              /\ RootsMade(config, at, locationToRoot')
<1> DEFINE n == Len(config.locations)
           l == config.locations[at]
           block == config_blocks[at]
           type  == IF Len(block.handler_type) = 1 THEN block.handler_type[1] ELSE CUT
           text  == ToString(block.content)
           addr  == IF type = "ProxyHandler" THEN ProxyPass(block.content) ELSE <<>>
<1>1. n \in Nat /\ at \in 1..n /\ phase = "handlers"
    <2>1. at <= Len(config_blocks) /\ phase = "handlers"
        BY DEF CreateHandler
    <2> QED BY <2>1, BlocksKnown
<1>2. l \in Location /\ \A i \in 1..n : config.locations[i] \in Location
    BY <1>1, LayoutFields
<1>3. block.prefix = Quoted(l.prefix) /\ block.handler_type = <<l.type>> /\ block.content = ContentOf(l)
    BY <1>1, BlocksKnown
<1>4. type = l.type /\ l.type \in HandlerTypes
    <2>1. l.type \in HandlerTypes
        BY <1>2 DEF Location
    <2>2. ASSUME NEW t, NEW x, t = <<x>> PROVE Len(t) = 1 /\ t[1] = x
        BY <2>2
    <2>3. Len(block.handler_type) = 1 /\ block.handler_type[1] = l.type
        BY <1>3, <2>2
    <2> QED BY <2>1, <2>3
<1>5. \/ phase' = "exception"
      \/ /\ type = "StaticHandler" /\ ~HasNoRoot(text) /\ phase' = phase /\ at' = at + 1
         /\ handlers_tackers' = Put(handlers_tackers, block.prefix, [type |-> type, addr |-> <<>>])
         /\ locationToRoot' = Put(locationToRoot, LocationKey(block.prefix), Root(text))
      \/ /\ type \in ListedTypes /\ phase' = phase /\ at' = at + 1 /\ locationToRoot' = locationToRoot
         /\ handlers_tackers' = Put(handlers_tackers, block.prefix, [type |-> type, addr |-> addr])
    BY <1>4, Zenon DEF CreateHandler
<1> HIDE DEF type, text, addr, block
<1>6. type = "ProxyHandler" => addr = <<l.arg>>
    BY <1>2, <1>3, <1>4, AddressFound DEF addr
<1>7. type # "ProxyHandler" => addr = <<>>
    BY DEF addr
<1>8. \A i \in 1..at : config.locations[i].prefix \in DOMAIN SegmentsOf
    <2>1. \A i \in 1..at : i \in 1..n
        BY <1>1
    <2> QED BY <1>2, <2>1 DEF Location
<1>9. CASE /\ type = "StaticHandler" /\ ~HasNoRoot(text) /\ phase' = phase /\ at' = at + 1
           /\ handlers_tackers' = Put(handlers_tackers, block.prefix, [type |-> type, addr |-> <<>>])
           /\ locationToRoot' = Put(locationToRoot, LocationKey(block.prefix), Root(text))
    <2>1. HandlerOf(l) = [type |-> type, addr |-> <<>>]
        BY <1>4, <1>9 DEF HandlerOf
    <2>2. handlers_tackers' = Put(handlers_tackers, Quoted(l.prefix), HandlerOf(l))
        BY <1>3, <1>9, <2>1, Zenon
    <2>3. HandlersMade(config, at, handlers_tackers')
        BY <2>2, HandlersGrow
    <2>4. LocationKey(block.prefix) = SegmentsOf[l.prefix]
        <3>1. l.prefix \in DOMAIN SegmentsOf
            BY <1>2 DEF Location
        <3> QED BY <1>3, <3>1, KeyFound
    <2>5. Root(text) = <<FromSlash[l.arg]>>
        <3>1. text = ToString(ContentOf(l)) /\ l.type = "StaticHandler"
            BY <1>3, <1>4, <1>9 DEF text
        <3> QED BY <1>2, <1>9, <3>1, RootFound
    <2>6. locationToRoot' = Put(locationToRoot, SegmentsOf[l.prefix], <<FromSlash[l.arg]>>)
        BY <1>9, <2>4, <2>5, Zenon
    <2>7. IsStaticAt(config, at)
        BY <1>4, <1>9 DEF IsStaticAt
    <2>8. RootsMade(config, at, locationToRoot')
        BY <1>8, <2>6, <2>7, RootsGrow
    <2> QED BY <1>1, <1>9, <2>3, <2>8
<1>10. CASE /\ type \in ListedTypes /\ phase' = phase /\ at' = at + 1 /\ locationToRoot' = locationToRoot
            /\ handlers_tackers' = Put(handlers_tackers, block.prefix, [type |-> type, addr |-> addr])
    <2>1. HandlerOf(l) = [type |-> type, addr |-> addr]
        BY <1>4, <1>6, <1>7 DEF HandlerOf
    <2>2. handlers_tackers' = Put(handlers_tackers, Quoted(l.prefix), HandlerOf(l))
        BY <1>3, <1>10, <2>1, Zenon
    <2>3. HandlersMade(config, at, handlers_tackers')
        BY <2>2, HandlersGrow
    <2>4. ~IsStaticAt(config, at)
        BY <1>4, <1>10 DEF IsStaticAt, ListedTypes
    <2>5. RootsMade(config, at, locationToRoot')
        BY <1>8, <1>10, <2>4, RootsGrow
    <2> QED BY <1>1, <1>10, <2>3, <2>5
<1> QED BY <1>5, <1>9, <1>10

-----------------------------------------------------------------------------
(* What the finished maps say                                              *)

\* A set of numbers with a bound has a greatest one.
LEMMA GreatestElement ==
    ASSUME NEW n \in Nat, NEW S, S \subseteq 0..n, S # {}
    PROVE  \E i \in S : \A j \in S : j <= i
<1> DEFINE T == {k \in 0..n : n - k \in S}
<1>1. T \in SUBSET Nat
    OBVIOUS
<1>2. T # {}
    <2>1. PICK s \in S : TRUE
        OBVIOUS
    <2>2. n - s \in 0..n /\ n - (n - s) = s
        BY <2>1
    <2>3. n - s \in T
        BY <2>1, <2>2
    <2> QED BY <2>3
<1>3. PICK k \in T : \A j \in T : k <= j
    <2> HIDE DEF T
    <2> QED BY <1>1, <1>2, LeastElement
<1>4. k \in 0..n /\ n - k \in S
    OBVIOUS
<1>5. ASSUME NEW j \in S PROVE j <= n - k
    <2>1. n - j \in 0..n /\ n - (n - j) = j
        OBVIOUS
    <2>2. n - j \in T
        BY <2>1
    <2>3. k <= n - j
        BY <1>3, <2>2
    <2> QED BY <1>4, <2>1, <2>3
<1> QED BY <1>4, <1>5

\* The last location of a path
LEMMA LastFound ==
    ASSUME layout \in Layout, NEW types, NEW i \in 1..Len(layout.locations),
           layout.locations[i].type \in types
    PROVE  \E k \in 1..Len(layout.locations) :
              /\ LastOf(layout.locations[i].prefix, types) = layout.locations[k]
              /\ layout.locations[k].prefix = layout.locations[i].prefix
              /\ layout.locations[k].type \in types
              /\ \A j \in (k + 1)..Len(layout.locations) :
                    ~(/\ layout.locations[j].prefix = layout.locations[i].prefix
                      /\ layout.locations[j].type \in types)
<1> DEFINE n == Len(layout.locations)
           prefix == layout.locations[i].prefix
           hits == {k \in DOMAIN layout.locations :
                       layout.locations[k].prefix = prefix /\ layout.locations[k].type \in types}
           last == CHOOSE k \in hits : \A j \in hits : j <= k
<1>1. n \in Nat /\ DOMAIN layout.locations = 1..n
    <2>1. layout.locations \in Seq(Location)
        BY DEF Layout
    <2> QED BY <2>1
<1>2. i \in hits /\ hits \subseteq 0..n
    <2>1. 1..n \subseteq 0..n
        BY <1>1
    <2> QED BY <1>1, <2>1
<1>3. LastOf(prefix, types) = layout.locations[last]
    BY Zenon DEF LastOf
<1>4. last \in hits /\ \A j \in hits : j <= last
    <2> HIDE DEF hits
    <2>1. \E k \in hits : \A j \in hits : j <= k
        BY <1>1, <1>2, GreatestElement
    <2> QED BY <2>1, Zenon
<1> HIDE DEF last
<1>5. last \in 1..n /\ layout.locations[last].prefix = prefix /\ layout.locations[last].type \in types
    BY <1>1, <1>4
<1>6. ASSUME NEW j \in (last + 1)..n, layout.locations[j].prefix = prefix,
             layout.locations[j].type \in types
      PROVE  FALSE
    <2>1. j \in 1..n /\ ~(j <= last)
        BY <1>1, <1>5
    <2> QED BY <1>1, <1>4, <1>6, <2>1
<1> QED BY <1>3, <1>5, <1>6

\* When every location has had its turn, the handlers are the declared ones.
LEMMA HandlersFinished ==
    ASSUME layout \in Layout, HandlersMade(layout, Len(layout.locations), handlers_tackers)
    PROVE  handlers_tackers =
              [key \in {Quoted(layout.locations[i].prefix) : i \in DOMAIN layout.locations} |->
                  DeclaredHandler(key[2])]
<1> DEFINE n == Len(layout.locations)
           Keys == {Quoted(layout.locations[i].prefix) : i \in 1..n}
<1>1. n \in Nat /\ DOMAIN layout.locations = 1..n
    <2>1. layout.locations \in Seq(Location)
        BY DEF Layout
    <2> QED BY <2>1
<1>2. handlers_tackers = [key \in Keys |-> handlers_tackers[key]]
    BY DEF HandlersMade
<1>3. ASSUME NEW i \in 1..n
      PROVE  handlers_tackers[Quoted(layout.locations[i].prefix)]
                = DeclaredHandler(layout.locations[i].prefix)
    <2> DEFINE prefix == layout.locations[i].prefix
    <2>1. layout.locations[i].type \in HandlerTypes
        BY <1>1, LayoutFields DEF Location
    <2>2. PICK k \in 1..n :
             /\ LastOf(prefix, HandlerTypes) = layout.locations[k]
             /\ layout.locations[k].prefix = prefix
             /\ layout.locations[k].type \in HandlerTypes
             /\ \A j \in (k + 1)..n : ~(/\ layout.locations[j].prefix = prefix
                                        /\ layout.locations[j].type \in HandlerTypes)
        BY <2>1, LastFound
    <2>3. \A j \in (k + 1)..n : layout.locations[j].prefix # layout.locations[k].prefix
        <3>1. \A j \in (k + 1)..n : j \in 1..n
            BY <1>1
        <3>2. \A j \in 1..n : layout.locations[j].type \in HandlerTypes
            BY <1>1, LayoutFields DEF Location
        <3> QED BY <2>2, <3>1, <3>2
    <2>4. handlers_tackers[Quoted(layout.locations[k].prefix)] = HandlerOf(layout.locations[k])
        BY <2>3 DEF HandlersMade
    <2>5. DeclaredHandler(prefix) = HandlerOf(layout.locations[k])
        BY <2>2, Zenon DEF DeclaredHandler, HandlerOf
    <2> QED BY <2>2, <2>4, <2>5
<1>4. \A key \in Keys : handlers_tackers[key] = DeclaredHandler(key[2])
    <2>1. \A w : Quoted(w)[2] = w
        BY DEF Quoted
    <2> QED BY <1>3, <2>1
<1> HIDE DEF Keys
<1>5. handlers_tackers = [key \in Keys |-> DeclaredHandler(key[2])]
    BY <1>2, <1>4
<1> QED BY <1>1, <1>5 DEF Keys

\* And the search for a file finds the declared one.
LEMMA RootsFinished ==
    ASSUME layout \in Layout, NEW roots, RootsMade(layout, Len(layout.locations), roots),
           NEW uri \in Seq(STRING), uri # <<>>, layout \in Layouts, NoTrailingSlash
    PROVE  replace_path(roots, uri) = DeclaredFile(uri)
<1> DEFINE n == Len(layout.locations)
           P(i) == layout.locations[i].prefix
           levels == {m \in 0..(Len(uri) - 1) : RootAt(roots, Directory(uri, m)) # <<>>}
           around == {w \in StaticPrefixes :
                         /\ Len(NamesOf(w)) < Len(uri)
                         /\ NamesOf(w) = SubSeq(uri, 1, Len(NamesOf(w)))}
           inner == CHOOSE w \in around :
                       \A v \in around : Len(NamesOf(v)) <= Len(NamesOf(w))
           root(w) == <<FromSlash[LastOf(w, {"StaticHandler"}).arg]>>
<1>1. n \in Nat /\ DOMAIN layout.locations = 1..n
    <2>1. layout.locations \in Seq(Location)
        BY DEF Layout
    <2> QED BY <2>1
<1>2. \A i \in 1..n : P(i) \in DOMAIN SegmentsOf
    BY <1>1, LayoutFields DEF Location
<1>3. \A w \in StaticPrefixes : \E i \in 1..n : w = P(i) /\ IsStaticAt(layout, i)
    BY <1>1 DEF StaticPrefixes, IsStaticAt
<1>4. \A i \in 1..n : IsStaticAt(layout, i) => P(i) \in StaticPrefixes
    BY <1>1 DEF StaticPrefixes, IsStaticAt
<1>5. Len(uri) \in Nat /\ Len(uri) - 1 \in Nat
    OBVIOUS
<1>6. \A w \in StaticPrefixes :
          NamesOf(w) = SegmentsOf[w] /\ NamesOf(w) \in Seq(STRING) /\ Len(NamesOf(w)) \in Nat
    <2>1. \A w \in StaticPrefixes : w \in DOMAIN SegmentsOf
        BY <1>2, <1>3
    <2>2. \A w \in DOMAIN SegmentsOf : SegmentsOf[w] \in Seq(STRING)
        BY FilesAssumption
    <2>3. \A w \in StaticPrefixes : ~EndsInSlash(w)
        BY <1>1, <1>3 DEF NoTrailingSlash, IsStaticAt
    <2>4. \A w \in StaticPrefixes : NamesOf(w) = SegmentsOf[w]
        BY <2>3 DEF NamesOf
    <2> QED BY <2>1, <2>2, <2>4
\* The root of a static location
<1>7. ASSUME NEW w \in StaticPrefixes
      PROVE  RootAt(roots, NamesOf(w)) = root(w)
    <2>1. PICK i \in 1..n : w = P(i) /\ IsStaticAt(layout, i)
        BY <1>3
    <2>2. layout.locations[i].type \in {"StaticHandler"}
        BY <2>1 DEF IsStaticAt
    <2>3. PICK k \in 1..n :
             /\ LastOf(P(i), {"StaticHandler"}) = layout.locations[k]
             /\ P(k) = P(i) /\ layout.locations[k].type \in {"StaticHandler"}
             /\ \A j \in (k + 1)..n : ~(P(j) = P(i) /\ layout.locations[j].type \in {"StaticHandler"})
        BY <2>2, LastFound
    <2>4. /\ IsStaticAt(layout, k)
          /\ \A j \in (k + 1)..n : IsStaticAt(layout, j) => P(j) # P(k)
        BY <2>3 DEF IsStaticAt
    <2>5. RootAt(roots, SegmentsOf[P(k)]) = <<FromSlash[layout.locations[k].arg]>>
        BY <2>4 DEF RootsMade
    <2> QED BY <1>6, <2>1, <2>3, <2>5
<1>8. ASSUME NEW x PROVE <<x>> # <<>>
    <2>1. Len(<<x>>) = 1 /\ Len(<<>>) = 0
        OBVIOUS
    <2> QED BY <2>1
\* The search and the declaration know the same levels.
<1>9. ASSUME NEW w \in around
      PROVE  Len(NamesOf(w)) \in levels /\ Directory(uri, Len(NamesOf(w))) = NamesOf(w)
    <2>1. /\ w \in StaticPrefixes /\ Len(NamesOf(w)) < Len(uri)
          /\ NamesOf(w) = SubSeq(uri, 1, Len(NamesOf(w)))
        OBVIOUS
    <2>2. Directory(uri, Len(NamesOf(w))) = NamesOf(w)
        BY <2>1, Zenon DEF Directory
    <2>3. Len(NamesOf(w)) \in 0..(Len(uri) - 1)
        BY <1>5, <1>6, <2>1
    <2>4. RootAt(roots, NamesOf(w)) # <<>>
        BY <1>7, <1>8, <2>1, Zenon
    <2> QED BY <2>2, <2>3, <2>4
<1>10. ASSUME NEW m \in levels
       PROVE  \E w \in around : Len(NamesOf(w)) = m
    <2>1. m \in 0..(Len(uri) - 1) /\ RootAt(roots, Directory(uri, m)) # <<>>
        OBVIOUS
    <2>2. PICK i \in 1..n : IsStaticAt(layout, i) /\ Directory(uri, m) = SegmentsOf[P(i)]
        BY <2>1 DEF RootsMade
    <2>3. Len(Directory(uri, m)) = m
        BY <1>5, <2>1 DEF Directory
    <2>4. NamesOf(P(i)) = SegmentsOf[P(i)] /\ Len(NamesOf(P(i))) = m
        BY <1>4, <1>6, <2>2, <2>3, Zenon
    <2>5. m < Len(uri)
        BY <1>5, <2>1
    <2>6. NamesOf(P(i)) = SubSeq(uri, 1, m)
        BY <2>2, <2>4 DEF Directory
    <2>7. P(i) \in around
        BY <1>4, <2>2, <2>4, <2>5, <2>6
    <2> QED BY <2>4, <2>7
<1> HIDE DEF levels, around
<1>11. Match(roots, uri) = Deepest(levels)
    BY Zenon DEF Match, levels
<1>12. CASE around = {}
    <2>1. levels = {}
        BY <1>10, <1>12
    <2>2. Match(roots, uri) = -1
        BY <1>11, <2>1 DEF Deepest
    <2>3. replace_path(roots, uri) = <<>>
        BY <2>2, Zenon DEF replace_path
    <2>4. DeclaredFile(uri) = <<>>
        BY <1>12, Zenon DEF DeclaredFile, around
    <2> QED BY <2>3, <2>4
<1>13. CASE around # {}
    <2> DEFINE N == CHOOSE m \in levels : \A k \in levels : k <= m
    <2>1. levels # {} /\ levels \subseteq 0..(Len(uri) - 1)
        BY <1>9, <1>13 DEF levels
    <2>2. N \in levels /\ \A k \in levels : k <= N
        <3>1. \E m \in levels : \A k \in levels : k <= m
            BY <1>5, <2>1, GreatestElement
        <3> QED BY <3>1, Zenon
    <2>3. Match(roots, uri) = N
        BY <1>11, <2>1, Zenon DEF Deepest
    <2> HIDE DEF N
    <2>4. inner \in around /\ \A v \in around : Len(NamesOf(v)) <= Len(NamesOf(inner))
        <3>1. PICK w \in around : Len(NamesOf(w)) = N
            BY <1>10, <2>2
        <3>2. \A v \in around : Len(NamesOf(v)) <= Len(NamesOf(w))
            BY <1>9, <2>2, <3>1
        <3> QED BY <3>2, Zenon
    <2>5. DeclaredFile(uri) = root(inner) \o SubSeq(uri, Len(NamesOf(inner)) + 1, Len(uri))
        BY <1>13, Zenon DEF DeclaredFile, around
    <2> HIDE DEF inner
    <2>6. Len(NamesOf(inner)) = N
        <3>1. PICK w \in around : Len(NamesOf(w)) = N
            BY <1>10, <2>2
        <3>2. N <= Len(NamesOf(inner)) /\ Len(NamesOf(inner)) <= N
            BY <1>9, <2>2, <2>4, <3>1
        <3>3. N \in Nat /\ Len(NamesOf(inner)) \in Nat
            BY <1>5, <1>9, <2>1, <2>2, <2>4
        <3> QED BY <3>2, <3>3
    <2>7. Directory(uri, N) = NamesOf(inner)
        BY <1>9, <2>4, <2>6
    <2>8. RootAt(roots, Directory(uri, N)) = root(inner)
        <3>1. inner \in StaticPrefixes
            BY <2>4 DEF around
        <3> QED BY <1>7, <2>7, <3>1
    <2>9. N # -1
        BY <1>5, <2>1, <2>2
    <2>10. replace_path(roots, uri) = RootAt(roots, Directory(uri, N)) \o SubSeq(uri, N + 1, Len(uri))
        BY <2>3, <2>9, Zenon DEF replace_path
    <2> QED BY <2>5, <2>6, <2>8, <2>10, Zenon
<1> QED BY <1>12, <1>13

\* The port is found, and it is a good one.
LEMMA PortFound ==
    ASSUME NEW config \in Layout, NEW g, TokensAre(tokens, config, g), CheckPortNum
    PROVE  phase' = "parse"
<1>1. 2 \in PortTokens /\ FirstPort = <<config.port>>
    <2>1. /\ IsToken(tokens, 1, "NORMAL", <<"port">>) /\ IsToken(tokens, 1 + 1, "NORMAL", <<config.port>>)
        BY PlacesKnown DEF PortAt
    <2>2. /\ 1 \in 1..Len(tokens) /\ tokens[1].value = <<"port">>
          /\ 1 + 1 \in 1..Len(tokens) /\ tokens[1 + 1].value = <<config.port>>
        BY <2>1 DEF IsToken
    <2>3. 1 + 1 = 2 /\ 2 - 1 = 1
        OBVIOUS
    <2>4. 2 \in PortTokens
        <3>1. 2 \in 2..Len(tokens)
            BY <2>2
        <3> QED BY <2>2, <2>3, <3>1 DEF PortTokens
    <2>5. \A j \in PortTokens : j \in Int /\ 2 <= j
        BY DEF PortTokens
    <2> DEFINE first == CHOOSE i \in PortTokens : \A j \in PortTokens : i <= j
    <2>6. first \in PortTokens /\ \A j \in PortTokens : first <= j
        <3>1. \E i \in PortTokens : \A j \in PortTokens : i <= j
            BY <2>4, <2>5
        <3> QED BY <3>1, Zenon
    <2> HIDE DEF first
    <2>7. first = 2
        BY <2>4, <2>5, <2>6
    <2>8. FirstPort = tokens[first].value
        BY Zenon DEF FirstPort, first
    <2> QED BY <2>2, <2>3, <2>4, <2>7, <2>8
<1>2. ASSUME NEW p, NEW x, p = <<x>> PROVE Len(p) = 1 /\ p[1] = x
    BY <1>2
<1>3. Len(FirstPort) = 1 /\ FirstPort[1] = config.port
    BY <1>1, <1>2, Zenon
<1>4. /\ config.port \in DOMAIN NumberOf
      /\ 1 <= NumberOf[config.port] /\ NumberOf[config.port] <= 65535
    BY LayoutFields
<1>5. isNumeric(FirstPort) /\ isValid(NumberOf[FirstPort[1]]) /\ PortTokens # {}
    <2>1. NumberOf[config.port] \in Nat
        BY <1>4, NumbersAssumption
    <2> QED BY <1>1, <1>3, <1>4, <2>1 DEF isNumeric, isValid
<1>6. ~(NumberOf[FirstPort[1]] > IntMax)
    <2>1. NumberOf[config.port] \in Nat
        BY <1>4, NumbersAssumption
    <2> QED BY <1>3, <1>4, <2>1, NumbersAssumption
<1> QED BY <1>5, <1>6, Zenon DEF CheckPortNum

-----------------------------------------------------------------------------

\* The first state is as it should be.
LEMMA InitIInv ==
    Init => IInv
<1> SUFFICES ASSUME Init PROVE IInv
    OBVIOUS
<1>1. tokens \in Seq(Token)
    <2>1. CASE layout \in Layouts /\ tokens = Tokens(FileOf(layout))
        <3>1. layout \in Layout
            BY <2>1, LayoutsAssumption
        <3>2. FileOf(layout) \in Text
            BY <3>1, FileIsBuilt, FileHasParts
        <3> QED BY <2>1, <3>2, TokensType
    <2>2. CASE \E file \in OtherFiles : tokens = Tokens(file)
        BY <2>2, OthersAssumption, TokensType
    <2> QED BY <2>1, <2>2 DEF Init
<1>2. TypeOK
    BY DEF Init, TypeOK, StartState, TokenTypes, PortNumbers
<1>3. ParserKnows
    BY <1>1, ParseStarts DEF Init, ParserKnows, StartState
<1>4. PortKnown
    BY DEF Init, PortKnown, Beyond
<1> QED BY <1>2, <1>3, <1>4 DEF IInv

\* The actions that have nothing to do with the parser leave it alone.
LEMMA ParserKept ==
    ASSUME IInv, UNCHANGED <<tokens, parser>>,
           \/ parser.result # "running" /\ phase' \notin {"port", "parse"}
           \/ UNCHANGED at /\ phase = "port" /\ phase' \in {"parse", "refused", "exception"}
    PROVE  ParserKnows'
<1>1. CASE parser.result # "running"
    BY <1>1 DEF IInv, ParserKnows
<1>2. CASE parser.result = "running"
    BY <1>2 DEF IInv, ParserKnows
<1> QED BY <1>1, <1>2

\* Every step keeps IInv: one step of the proof per action.
LEMMA NextIInv ==
    IInv /\ [Next]_vars => IInv'
<1> SUFFICES ASSUME IInv, [Next]_vars
             PROVE  IInv'
    OBVIOUS
<1> USE DEF input, reader, server
<1>1. CASE CheckPortNum
    <2>1. UNCHANGED <<layout, tokens, parser, at, last_token, until, config_blocks, listening,
                      handlers_tackers, locationToRoot, served>> /\ phase = "port"
        BY <1>1 DEF CheckPortNum
    <2>2. \/ phase' \in {"refused", "exception"} /\ portNum' = portNum
          \/ /\ phase' = "parse" /\ isNumeric(FirstPort)
             /\ portNum' = NumberOf[FirstPort[1]] /\ isValid(portNum')
        BY <1>1 DEF CheckPortNum
    <2>3. portNum' \in PortNumbers
        <3>1. CASE portNum' = portNum
            BY <3>1 DEF IInv, TypeOK
        <3>2. CASE isNumeric(FirstPort) /\ portNum' = NumberOf[FirstPort[1]] /\ isValid(portNum')
            <4>1. NumberOf[FirstPort[1]] \in Nat
                BY <3>2, NumbersAssumption DEF isNumeric
            <4> QED BY <3>2, <4>1 DEF isValid, PortNumbers
        <3> QED BY <2>2, <3>1, <3>2
    <2>4. TypeOK'
        BY <2>1, <2>2, <2>3 DEF IInv, TypeOK
    <2>5. ParserKnows'
        BY <2>1, <2>2, ParserKept
    <2>6. PortKnown'
        BY <2>1, <2>2 DEF PortKnown, Beyond, FirstPort, PortTokens
    <2> QED BY <2>4, <2>5, <2>6 DEF IInv
<1>2. CASE ParseTurn
    <2>1. /\ UNCHANGED <<layout, tokens, portNum, last_token, until, config_blocks, listening,
                         handlers_tackers, locationToRoot, served>>
          /\ phase = "parse" /\ parser' = Turn(parser, getToken(tokens, at))
          /\ \/ parser'.result = "running" /\ at' = at + 1 /\ phase' = phase
             \/ parser'.result # "running" /\ at' = 1 /\ phase' = "headers"
        BY <1>2 DEF ParseTurn
    <2>2. /\ parser.result = "running" /\ ParseInv(parser, tokens, at)
          /\ tokens \in Seq(Token) /\ IsParser(parser) /\ at \in Nat \ {0}
        BY <2>1 DEF IInv, ParserKnows, TypeOK
    <2>3. /\ IsParser(parser') /\ parser'.result \in {"running", "true", "false"}
          /\ parser'.braces \in Nat /\ parser'.last_token_type \in TokenTypes
          /\ parser'.result = "running" => ParseInv(parser', tokens, at + 1)
          /\ parser'.result # "running" => (parser'.result = "true" <=> Valid(tokens))
        BY <2>1, <2>2, TurnKeeps
    <2>4. TypeOK'
        <3>1. TypeOK
            BY DEF IInv
        <3>2. at' \in Nat \ {0}
            BY <2>1, <2>2
        <3> QED BY <2>1, <2>3, <3>1, <3>2 DEF TypeOK
    <2>5. ParserKnows'
        <3>1. CASE parser'.result = "running"
            BY <2>1, <2>2, <2>3, <3>1 DEF ParserKnows
        <3>2. CASE parser'.result # "running"
            BY <2>1, <2>2, <2>3, <3>2 DEF ParserKnows
        <3> QED BY <3>1, <3>2
    <2>6. PortKnown'
        BY <2>1 DEF IInv, PortKnown, Beyond, FirstPort, PortTokens
    <2> QED BY <2>4, <2>5, <2>6 DEF IInv
<1>3. CASE NextToken \/ LocationHeader \/ Skip \/ PairContents
    <2>1. /\ UNCHANGED <<layout, tokens, portNum, parser, listening, handlers_tackers,
                         locationToRoot, served>>
          /\ phase \in {"headers", "skip"} /\ phase' \in {"headers", "skip", "listen", "crashed"}
        BY <1>3 DEF NextToken, LocationHeader, Skip, PairContents
    <2>2. at' \in Nat \ {0}
        <3>1. at \in Nat \ {0}
            BY DEF IInv, TypeOK
        <3>2. at' \in {at, at + 1, at + 2, at + 3}
            BY <1>3 DEF NextToken, LocationHeader, Skip, PairContents
        <3> QED BY <3>1, <3>2
    <2>3. until' \in {<<>>, <<RB>>, <<SC>>}
        BY <1>3 DEF IInv, TypeOK, NextToken, LocationHeader, Skip, PairContents
    <2>4. TypeOK'
        BY <2>1, <2>2, <2>3 DEF IInv, TypeOK
    <2>5. ParserKnows'
        BY <2>1, ParserKept DEF IInv, ParserKnows
    <2>6. PortKnown'
        BY <2>1 DEF IInv, PortKnown, Beyond, FirstPort, PortTokens
    <2> QED BY <2>4, <2>5, <2>6 DEF IInv
<1>4. CASE Listen
    <2>1. /\ UNCHANGED <<layout, tokens, portNum, parser, last_token, until, config_blocks,
                         handlers_tackers, locationToRoot, served>>
          /\ phase = "listen" /\ phase' = "handlers" /\ at' = 1
          /\ listening' = ToUShort(ToShort(portNum))
        BY <1>4 DEF Listen
    <2>2. portNum \in Nat /\ isValid(portNum)
        <3>1. portNum \in PortNumbers
            BY DEF IInv, TypeOK
        <3>2. isValid(portNum)
            BY <2>1 DEF IInv, PortKnown, Beyond
        <3> QED BY <3>1, <3>2 DEF PortNumbers
    <2>3. listening' = portNum
        BY <2>1, <2>2, ShortAndBack
    <2>4. TypeOK'
        <3>1. TypeOK /\ portNum \in PortNumbers
            BY DEF IInv, TypeOK
        <3>2. at' \in Nat \ {0} /\ listening' \in PortNumbers
            BY <2>1, <2>3, <3>1
        <3> QED BY <2>1, <3>1, <3>2 DEF TypeOK
    <2>5. ParserKnows'
        BY <2>1, ParserKept DEF IInv, ParserKnows
    <2>6. PortKnown'
        BY <2>1, <2>3 DEF IInv, PortKnown, Beyond, FirstPort, PortTokens
    <2> QED BY <2>4, <2>5, <2>6 DEF IInv
<1>5. CASE BindFails
    <2>1. /\ UNCHANGED <<layout, tokens, portNum, parser, at, last_token, until, config_blocks,
                         listening, handlers_tackers, locationToRoot, served>>
          /\ phase = "listen" /\ phase' = "exception"
        BY <1>5 DEF BindFails
    <2>2. TypeOK'
        BY <2>1 DEF IInv, TypeOK
    <2>3. ParserKnows'
        BY <2>1, ParserKept DEF IInv, ParserKnows
    <2>4. PortKnown'
        BY <2>1 DEF PortKnown, Beyond
    <2> QED BY <2>2, <2>3, <2>4 DEF IInv
<1>6. CASE CreateHandler
    <2>1. /\ UNCHANGED <<layout, tokens, portNum, parser, last_token, until, config_blocks,
                         listening, served>>
          /\ phase = "handlers" /\ phase' \in {"handlers", "exception", "crashed"}
          /\ at' \in {at, at + 1}
        BY <1>6 DEF CreateHandler
    <2>2. \/ UNCHANGED handlers_tackers
          \/ \E key, h : /\ h.type \in HandlerTypes \cup {"WILD"}
                         /\ handlers_tackers' = Put(handlers_tackers, key, h)
        <3> DEFINE block == config_blocks[at]
                   type  == IF Len(block.handler_type) = 1 THEN block.handler_type[1] ELSE CUT
        <3>1. \/ UNCHANGED handlers_tackers
              \/ /\ type \in HandlerTypes
                 /\ \E a : handlers_tackers' =
                              Put(handlers_tackers, block.prefix, [type |-> type, addr |-> a])
              \/ handlers_tackers' =
                    Put(handlers_tackers, block.prefix, [type |-> "WILD", addr |-> <<>>])
            BY <1>6 DEF CreateHandler, HandlerTypes
        <3> HIDE DEF block, type
        <3>2. \A a, ty : [type |-> ty, addr |-> a].type = ty
            OBVIOUS
        <3> QED BY <3>1, <3>2
    <2>3. \A key \in DOMAIN handlers_tackers' :
              handlers_tackers'[key].type \in HandlerTypes \cup {"WILD"}
        BY <2>2 DEF IInv, TypeOK, Put
    <2>4. at' \in Nat \ {0}
        <3>1. at \in Nat \ {0}
            BY DEF IInv, TypeOK
        <3> QED BY <2>1, <3>1
    <2>5. TypeOK'
        BY <2>1, <2>3, <2>4 DEF IInv, TypeOK
    <2>6. ParserKnows'
        BY <2>1, ParserKept DEF IInv, ParserKnows
    <2>7. PortKnown'
        BY <2>1 DEF IInv, PortKnown, Beyond, FirstPort, PortTokens
    <2> QED BY <2>5, <2>6, <2>7 DEF IInv
<1>7. CASE Run \/ \E uri \in Uris : StaticRequest(uri)
    <2>1. /\ UNCHANGED <<layout, tokens, portNum, parser, at, last_token, until, config_blocks,
                         listening, handlers_tackers>>
          /\ phase \in {"handlers", "listening"} /\ phase' \in {"listening", "exception"}
        BY <1>7 DEF Run, StaticRequest
    <2>2. TypeOK'
        BY <2>1 DEF IInv, TypeOK
    <2>3. ParserKnows'
        BY <2>1, ParserKept DEF IInv, ParserKnows
    <2>4. PortKnown'
        BY <2>1 DEF IInv, PortKnown, Beyond, FirstPort, PortTokens
    <2> QED BY <2>2, <2>3, <2>4 DEF IInv
<1>8. CASE UNCHANGED vars
    BY <1>8 DEF vars, IInv, TypeOK, ParserKnows, PortKnown, FirstPort, PortTokens
<1> QED BY <1>1, <1>2, <1>3, <1>4, <1>5, <1>6, <1>7, <1>8 DEF Next, Startup

-----------------------------------------------------------------------------
(* Every step gets further with the file.                                  *)

\* A search changes nothing in what the map says.
LEMMA RootsSearched ==
    ASSUME NEW config, NEW m, NEW roots, RootsMade(config, m, roots), NEW uri
    PROVE  RootsMade(config, m, AfterSearch(roots, uri))
<1> DEFINE after == AfterSearch(roots, uri)
<1>1. \A dir : RootAt(after, dir) = RootAt(roots, dir)
    BY SearchKeepsRoots
<1> HIDE DEF after
<1>2. RootsMade(config, m, after)
    BY <1>1 DEF RootsMade
<1> QED BY <1>2 DEF after

\* Before the first location both maps are empty.
LEMMA MapsStart ==
    ASSUME NEW config, NEW map, map = <<>>, NEW roots, roots = <<>>
    PROVE  HandlersMade(config, 0, map) /\ RootsMade(config, 0, roots)
<1>1. 1..0 = {}
    OBVIOUS
<1>2. DOMAIN map = {} /\ DOMAIN roots = {} /\ map = [key \in {} |-> map[key]]
    OBVIOUS
<1>3. HandlersMade(config, 0, map)
    <2>1. {Quoted(config.locations[i].prefix) : i \in 1..0} = {}
        BY <1>1
    <2> QED BY <1>1, <1>2, <2>1 DEF HandlersMade
<1>4. \A dir : RootAt(roots, dir) = <<>>
    BY <1>2 DEF RootAt
<1>5. RootsMade(config, 0, roots)
    BY <1>1, <1>4 DEF RootsMade
<1> QED BY <1>3, <1>5

\* Every step keeps Progress: one step of the proof per action.
LEMMA ProgressKept ==
    ASSUME NEW config \in Layout, NEW g, TokensAre(tokens, config, g), Progress(config, g),
           IInv, Next
    PROVE  Progress(config, g)'
<1> USE DEF input, reader, server
<1> DEFINE n == Len(config.locations)
<1>1. n \in Nat /\ at \in Nat \ {0}
    BY LayoutFields DEF IInv, TypeOK
<1>2. CASE CheckPortNum
    <2>1. phase = "port" /\ UNCHANGED <<at, parser, config_blocks, last_token, handlers_tackers, locationToRoot>>
        BY <1>2 DEF CheckPortNum
    <2>2. phase' = "parse"
        BY <1>2, PortFound
    <2>3. at = 1 /\ parser = StartState /\ config_blocks = <<>> /\ last_token = <<>>
          /\ handlers_tackers = <<>> /\ locationToRoot = <<>>
        BY <2>1 DEF Progress
    <2>4. Parsing(config, g, parser, at)
        BY <2>3 DEF Parsing
    <2>5. Parsing(config, g, parser', at')
        BY <2>1, <2>4
    <2> QED BY <2>1, <2>2, <2>3, <2>5 DEF Progress
<1>3. CASE ParseTurn
    <2>1. /\ UNCHANGED <<last_token, config_blocks, handlers_tackers, locationToRoot>>
          /\ phase = "parse" /\ parser' = Turn(parser, getToken(tokens, at))
          /\ \/ parser'.result = "running" /\ at' = at + 1 /\ phase' = phase
             \/ parser'.result # "running" /\ at' = 1 /\ phase' = "headers"
        BY <1>3 DEF ParseTurn
    <2>2. /\ Parsing(config, g, parser, at) /\ config_blocks = <<>> /\ last_token = <<>>
          /\ handlers_tackers = <<>> /\ locationToRoot = <<>>
        BY <2>1 DEF Progress
    <2>3. \/ parser'.result = "running" /\ Parsing(config, g, parser', at + 1)
          \/ parser'.result # "running" /\ parser'.config_blocks_content = Contents(config, n)
        BY <2>1, <2>2, ParsingTurn
    <2>4. CASE parser'.result = "running"
        <3>1. phase' = "parse" /\ Parsing(config, g, parser', at')
            BY <2>1, <2>3, <2>4
        <3> QED BY <2>1, <2>2, <3>1 DEF Progress
    <2>5. CASE parser'.result # "running"
        <3>1. phase' = "headers" /\ at' = 1 /\ parser'.config_blocks_content = Contents(config, n)
            BY <2>1, <2>3, <2>5
        <3>2. last_token' # <<"location">>
            <4>1. Len(<<>>) = 0 /\ Len(<<"location">>) = 1
                OBVIOUS
            <4> QED BY <2>1, <2>2, <4>1
        <3>3. Heading(config, g, phase', at', last_token', until', config_blocks')
            BY <2>1, <2>2, <3>1, <3>2 DEF Heading
        <3> QED BY <2>1, <2>2, <3>1, <3>3 DEF Progress
    <2> QED BY <2>4, <2>5
<1>4. CASE NextToken \/ LocationHeader \/ Skip
    <2>1. /\ phase \in {"headers", "skip"} /\ phase' \in {"headers", "skip"}
          /\ UNCHANGED <<parser, handlers_tackers, locationToRoot>>
        BY <1>4 DEF NextToken, LocationHeader, Skip
    <2>2. /\ Heading(config, g, phase, at, last_token, until, config_blocks)
          /\ parser.config_blocks_content = Contents(config, n)
          /\ handlers_tackers = <<>> /\ locationToRoot = <<>>
        BY <2>1 DEF Progress
    <2>3. Heading(config, g, phase', at', last_token', until', config_blocks')
        BY <1>4, <2>2, HeadingKept
    <2> QED BY <2>1, <2>2, <2>3 DEF Progress
<1>5. CASE PairContents
    <2>1. phase = "headers" /\ UNCHANGED <<parser, handlers_tackers, locationToRoot>>
        BY <1>5 DEF PairContents
    <2>2. /\ Heading(config, g, phase, at, last_token, until, config_blocks)
          /\ parser.config_blocks_content = Contents(config, n)
          /\ handlers_tackers = <<>> /\ locationToRoot = <<>>
        BY <2>1 DEF Progress
    <2>3. phase' = "listen" /\ config_blocks' = Blocks(config)
        BY <1>5, <2>2, ContentsPaired
    <2> QED BY <2>1, <2>2, <2>3 DEF Progress
<1>6. CASE Listen
    <2>1. /\ phase = "listen" /\ phase' = "handlers" /\ at' = 1
          /\ UNCHANGED <<config_blocks, handlers_tackers, locationToRoot>>
        BY <1>6 DEF Listen
    <2>2. config_blocks = Blocks(config) /\ handlers_tackers = <<>> /\ locationToRoot = <<>>
        BY <2>1 DEF Progress
    <2>3. HandlersMade(config, 0, handlers_tackers') /\ RootsMade(config, 0, locationToRoot')
        BY <2>1, <2>2, MapsStart
    <2>4. at' - 1 = 0 /\ at' <= n + 1
        BY <1>1, <2>1
    <2> QED BY <2>1, <2>2, <2>3, <2>4 DEF Progress
<1>7. CASE BindFails
    BY <1>7 DEF BindFails, Progress
<1>8. CASE CreateHandler
    <2>1. phase = "handlers" /\ UNCHANGED config_blocks
        BY <1>8 DEF CreateHandler
    <2>2. /\ config_blocks = Blocks(config) /\ at <= n + 1
          /\ HandlersMade(config, at - 1, handlers_tackers) /\ RootsMade(config, at - 1, locationToRoot)
        BY <2>1 DEF Progress
    <2>3. \/ phase' = "exception"
          \/ /\ phase' = "handlers" /\ at' = at + 1 /\ at <= n
             /\ HandlersMade(config, at, handlers_tackers') /\ RootsMade(config, at, locationToRoot')
        BY <1>1, <1>8, <2>2, HandlerIsMade
    <2>4. CASE phase' = "exception"
        BY <2>4 DEF Progress
    <2>5. CASE /\ phase' = "handlers" /\ at' = at + 1 /\ at <= n
               /\ HandlersMade(config, at, handlers_tackers') /\ RootsMade(config, at, locationToRoot')
        <3>1. at' - 1 = at /\ at' <= n + 1
            BY <1>1, <2>5
        <3> QED BY <2>1, <2>2, <2>5, <3>1 DEF Progress
    <2> QED BY <2>3, <2>4, <2>5
<1>9. CASE Run
    <2>1. /\ phase = "handlers" /\ phase' = "listening" /\ at > Len(config_blocks)
          /\ UNCHANGED <<handlers_tackers, locationToRoot>>
        BY <1>9 DEF Run
    <2>2. /\ config_blocks = Blocks(config) /\ at <= n + 1
          /\ HandlersMade(config, at - 1, handlers_tackers) /\ RootsMade(config, at - 1, locationToRoot)
        BY <2>1 DEF Progress
    <2>3. at - 1 = n
        <3>1. Len(config_blocks) = n
            BY <2>2, BlocksKnown
        <3> QED BY <1>1, <2>1, <2>2, <3>1
    <2> QED BY <2>1, <2>2, <2>3 DEF Progress
<1>10. CASE \E uri \in Uris : StaticRequest(uri)
    <2>1. PICK uri \in Uris : StaticRequest(uri)
        BY <1>10
    <2>2. /\ phase = "listening" /\ phase' \in {"listening", "exception"}
          /\ UNCHANGED handlers_tackers
          /\ locationToRoot' = locationToRoot \/ locationToRoot' = AfterSearch(locationToRoot, uri)
        BY <2>1 DEF StaticRequest
    <2>3. HandlersMade(config, n, handlers_tackers) /\ RootsMade(config, n, locationToRoot)
        BY <2>2 DEF Progress
    <2>4. RootsMade(config, n, locationToRoot')
        BY <2>2, <2>3, RootsSearched
    <2> QED BY <2>2, <2>3, <2>4 DEF Progress
<1> QED BY <1>2, <1>3, <1>4, <1>5, <1>6, <1>7, <1>8, <1>9, <1>10 DEF Next, Startup

\* IInv is an invariant.
THEOREM Invariance == Spec => []IInv
BY InitIInv, NextIInv, PTL DEF Spec

\* Every variable keeps its type, from any config file to the serving program.
THEOREM Typing == Spec => []TypeOK
<1>1. IInv => TypeOK
    BY DEF IInv
<1> QED BY <1>1, Invariance, PTL

\* Parse returns true exactly for valid files.
THEOREM ParseDecides == Spec => []ParseDecidesValidity
<1>1. IInv => ParseDecidesValidity
    BY DEF IInv, ParserKnows, ParseDecidesValidity
<1> QED BY <1>1, Invariance, PTL

\* The two stacks of Parse agree, and no block is lost.
THEOREM StacksAgree == Spec => []BracesTrackBlocks
<1>1. IInv => BracesTrackBlocks
    <2> SUFFICES ASSUME IInv, parser.result = "running"
                 PROVE  /\ parser.braces = Len(parser.config_stack) - 1
                        /\ parser.braces + Len(parser.config_blocks_content)
                              = Cardinality(Braces(tokens, "START_BLOCK", at - 1))
        BY DEF BracesTrackBlocks
    <2>1. /\ parser.braces \in Nat /\ at - 1 \in Nat
          /\ parser.braces = Opened(tokens, at - 1) - Closed(tokens, at - 1)
          /\ IsSeq(parser.config_stack, parser.braces + 1)
          /\ IsSeq(parser.config_blocks_content, Closed(tokens, at - 1))
        <3>1. at \in Nat \ {0}
            BY DEF IInv, TypeOK
        <3>2. ParseInv(parser, tokens, at)
            BY DEF IInv, ParserKnows
        <3> QED BY <3>1, <3>2 DEF ParseInv
    <2>2. Opened(tokens, at - 1) \in Nat /\ Closed(tokens, at - 1) \in Nat
        BY <2>1, BracesFinite DEF Opened, Closed
    <2>3. /\ Len(parser.config_stack) = parser.braces + 1
          /\ Len(parser.config_blocks_content) = Closed(tokens, at - 1)
        BY <2>1, SeqLen
    <2>4. parser.braces + Len(parser.config_blocks_content) = Opened(tokens, at - 1)
        BY <2>1, <2>2, <2>3
    <2> QED BY <2>1, <2>3, <2>4 DEF Opened
<1> QED BY <1>1, Invariance, PTL

\* The server listens on the port the file declares first.
THEOREM PortIsDeclared == Spec => []PortAsDeclared
<1>1. IInv => PortAsDeclared
    BY DEF IInv, PortKnown, Beyond, PortAsDeclared
<1> QED BY <1>1, Invariance, PTL

\* No static request changes what a later one is mapped to.
THEOREM NoTrace == Spec => SearchesLeaveNoTrace
<1> DEFINE Same == phase = "listening" =>
                       \A uri \in Uris : replace_path(locationToRoot', uri) = replace_path(locationToRoot, uri)
<1>1. ASSUME [Next]_vars
      PROVE  [Same]_vars
    <2> SUFFICES ASSUME phase = "listening", NEW uri \in Uris
                 PROVE  replace_path(locationToRoot', uri) = replace_path(locationToRoot, uri)
        OBVIOUS
    <2>1. CASE UNCHANGED locationToRoot
        BY <2>1 DEF replace_path, Match, RootAt
    <2>2. CASE \E u \in Uris : locationToRoot' = AfterSearch(locationToRoot, u)
        BY <2>2, SearchKeepsSearches, UrisAssumption
    <2>3. UNCHANGED locationToRoot \/ \E u \in Uris : locationToRoot' = AfterSearch(locationToRoot, u)
        BY <1>1 DEF Next, Startup, CheckPortNum, ParseTurn, NextToken, LocationHeader, Skip,
                    PairContents, Listen, BindFails, CreateHandler, Run, StaticRequest, vars,
                    server
    <2> QED BY <2>1, <2>2, <2>3
<1> QED BY <1>1, PTL DEF Spec, SearchesLeaveNoTrace

-----------------------------------------------------------------------------
(* Files like those in conf/                                               *)

\* The tokens are those of the layout, main has got to a good place in them, and
\* what was served last came from the right place.
LayoutInv ==
    layout # NoLayout =>
        /\ \E config \in Layout : \E g :
              layout = config /\ TokensAre(tokens, config, g) /\ Progress(config, g)
        /\ \A uri : NoTrailingSlash /\ served # NoRequest /\ served.uri = uri
                        => served.path = DeclaredFile(uri)

\* LayoutInv holds at first.
LEMMA InitLayout ==
    Init => LayoutInv
<1> SUFFICES ASSUME Init, layout # NoLayout
             PROVE  /\ \E config \in Layout : \E g :
                          layout = config /\ TokensAre(tokens, config, g) /\ Progress(config, g)
                    /\ served = NoRequest
    BY DEF LayoutInv
<1>1. layout \in Layout /\ tokens = Tokens(FileOf(layout))
    BY LayoutsAssumption DEF Init
<1>2. PICK g : TokensAre(tokens, layout, g)
    BY <1>1, FileTokens
<1>3. ASSUME NEW config PROVE Progress(config, g)
    BY DEF Init, Progress
<1> QED BY <1>1, <1>2, <1>3 DEF Init

\* And every step keeps it.
LEMMA NextLayout ==
    IInv /\ LayoutInv /\ [Next]_vars => LayoutInv'
<1> SUFFICES ASSUME IInv, LayoutInv, [Next]_vars, layout' # NoLayout
             PROVE  /\ \E config \in Layout : \E g :
                          layout' = config /\ TokensAre(tokens', config, g) /\ Progress(config, g)'
                    /\ \A uri : NoTrailingSlash /\ served' # NoRequest /\ served'.uri = uri
                                    => served'.path = DeclaredFile(uri)'
    BY DEF LayoutInv
<1>1. UNCHANGED <<layout, tokens>>
    BY DEF Next, Startup, CheckPortNum, ParseTurn, NextToken, LocationHeader, Skip, PairContents,
           Listen, BindFails, CreateHandler, Run, StaticRequest, vars, input
<1>2. PICK config \in Layout : \E g :
          layout = config /\ TokensAre(tokens, config, g) /\ Progress(config, g)
    BY <1>1 DEF LayoutInv
<1>3. PICK g : layout = config /\ TokensAre(tokens, config, g) /\ Progress(config, g)
    BY <1>2
<1>4. Progress(config, g)'
    <2>1. CASE Next
        BY <1>3, <2>1, ProgressKept
    <2>2. CASE UNCHANGED vars
        BY <1>3, <2>2 DEF Progress, vars, reader, server
    <2> QED BY <2>1, <2>2
<1>5. ASSUME NEW uri PROVE DeclaredFile(uri)' = DeclaredFile(uri)
    BY <1>1 DEF DeclaredFile, StaticPrefixes, LastOf
<1>6. NoTrailingSlash /\ served' # NoRequest => served'.path = DeclaredFile(served'.uri)
    <2>1. CASE served' = served
        BY <1>1, <2>1 DEF LayoutInv
    <2>2. ASSUME NoTrailingSlash, NEW uri \in Uris, phase = "listening",
                 served' = [uri |-> uri, path |-> replace_path(locationToRoot, uri)]
          PROVE  served'.path = DeclaredFile(served'.uri)
        <3>1. layout \in Layout /\ RootsMade(layout, Len(layout.locations), locationToRoot)
            BY <1>3, <2>2 DEF Progress
        <3>2. uri \in Seq(STRING) /\ uri # <<>>
            BY UrisAssumption
        <3>3. layout \in Layouts
            BY <1>1 DEF IInv, TypeOK
        <3>4. replace_path(locationToRoot, uri) = DeclaredFile(uri)
            BY <2>2, <3>1, <3>2, <3>3, RootsFinished
        <3> QED BY <1>5, <2>2, <3>4
    <2>3. \/ served' = served
          \/ \E uri \in Uris : /\ phase = "listening"
                               /\ served' = [uri |-> uri, path |-> replace_path(locationToRoot, uri)]
        BY DEF Next, Startup, CheckPortNum, ParseTurn, NextToken, LocationHeader, Skip, PairContents,
               Listen, BindFails, CreateHandler, Run, StaticRequest, vars
    <2> QED BY <2>1, <2>2, <2>3
<1> QED BY <1>1, <1>3, <1>4, <1>5, <1>6

\* LayoutInv is an invariant.
THEOREM LayoutInvariance == Spec => []LayoutInv
BY Invariance, InitLayout, NextLayout, PTL DEF Spec

\* Of any file like those in conf/, whatever its locations are and however many
\* there are, every location gets its own handler and nothing undefined happens.
THEOREM HandlersDeclared == Spec => []HandlersAsDeclared
<1>1. IInv /\ LayoutInv => HandlersAsDeclared
    <2> SUFFICES ASSUME IInv, LayoutInv, layout # NoLayout
                 PROVE  /\ phase \notin {"refused", "crashed"}
                        /\ phase = "listening" =>
                              handlers_tackers =
                                  [key \in {Quoted(layout.locations[i].prefix) :
                                               i \in DOMAIN layout.locations} |->
                                      DeclaredHandler(key[2])]
        BY Zenon DEF HandlersAsDeclared
    <2>1. PICK config \in Layout : \E g :
              layout = config /\ TokensAre(tokens, config, g) /\ Progress(config, g)
        BY DEF LayoutInv
    <2>2. layout \in Layout /\ phase \notin {"refused", "crashed"}
        BY <2>1 DEF Progress
    <2>3. phase = "listening" => HandlersMade(layout, Len(layout.locations), handlers_tackers)
        BY <2>1 DEF Progress
    <2> QED BY <2>2, <2>3, HandlersFinished
<1> QED BY <1>1, Invariance, LayoutInvariance, PTL

\* If no static location ends in a slash, every static request is mapped to the
\* file under the root of the innermost location around it, for every such file
\* and every sequence of requests.
THEOREM RootsDeclared ==
    ASSUME NoTrailingSlash
    PROVE  Spec => []ServedFromItsRoot
<1>1. LayoutInv => ServedFromItsRoot
    BY DEF LayoutInv, ServedFromItsRoot
<1> QED BY <1>1, LayoutInvariance, PTL
=============================================================================
