------------------------- MODULE ConfigParserProofs -------------------------
(***************************************************************************)
(* The loop of NginxConfigParser::Parse decides whether a file is valid.   *)
(*                                                                         *)
(* ParseInv says what the loop knows before it reads token i of a file:    *)
(* everything before i is fine, last_token_type is what precedes i, and    *)
(* both stacks are as deep as the braces before i.  The lemmas show that   *)
(* it holds at the start and that a turn keeps it or decides rightly.      *)
(***************************************************************************)
EXTENDS ConfigParser, FiniteSetTheorems, SequenceTheorems, WellFoundedInduction, TLAPS

Type(tokens, i) == getToken(tokens, i).type

\* A sequence of n elements, whatever they are.
IsSeq(s, n) == n \in Nat /\ s = [i \in 1..n |-> s[i]]

OnlyComments(tokens, i) == \A j \in 1..(i - 1) : ~Code(tokens, j)

Last(tokens, type, i) ==
    \/ Precedes(tokens, type, i)
    \/ type = "START" /\ OnlyComments(tokens, i)

Opened(tokens, i) == Cardinality(Braces(tokens, "START_BLOCK", i))
Closed(tokens, i) == Cardinality(Braces(tokens, "END_BLOCK", i))

ParseInv(p, tokens, i) ==
    /\ i \in 1..(Len(tokens) + 1)
    /\ \A k \in 1..(i - 1) : Type(tokens, k) # "EOF" /\ FineAt(tokens, k)
    /\ p.last_token_type \in TokenTypes
    /\ Last(tokens, p.last_token_type, i)
    /\ p.braces \in Nat
    /\ p.braces = Opened(tokens, i - 1) - Closed(tokens, i - 1)
    /\ IsSeq(p.config_stack, p.braces + 1)
    /\ IsSeq(p.config_blocks_content, Closed(tokens, i - 1))
    /\ p.last_token_type = "START" => p.braces = 0
    /\ p.last_token_type = "START_BLOCK" => p.braces > 0

\* What Turn leaves of a parser state: a record with these fields.
IsParser(p) ==
    p = [result |-> p.result, braces |-> p.braces, config_stack |-> p.config_stack,
         last_token_type |-> p.last_token_type,
         config_blocks_content |-> p.config_blocks_content]

-----------------------------------------------------------------------------
(* Sequences of anything                                                   *)

\* IsSeq gives Len.
LEMMA SeqLen ==
    ASSUME NEW s, NEW n, IsSeq(s, n)
    PROVE  Len(s) = n
<1> DEFINE S == {s[i] : i \in 1..n}
<1>1. s \in [1..n -> S]
    BY DEF IsSeq
<1>2. s \in Seq(S)
    BY <1>1 DEF IsSeq
<1> QED BY <1>1, <1>2 DEF IsSeq

\* Replacing the top of a stack keeps its height.
LEMMA SeqReplace ==
    ASSUME NEW s, NEW n, IsSeq(s, n), NEW x
    PROVE  IsSeq(Replace(s, x), n)
BY DEF IsSeq, Replace

\* Append makes a sequence one longer.
LEMMA SeqAppend ==
    ASSUME NEW s, NEW n, IsSeq(s, n), NEW x
    PROVE  IsSeq(Append(s, x), n + 1)
<1> DEFINE S == {s[i] : i \in 1..n} \cup {x}
<1>1. s \in [1..n -> S] /\ n \in Nat
    BY DEF IsSeq
<1>2. s \in Seq(S) /\ Len(s) = n /\ x \in S
    BY <1>1
<1> HIDE DEF S
<1>3. Append(s, x) \in Seq(S) /\ Len(Append(s, x)) = n + 1
    BY <1>1, <1>2
<1> QED BY <1>1, <1>3 DEF IsSeq

\* Pop makes a stack one lower.
LEMMA SeqPop ==
    ASSUME NEW s, NEW n, IsSeq(s, n), n > 0
    PROVE  IsSeq(Pop(s), n - 1)
<1>1. Len(s) = n
    BY SeqLen
<1>2. Pop(s) = [i \in 1..(n - 1) |-> s[i]]
    BY <1>1 DEF Pop, IsSeq
<1> QED BY <1>2 DEF IsSeq

-----------------------------------------------------------------------------
(* Reading one more token                                                  *)

\* Cardinality of the braces up to a place.
LEMMA BracesFinite ==
    ASSUME NEW tokens, NEW type, NEW i \in Nat
    PROVE  /\ IsFiniteSet(Braces(tokens, type, i))
           /\ Cardinality(Braces(tokens, type, i)) \in Nat
<1>1. IsFiniteSet(1..i)
    BY FS_Interval
<1>2. Braces(tokens, type, i) \subseteq 1..i
    BY DEF Braces
<1> QED BY <1>1, <1>2, FS_Subset, FS_CardinalityType

\* A brace counts one more, any other token counts nothing.
LEMMA BracesStep ==
    ASSUME NEW tokens, NEW type, NEW i \in Nat \ {0}
    PROVE  Cardinality(Braces(tokens, type, i)) =
               Cardinality(Braces(tokens, type, i - 1)) + (IF Type(tokens, i) = type THEN 1 ELSE 0)
<1> DEFINE B == Braces(tokens, type, i - 1)
<1>1. IsFiniteSet(B) /\ Cardinality(B) \in Nat
    BY BracesFinite
<1>2. i \notin B
    BY DEF Braces
<1>3. CASE Type(tokens, i) = type
    <2>1. Braces(tokens, type, i) = B \cup {i}
        BY <1>3 DEF Braces, Type
    <2>2. Cardinality(B \cup {i}) = Cardinality(B) + 1
        BY <1>1, <1>2, FS_AddElement
    <2> QED BY <1>3, <2>1, <2>2
<1>4. CASE Type(tokens, i) # type
    <2>1. Braces(tokens, type, i) = B
        BY <1>4 DEF Braces, Type
    <2> QED BY <1>1, <1>4, <2>1
<1> QED BY <1>3, <1>4

\* Nothing is counted before the first token.
LEMMA BracesStart ==
    ASSUME NEW tokens, NEW type
    PROVE  Cardinality(Braces(tokens, type, 0)) = 0
<1>1. Braces(tokens, type, 0) = {}
    BY DEF Braces
<1> QED BY <1>1, FS_EmptySet

\* Only one type precedes a place.
LEMMA LastUnique ==
    ASSUME NEW tokens, NEW i \in Nat, NEW a, NEW b,
           Last(tokens, a, i), Precedes(tokens, b, i)
    PROVE  a = b
<1>1. PICK k \in 1..(i - 1) : /\ Code(tokens, k) /\ Type(tokens, k) = b
                              /\ \A j \in (k + 1)..(i - 1) : ~Code(tokens, j)
    BY DEF Precedes, Type
<1>2. PICK m \in 1..(i - 1) : /\ Code(tokens, m) /\ Type(tokens, m) = a
                              /\ \A j \in (m + 1)..(i - 1) : ~Code(tokens, j)
    BY <1>1 DEF Last, OnlyComments, Precedes, Type
<1>3. ~(k < m) /\ ~(m < k)
    BY <1>1, <1>2
<1> QED BY <1>1, <1>2, <1>3

\* A comment changes nothing about what precedes, any other token does.
LEMMA LastStep ==
    ASSUME NEW tokens, NEW i \in Nat \ {0}, NEW a
    PROVE  /\ Type(tokens, i) = "COMMENT" /\ Last(tokens, a, i) => Last(tokens, a, i + 1)
           /\ Type(tokens, i) # "COMMENT" => Last(tokens, Type(tokens, i), i + 1)
<1>1. ASSUME Type(tokens, i) = "COMMENT", Precedes(tokens, a, i)
      PROVE  Precedes(tokens, a, i + 1)
    <2>1. PICK k \in 1..(i - 1) : /\ Code(tokens, k) /\ getToken(tokens, k).type = a
                                  /\ \A j \in (k + 1)..(i - 1) : ~Code(tokens, j)
        BY <1>1 DEF Precedes
    <2>2. \A j \in (k + 1)..((i + 1) - 1) : ~Code(tokens, j)
        BY <1>1, <2>1 DEF Code, Type
    <2>3. k \in 1..((i + 1) - 1)
        OBVIOUS
    <2> QED BY <2>1, <2>2, <2>3 DEF Precedes
<1>2. ASSUME Type(tokens, i) = "COMMENT", OnlyComments(tokens, i)
      PROVE  OnlyComments(tokens, i + 1)
    BY <1>2 DEF OnlyComments, Code, Type
<1>3. ASSUME Type(tokens, i) # "COMMENT"
      PROVE  Precedes(tokens, Type(tokens, i), i + 1)
    <2>1. i \in 1..((i + 1) - 1) /\ (i + 1)..((i + 1) - 1) = {}
        OBVIOUS
    <2> QED BY <1>3, <2>1 DEF Precedes, Code, Type
<1> QED BY <1>1, <1>2, <1>3 DEF Last

\* The depth of the braces through one more token.
LEMMA DepthStep ==
    ASSUME NEW tokens, NEW i \in Nat \ {0}, NEW b \in Int,
           b = Opened(tokens, i - 1) - Closed(tokens, i - 1)
    PROVE  /\ Opened(tokens, i - 1) \in Nat /\ Closed(tokens, i - 1) \in Nat
           /\ Type(tokens, i) = "START_BLOCK" =>
                 /\ Opened(tokens, i) = Opened(tokens, i - 1) + 1
                 /\ Closed(tokens, i) = Closed(tokens, i - 1)
                 /\ Depth(tokens, i) = b + 1
           /\ Type(tokens, i) = "END_BLOCK" =>
                 /\ Opened(tokens, i) = Opened(tokens, i - 1)
                 /\ Closed(tokens, i) = Closed(tokens, i - 1) + 1
                 /\ Depth(tokens, i) = b - 1
           /\ Type(tokens, i) \notin {"START_BLOCK", "END_BLOCK"} =>
                 /\ Opened(tokens, i) = Opened(tokens, i - 1)
                 /\ Closed(tokens, i) = Closed(tokens, i - 1)
                 /\ Depth(tokens, i) = b
<1>1. Opened(tokens, i - 1) \in Nat /\ Closed(tokens, i - 1) \in Nat
    BY BracesFinite DEF Opened, Closed
<1>2. Opened(tokens, i) = Opened(tokens, i - 1) + (IF Type(tokens, i) = "START_BLOCK" THEN 1 ELSE 0)
    BY BracesStep DEF Opened
<1>3. Closed(tokens, i) = Closed(tokens, i - 1) + (IF Type(tokens, i) = "END_BLOCK" THEN 1 ELSE 0)
    BY BracesStep DEF Closed
<1>4. Depth(tokens, i) = Opened(tokens, i) - Closed(tokens, i)
    BY DEF Depth, Opened, Closed
<1> QED BY <1>1, <1>2, <1>3, <1>4

-----------------------------------------------------------------------------
(* A turn of the loop                                                      *)

\* A file with something wrong before its end is not valid.
LEMMA NotValid ==
    ASSUME NEW tokens \in Seq(Token), NEW i \in 1..(Len(tokens) + 1),
           \A k \in 1..(i - 1) : Type(tokens, k) # "EOF",
           ~FineAt(tokens, i)
    PROVE  ~Valid(tokens)
<1> SUFFICES ASSUME NEW end \in 1..(Len(tokens) + 1), Type(tokens, end) = "EOF",
                    \A k \in 1..end : FineAt(tokens, k)
             PROVE  FALSE
    BY DEF Valid, Type
<1>1. Len(tokens) \in Nat
    OBVIOUS
<1>2. ~(end < i)
    BY <1>1
<1> QED BY <1>1, <1>2

\* The end of a file decides by its depth.
LEMMA ValidAtEnd ==
    ASSUME NEW tokens \in Seq(Token), NEW i \in 1..(Len(tokens) + 1),
           \A k \in 1..(i - 1) : Type(tokens, k) # "EOF" /\ FineAt(tokens, k),
           Type(tokens, i) = "EOF", FineAt(tokens, i)
    PROVE  Valid(tokens) <=> Depth(tokens, i) = 0
<1>1. Len(tokens) \in Nat
    OBVIOUS
<1>2. ASSUME Depth(tokens, i) = 0
      PROVE  Valid(tokens)
    <2>1. \A k \in 1..i : FineAt(tokens, k)
        BY <1>1
    <2> QED BY <1>2, <2>1 DEF Valid, Type
<1>3. ASSUME Valid(tokens)
      PROVE  Depth(tokens, i) = 0
    <2>1. PICK end \in 1..(Len(tokens) + 1) :
                 /\ Type(tokens, end) = "EOF"
                 /\ \A k \in 1..(end - 1) : Type(tokens, k) # "EOF"
                 /\ Depth(tokens, end) = 0
        BY <1>3 DEF Valid, Type
    <2>2. ~(end < i) /\ ~(i < end)
        BY <1>1, <2>1
    <2>3. end = i
        BY <1>1, <2>2
    <2> QED BY <2>1, <2>3
<1> QED BY <1>2, <1>3

\* At the start the loop knows what it should.
LEMMA ParseStarts ==
    ASSUME NEW tokens \in Seq(Token)
    PROVE  IsParser(StartState) /\ ParseInv(StartState, tokens, 1)
<1>1. IsParser(StartState)
    BY DEF IsParser, StartState
<1>2. Opened(tokens, 0) = 0 /\ Closed(tokens, 0) = 0
    BY BracesStart DEF Opened, Closed
<1>3. IsSeq(StartState.config_stack, StartState.braces + 1)
    BY DEF IsSeq, StartState
<1>4. IsSeq(StartState.config_blocks_content, 0)
    BY DEF IsSeq, StartState
<1>5. Last(tokens, "START", 1)
    BY DEF Last, OnlyComments
<1>6. Len(tokens) \in Nat
    OBVIOUS
<1> QED BY <1>1, <1>2, <1>3, <1>4, <1>5, <1>6 DEF ParseInv, StartState, TokenTypes

\* A turn keeps what the loop knows, or returns what Valid says.
LEMMA TurnKeeps ==
    ASSUME NEW tokens \in Seq(Token), NEW i, NEW p, IsParser(p), p.result = "running",
           ParseInv(p, tokens, i), NEW q, q = Turn(p, getToken(tokens, i))
    PROVE  /\ IsParser(q)
           /\ q.result \in {"running", "true", "false"}
           /\ q.braces \in Nat /\ q.last_token_type \in TokenTypes
           /\ q.result = "running" => ParseInv(q, tokens, i + 1)
           /\ q.result # "running" => (q.result = "true" <=> Valid(tokens))
<1> DEFINE type == Type(tokens, i)
           t == getToken(tokens, i)
           fail == [p EXCEPT !.result = "false"]
           last(r) == [r EXCEPT !.last_token_type = type]
<1>1. /\ Len(tokens) \in Nat /\ i \in Nat \ {0} /\ i \in 1..(Len(tokens) + 1)
      /\ p.braces \in Nat /\ p.last_token_type \in TokenTypes
      /\ (i + 1) - 1 = i
    BY DEF ParseInv
<1>2. type \in TokenTypes \ {"START"} /\ (type # "EOF" => i \in 1..Len(tokens))
    <2>1. CASE i \in 1..Len(tokens)
        <3>1. tokens[i] \in Token
            BY <2>1
        <3> QED BY <2>1, <3>1, <1>1 DEF Type, getToken, Token
    <2>2. CASE i = Len(tokens) + 1
        BY <2>2, <1>1 DEF Type, getToken, EndToken, TokenTypes
    <2> QED BY <2>1, <2>2, <1>1
<1>3. /\ \A k \in 1..(i - 1) : Type(tokens, k) # "EOF" /\ FineAt(tokens, k)
      /\ Last(tokens, p.last_token_type, i)
      /\ p.braces = Opened(tokens, i - 1) - Closed(tokens, i - 1)
      /\ IsSeq(p.config_stack, p.braces + 1)
      /\ IsSeq(p.config_blocks_content, Closed(tokens, i - 1))
      /\ p.last_token_type = "START" => p.braces = 0
      /\ p.last_token_type = "START_BLOCK" => p.braces > 0
    BY DEF ParseInv
<1>4. Len(p.config_stack) = p.braces + 1
    BY <1>3, SeqLen
<1>5. /\ Opened(tokens, i - 1) \in Nat /\ Closed(tokens, i - 1) \in Nat
      /\ type = "START_BLOCK" => /\ Opened(tokens, i) = Opened(tokens, i - 1) + 1
                                 /\ Closed(tokens, i) = Closed(tokens, i - 1)
                                 /\ Depth(tokens, i) = p.braces + 1
      /\ type = "END_BLOCK" => /\ Opened(tokens, i) = Opened(tokens, i - 1)
                               /\ Closed(tokens, i) = Closed(tokens, i - 1) + 1
                               /\ Depth(tokens, i) = p.braces - 1
      /\ type \notin {"START_BLOCK", "END_BLOCK"} =>
              /\ Opened(tokens, i) = Opened(tokens, i - 1)
              /\ Closed(tokens, i) = Closed(tokens, i - 1)
              /\ Depth(tokens, i) = p.braces
    <2>1. p.braces \in Int
        BY <1>1
    <2> QED BY <1>1, <1>3, <2>1, DepthStep
<1>6. FineAt(tokens, i) <=>
          /\ type # "ERROR"
          /\ type \in {"STATEMENT_END", "START_BLOCK"} => Precedes(tokens, "NORMAL", i)
          /\ type \in {"END_BLOCK", "EOF"} => ~Precedes(tokens, "NORMAL", i)
          /\ Depth(tokens, i) >= 0
    BY DEF FineAt, Type
<1>7. Precedes(tokens, "NORMAL", i) <=> p.last_token_type = "NORMAL"
    <2>1. ASSUME Precedes(tokens, "NORMAL", i)
          PROVE  p.last_token_type = "NORMAL"
        BY <1>1, <1>3, <2>1, LastUnique
    <2> QED BY <1>3, <2>1 DEF Last
<1>8. IsParser(fail) /\ fail.result = "false" /\ fail.braces = p.braces
      /\ fail.last_token_type = p.last_token_type
    BY DEF IsParser
<1>9. ASSUME ~FineAt(tokens, i)
      PROVE  ~Valid(tokens)
    BY <1>1, <1>3, <1>9, NotValid
<1>10. ASSUME type # "EOF", FineAt(tokens, i)
       PROVE  /\ i + 1 \in 1..(Len(tokens) + 1)
              /\ \A k \in 1..((i + 1) - 1) : Type(tokens, k) # "EOF" /\ FineAt(tokens, k)
    BY <1>1, <1>2, <1>3, <1>10
<1>11. /\ type = "COMMENT" => Last(tokens, p.last_token_type, i + 1)
       /\ type # "COMMENT" => Last(tokens, type, i + 1)
    BY <1>1, <1>3, LastStep
<1>12. CASE type = "END_BLOCK" /\ p.braces = 0
    <2>1. q = fail
        BY <1>12 DEF Turn, Type
    <2>2. ~FineAt(tokens, i)
        BY <1>5, <1>6, <1>12
    <2> QED BY <1>1, <1>8, <1>9, <2>1, <2>2
<1>13. CASE type = "COMMENT"
    <2>1. q = p
        BY <1>13 DEF Turn, Type
    <2>2. FineAt(tokens, i)
        BY <1>1, <1>5, <1>6, <1>13
    <2>3. ParseInv(p, tokens, i + 1)
        BY <1>1, <1>3, <1>5, <1>10, <1>11, <1>13, <2>2 DEF ParseInv
    <2> QED BY <1>1, <2>1, <2>3
<1>14. CASE ~(type = "END_BLOCK" /\ p.braces = 0) /\ type # "COMMENT"
            /\ p.last_token_type \notin MayFollow(type)
    <2>1. q = fail
        BY <1>14 DEF Turn, Type
    <2>2. ~Valid(tokens)
        <3>1. CASE type = "NORMAL"
            <4>1. p.last_token_type \in {"COMMENT", "EOF", "ERROR"}
                BY <1>1, <1>14, <3>1 DEF MayFollow, TokenTypes
            <4>2. PICK k \in 1..(i - 1) :
                         Code(tokens, k) /\ Type(tokens, k) = p.last_token_type
                BY <1>3, <4>1 DEF Last, Precedes, Type
            <4> QED BY <1>3, <4>1, <4>2 DEF Code, Type, FineAt
        <3>2. CASE type \in {"STATEMENT_END", "START_BLOCK"}
            BY <1>6, <1>7, <1>9, <1>14, <3>2 DEF MayFollow
        <3>3. CASE type = "END_BLOCK"
            <4>1. p.last_token_type \in {"START", "NORMAL", "COMMENT", "EOF", "ERROR"}
                BY <1>1, <1>14, <3>3 DEF MayFollow, TokenTypes
            <4>2. CASE p.last_token_type = "START"
                BY <1>3, <1>14, <3>3, <4>2
            <4>3. CASE p.last_token_type = "NORMAL"
                BY <1>6, <1>7, <1>9, <3>3, <4>3
            <4>4. CASE p.last_token_type \in {"COMMENT", "EOF", "ERROR"}
                <5>1. PICK k \in 1..(i - 1) :
                             Code(tokens, k) /\ Type(tokens, k) = p.last_token_type
                    BY <1>3, <4>4 DEF Last, Precedes, Type
                <5> QED BY <1>3, <4>4, <5>1 DEF Code, Type, FineAt
            <4> QED BY <4>1, <4>2, <4>3, <4>4
        <3>4. CASE type = "EOF"
            <4>1. p.last_token_type \in {"START_BLOCK", "NORMAL", "COMMENT", "EOF", "ERROR"}
                BY <1>1, <1>14, <3>4 DEF MayFollow, TokenTypes
            <4>2. CASE p.last_token_type = "START_BLOCK"
                <5>1. Depth(tokens, i) # 0
                    BY <1>1, <1>3, <1>5, <3>4, <4>2
                <5> QED BY <1>1, <1>3, <1>9, <3>4, <5>1, ValidAtEnd
            <4>3. CASE p.last_token_type = "NORMAL"
                BY <1>6, <1>7, <1>9, <3>4, <4>3
            <4>4. CASE p.last_token_type \in {"COMMENT", "EOF", "ERROR"}
                <5>1. PICK k \in 1..(i - 1) :
                             Code(tokens, k) /\ Type(tokens, k) = p.last_token_type
                    BY <1>3, <4>4 DEF Last, Precedes, Type
                <5> QED BY <1>3, <4>4, <5>1 DEF Code, Type, FineAt
            <4> QED BY <4>1, <4>2, <4>3, <4>4
        <3>5. CASE type = "ERROR"
            BY <1>6, <1>9, <3>5
        <3> QED BY <1>2, <1>14, <3>1, <3>2, <3>3, <3>4, <3>5 DEF TokenTypes
    <2> QED BY <1>1, <1>8, <2>1, <2>2
<1>15. CASE type = "NORMAL" /\ p.last_token_type \in MayFollow(type)
    <2> DEFINE r == AddWord(p, t.value)
    <2>1. q = last(r)
        BY <1>15 DEF Turn, Type
    <2>2. PICK x : r = [p EXCEPT !.config_stack = Replace(@, x)]
        BY Zenon DEF AddWord
    <2> HIDE DEF r
    <2>3. /\ IsParser(q) /\ q.result = "running" /\ q.braces = p.braces
          /\ q.last_token_type = "NORMAL" /\ q.config_stack = Replace(p.config_stack, x)
          /\ q.config_blocks_content = p.config_blocks_content
        BY <1>15, <2>1, <2>2 DEF IsParser
    <2>4. IsSeq(q.config_stack, q.braces + 1)
        BY <1>3, <2>3, SeqReplace
    <2>5. FineAt(tokens, i)
        BY <1>1, <1>5, <1>6, <1>15
    <2>6. ParseInv(q, tokens, i + 1)
        BY <1>1, <1>3, <1>5, <1>10, <1>11, <1>15, <2>3, <2>4, <2>5 DEF ParseInv, TokenTypes
    <2> QED BY <1>1, <2>3, <2>6 DEF TokenTypes
<1>16. CASE type = "STATEMENT_END" /\ p.last_token_type \in MayFollow(type)
    <2>1. q = last(p)
        BY <1>16 DEF Turn, Type
    <2>2. /\ IsParser(q) /\ q.result = "running" /\ q.braces = p.braces
          /\ q.last_token_type = "STATEMENT_END" /\ q.config_stack = p.config_stack
          /\ q.config_blocks_content = p.config_blocks_content
        BY <1>16, <2>1 DEF IsParser
    <2>3. FineAt(tokens, i)
        BY <1>1, <1>5, <1>6, <1>7, <1>16 DEF MayFollow
    <2>4. ParseInv(q, tokens, i + 1)
        BY <1>1, <1>3, <1>5, <1>10, <1>11, <1>16, <2>2, <2>3 DEF ParseInv, TokenTypes
    <2> QED BY <1>1, <2>2, <2>4 DEF TokenTypes
<1>17. CASE type = "START_BLOCK" /\ p.last_token_type \in MayFollow(type)
    <2>1. q = last(OpenBlock(p))
        BY <1>17 DEF Turn, Type
    <2>2. PICK x : OpenBlock(p) = [p EXCEPT !.config_stack = Append(Replace(@, x), <<>>),
                                            !.braces = @ + 1]
        BY Zenon DEF OpenBlock
    <2>3. /\ IsParser(q) /\ q.result = "running" /\ q.braces = p.braces + 1
          /\ q.last_token_type = "START_BLOCK"
          /\ q.config_stack = Append(Replace(p.config_stack, x), <<>>)
          /\ q.config_blocks_content = p.config_blocks_content
        BY <1>17, <2>1, <2>2 DEF IsParser
    <2>4. IsSeq(q.config_stack, q.braces + 1)
        <3>1. IsSeq(Replace(p.config_stack, x), p.braces + 1)
            BY <1>3, SeqReplace
        <3>2. IsSeq(Append(Replace(p.config_stack, x), <<>>), (p.braces + 1) + 1)
            BY <3>1, SeqAppend
        <3> QED BY <2>3, <3>2
    <2>5. FineAt(tokens, i)
        BY <1>1, <1>5, <1>6, <1>7, <1>17 DEF MayFollow
    <2>6. q.braces = Opened(tokens, i) - Closed(tokens, i) /\ q.braces \in Nat /\ q.braces > 0
        BY <1>1, <1>3, <1>5, <1>17, <2>3
    <2>7. ParseInv(q, tokens, i + 1)
        BY <1>1, <1>3, <1>5, <1>10, <1>11, <1>17, <2>3, <2>4, <2>5, <2>6 DEF ParseInv, TokenTypes
    <2> QED BY <1>1, <2>3, <2>6, <2>7 DEF TokenTypes
<1>18. CASE type = "END_BLOCK" /\ p.braces # 0 /\ p.last_token_type \in MayFollow(type)
    <2>1. q = last(CloseBlock(p))
        BY <1>1, <1>4, <1>18 DEF Turn, Type
    <2>2. PICK x, y : CloseBlock(p) =
                          [p EXCEPT !.config_stack = Replace(Pop(p.config_stack), x),
                                    !.braces = @ - 1,
                                    !.config_blocks_content = Append(@, y)]
        BY Zenon DEF CloseBlock
    <2>3. /\ IsParser(q) /\ q.result = "running" /\ q.braces = p.braces - 1
          /\ q.last_token_type = "END_BLOCK"
          /\ q.config_stack = Replace(Pop(p.config_stack), x)
          /\ q.config_blocks_content = Append(p.config_blocks_content, y)
        BY <1>18, <2>1, <2>2 DEF IsParser
    <2>4. IsSeq(q.config_stack, q.braces + 1)
        <3>1. IsSeq(Pop(p.config_stack), (p.braces + 1) - 1)
            BY <1>1, <1>3, SeqPop
        <3>2. IsSeq(Replace(Pop(p.config_stack), x), (p.braces + 1) - 1)
            BY <3>1, SeqReplace
        <3>3. (p.braces + 1) - 1 = q.braces + 1
            BY <1>1, <2>3
        <3> QED BY <2>3, <3>2, <3>3
    <2>5. IsSeq(q.config_blocks_content, Closed(tokens, i))
        BY <1>3, <1>5, <1>18, <2>3, SeqAppend
    <2>6. FineAt(tokens, i)
        BY <1>1, <1>5, <1>6, <1>7, <1>18 DEF MayFollow
    <2>7. q.braces = Opened(tokens, i) - Closed(tokens, i) /\ q.braces \in Nat
        <3>1. /\ Opened(tokens, i) = Opened(tokens, i - 1)
              /\ Closed(tokens, i) = Closed(tokens, i - 1) + 1
              /\ Opened(tokens, i - 1) \in Nat /\ Closed(tokens, i - 1) \in Nat
            BY <1>5, <1>18
        <3>2. p.braces \in Nat /\ p.braces # 0 /\ q.braces = p.braces - 1
            BY <1>1, <1>18, <2>3
        <3> QED BY <1>3, <3>1, <3>2
    <2>8. ParseInv(q, tokens, i + 1)
        BY <1>1, <1>10, <1>11, <1>18, <2>3, <2>4, <2>5, <2>6, <2>7 DEF ParseInv, TokenTypes
    <2> QED BY <1>1, <2>3, <2>7, <2>8 DEF TokenTypes
<1>19. CASE type = "EOF" /\ p.last_token_type \in MayFollow(type)
    <2>1. q = IF p.braces = 0 THEN [p EXCEPT !.result = "true"] ELSE fail
        BY <1>1, <1>4, <1>19 DEF Turn, Type
    <2>2. FineAt(tokens, i)
        BY <1>1, <1>5, <1>6, <1>7, <1>19 DEF MayFollow
    <2>3. Valid(tokens) <=> p.braces = 0
        BY <1>1, <1>3, <1>5, <1>19, <2>2, ValidAtEnd
    <2>4. CASE p.braces = 0
        BY <1>1, <2>1, <2>3, <2>4 DEF IsParser
    <2>5. CASE p.braces # 0
        BY <1>1, <1>8, <2>1, <2>3, <2>5
    <2> QED BY <2>4, <2>5
<1> HIDE DEF type, t, fail, last
<1>20. MayFollow("COMMENT") = {} /\ MayFollow("ERROR") = {}
    BY DEF MayFollow
<1>21. p.last_token_type \in MayFollow(type) =>
           type \in {"NORMAL", "STATEMENT_END", "START_BLOCK", "END_BLOCK", "EOF"}
    BY <1>2, <1>20 DEF TokenTypes
<1> QED BY <1>12, <1>13, <1>14, <1>15, <1>16, <1>17, <1>18, <1>19, <1>21

-----------------------------------------------------------------------------
(* Induction over numbers, as facts about sets and functions               *)

\* A set of naturals that is not empty has a least element.
LEMMA LeastElement ==
    ASSUME NEW S \in SUBSET Nat, S # {}
    PROVE  \E i \in S : \A j \in S : i <= j
<1>1. PICK i \in S : \A j \in S : ~(<<j, i>> \in OpToRel(<, Nat))
    BY WFMin, NatLessThanWellFounded, Zenon
<1>2. ASSUME NEW j \in S PROVE i <= j
    <2>1. i \in Nat /\ j \in Nat
        OBVIOUS
    <2>2. j < i => <<j, i>> \in OpToRel(<, Nat)
        BY <2>1 DEF OpToRel
    <2>3. ~(j < i)
        BY <1>1, <2>2, Zenon
    <2> QED BY <2>1, <2>3
<1> QED BY <1>2

\* A set with the first of m..n and with the next of each of its members.
LEMMA UpFrom ==
    ASSUME NEW m \in Nat, NEW n \in Nat, NEW T, m \in T,
           \A i \in m..(n - 1) : i \in T => i + 1 \in T
    PROVE  \A i \in m..n : i \in T
<1> DEFINE Missing == {i \in m..n : i \notin T}
<1> SUFFICES ASSUME Missing # {} PROVE FALSE
    OBVIOUS
<1>1. Missing \in SUBSET Nat
    OBVIOUS
<1>2. PICK i \in Missing : \A j \in Missing : i <= j
    <2> HIDE DEF Missing
    <2> QED BY <1>1, LeastElement
<1>3. i \in m..n /\ i \notin T /\ i # m
    OBVIOUS
<1>4. i - 1 \in m..(n - 1) /\ i - 1 \in m..n /\ (i - 1) + 1 = i
    BY <1>3
<1>5. i - 1 \notin T
    BY <1>3, <1>4
<1>6. i - 1 \in Missing
    BY <1>4, <1>5
<1> QED BY <1>2, <1>3, <1>6

\* f starts with x and goes on with step.
Iterates(f, n, S, x, step) ==
    /\ f \in [0..n -> S] /\ f[0] = x
    /\ \A i \in 1..n : f[i] = step[<<f[i - 1], i>>]

\* A definition by recursion over 0..n describes a function, if its step keeps
\* within a set.
LEMMA RecursionExists ==
    ASSUME NEW n \in Nat, NEW S, NEW x \in S, NEW step \in [S \X (1..n) -> S]
    PROVE  \E f : Iterates(f, n, S, x, step)
<1> DEFINE Fits(f, k) == /\ f \in [0..k -> S] /\ f[0] = x
                         /\ \A i \in 1..k : f[i] = step[<<f[i - 1], i>>]
           T == {k \in 0..n : \E f : Fits(f, k)}
<1>1. 0 \in T
    <2> DEFINE f == [i \in 0..0 |-> x]
    <2>1. f \in [0..0 -> S] /\ f[0] = x /\ 1..0 = {}
        OBVIOUS
    <2>2. Fits(f, 0) /\ 0 \in 0..n
        BY <2>1
    <2> QED BY <2>2
<1>2. \A k \in 0..(n - 1) : k \in T => k + 1 \in T
    <2> SUFFICES ASSUME NEW k \in 0..(n - 1), k \in T PROVE k + 1 \in T
        OBVIOUS
    <2>1. PICK f : Fits(f, k)
        OBVIOUS
    <2>2. k + 1 \in 1..n /\ k + 1 \in 0..n /\ k \in Nat /\ k \in 0..k
        OBVIOUS
    <2>3. f[k] \in S
        BY <2>1, <2>2
    <2> DEFINE y == step[<<f[k], k + 1>>]
               g == [i \in 0..(k + 1) |-> IF i <= k THEN f[i] ELSE y]
    <2>4. y \in S
        BY <2>2, <2>3
    <2>5. \A i \in 0..k : f[i] \in S
        BY <2>1
    <2> HIDE DEF y
    <2>6. g \in [0..(k + 1) -> S]
        BY <2>2, <2>4, <2>5
    <2>7. g[0] = x
        BY <2>1, <2>2
    <2>8. \A i \in 1..(k + 1) : g[i] = step[<<g[i - 1], i>>]
        <3> TAKE i \in 1..(k + 1)
        <3>1. CASE i <= k
            <4>1. i \in 1..k /\ i \in 0..(k + 1) /\ i - 1 \in 0..(k + 1) /\ i - 1 <= k
                BY <2>2, <3>1
            <4> QED BY <2>1, <3>1, <4>1
        <3>2. CASE i = k + 1
            <4>1. i \in 0..(k + 1) /\ i - 1 = k /\ k \in 0..(k + 1) /\ ~(i <= k) /\ k <= k
                BY <2>2, <3>2
            <4> QED BY <3>2, <4>1 DEF y
        <3> QED BY <2>2, <3>1, <3>2
    <2> HIDE DEF g
    <2>9. Fits(g, k + 1)
        BY <2>6, <2>7, <2>8
    <2> QED BY <2>2, <2>9
<1> HIDE DEF Fits
<1>3. n \in T
    <2>1. n \in 0..n /\ 0 \in Nat
        OBVIOUS
    <2> HIDE DEF T
    <2> QED BY <1>1, <1>2, <2>1, UpFrom
<1> QED BY <1>3 DEF Fits, Iterates

-----------------------------------------------------------------------------
(* The tokenizer                                                           *)

\* First finds a place, or the end.
LEMMA FirstFinds ==
    ASSUME NEW file \in Text, NEW i \in Nat \ {0}, NEW S
    PROVE  \/ /\ First(file, i, S) \in i..Len(file)
              /\ file[First(file, i, S)] \in S
              /\ \A k \in i..(First(file, i, S) - 1) : file[k] \notin S
           \/ /\ First(file, i, S) = Len(file) + 1
              /\ \A k \in i..Len(file) : file[k] \notin S
<1> DEFINE hits == {k \in i..Len(file) : file[k] \in S}
<1>0. Len(file) \in Nat
    BY DEF Text
<1>1. CASE hits = {}
    BY <1>1 DEF First
<1>2. CASE hits # {}
    <2> DEFINE k == CHOOSE k \in hits : \A j \in hits : k <= j
    <2>1. First(file, i, S) = k
        BY <1>2, Zenon DEF First
    <2>2. hits \in SUBSET Nat
        BY <1>0
    <2>3. k \in hits /\ \A j \in hits : k <= j
        <3> HIDE DEF hits
        <3>1. \E m \in hits : \A j \in hits : m <= j
            BY <1>2, <2>2, LeastElement
        <3> QED BY <3>1, Zenon
    <2> HIDE DEF k
    <2>4. \A j \in i..(k - 1) : file[j] \notin S
        <3> SUFFICES ASSUME NEW j \in i..(k - 1), file[j] \in S PROVE FALSE
            OBVIOUS
        <3>1. k \in i..Len(file)
            BY <2>3
        <3>2. j \in i..Len(file) /\ j < k
            BY <1>0, <3>1
        <3>3. j \in hits
            BY <3>2
        <3> QED BY <2>3, <3>1, <3>2, <3>3
    <2> QED BY <2>1, <2>3, <2>4
<1> QED BY <1>1, <1>2

\* The place that First finds.
LEMMA FirstIs ==
    ASSUME NEW file \in Text, NEW i \in Nat \ {0}, NEW S, NEW k \in i..Len(file),
           file[k] \in S, \A j \in i..(k - 1) : file[j] \notin S
    PROVE  First(file, i, S) = k
<1> DEFINE f == First(file, i, S)
<1>0. Len(file) \in Nat
    BY DEF Text
<1>1. CASE /\ f \in i..Len(file) /\ file[f] \in S
           /\ \A j \in i..(f - 1) : file[j] \notin S
    <2> HIDE DEF f
    <2>1. ~(f < k) /\ ~(k < f)
        BY <1>0, <1>1
    <2>2. f = k
        BY <1>0, <1>1, <2>1
    <2> QED BY <2>2 DEF f
<1>2. CASE \A j \in i..Len(file) : file[j] \notin S
    BY <1>2
<1> QED BY <1>1, <1>2, FirstFinds

TokenAt(file, type, first, last, next) ==
    [type |-> type, value |-> SubSeq(file, first, last), next |-> next]

\* ParseToken, by the first character that is no blank.
LEMMA ParseTokenCases ==
    ASSUME NEW file, NEW from, NEW start, start = First(file, from, Lexemes \ Blanks)
    PROVE  /\ start > Len(file) => ParseToken(file, from) = TokenAt(file, "EOF", start, start - 1, start)
           /\ ~(start > Len(file)) =>
                /\ file[start] = LB => ParseToken(file, from) =
                      TokenAt(file, "START_BLOCK", start, start, start + 1)
                /\ file[start] = RB => ParseToken(file, from) =
                      TokenAt(file, "END_BLOCK", start, start, start + 1)
                /\ file[start] = SC => ParseToken(file, from) =
                      TokenAt(file, "STATEMENT_END", start, start, start + 1)
                /\ file[start] = HASH =>
                      LET stop == First(file, start + 1, {NL, CR})
                      IN  ParseToken(file, from) =
                            TokenAt(file, IF stop > Len(file) THEN "EOF" ELSE "COMMENT",
                                    start, stop - 1, stop + 1)
                /\ file[start] \in {DQ, SQ} =>
                      LET stop == First(file, start + 1, {file[start]})
                      IN  ParseToken(file, from) =
                            IF stop > Len(file) THEN TokenAt(file, "ERROR", start, stop - 1, stop)
                                                ELSE TokenAt(file, "NORMAL", start, stop, stop + 1)
                /\ file[start] \notin {LB, RB, SC, HASH, DQ, SQ} =>
                      LET stop == First(file, start + 1, WordEnd)
                      IN  ParseToken(file, from) =
                            TokenAt(file, IF stop > Len(file) THEN "EOF" ELSE "NORMAL",
                                    start, stop - 1, stop)
<1>1. start > Len(file) => ParseToken(file, from) = TokenAt(file, "EOF", start, start - 1, start)
    BY Zenon DEF ParseToken, TokenAt
<1>2. ASSUME ~(start > Len(file)), file[start] = LB
      PROVE  ParseToken(file, from) = TokenAt(file, "START_BLOCK", start, start, start + 1)
    BY <1>2, Zenon DEF ParseToken, TokenAt, DQ, SQ, LB, RB, SC, HASH
<1>3. ASSUME ~(start > Len(file)), file[start] = RB
      PROVE  ParseToken(file, from) = TokenAt(file, "END_BLOCK", start, start, start + 1)
    BY <1>3, Zenon DEF ParseToken, TokenAt, DQ, SQ, LB, RB, SC, HASH
<1>4. ASSUME ~(start > Len(file)), file[start] = SC
      PROVE  ParseToken(file, from) = TokenAt(file, "STATEMENT_END", start, start, start + 1)
    BY <1>4, Zenon DEF ParseToken, TokenAt, DQ, SQ, LB, RB, SC, HASH
<1>5. ASSUME ~(start > Len(file)), file[start] = HASH, NEW stop,
             stop = First(file, start + 1, {NL, CR})
      PROVE  ParseToken(file, from) =
                TokenAt(file, IF stop > Len(file) THEN "EOF" ELSE "COMMENT",
                        start, stop - 1, stop + 1)
    BY <1>5, Zenon DEF ParseToken, TokenAt, DQ, SQ, LB, RB, SC, HASH
<1>6. ASSUME ~(start > Len(file)), file[start] \in {DQ, SQ}, NEW stop,
             stop = First(file, start + 1, {file[start]})
      PROVE  ParseToken(file, from) =
                IF stop > Len(file) THEN TokenAt(file, "ERROR", start, stop - 1, stop)
                                    ELSE TokenAt(file, "NORMAL", start, stop, stop + 1)
    BY <1>6, Zenon DEF ParseToken, TokenAt, DQ, SQ, LB, RB, SC, HASH
<1>7. ASSUME ~(start > Len(file)), file[start] \notin {LB, RB, SC, HASH, DQ, SQ}, NEW stop,
             stop = First(file, start + 1, WordEnd)
      PROVE  ParseToken(file, from) =
                TokenAt(file, IF stop > Len(file) THEN "EOF" ELSE "NORMAL",
                        start, stop - 1, stop)
    BY <1>7, Zenon DEF ParseToken, TokenAt
<1> QED BY <1>1, <1>2, <1>3, <1>4, <1>5, <1>6, <1>7, Zenon

\* ParseToken gives a token and goes on within the file or right behind it.
LEMMA ParseTokenType ==
    ASSUME NEW file \in Text, NEW from \in 1..(Len(file) + 2)
    PROVE  /\ ParseToken(file, from).type \in TokenTypes \ {"START"}
           /\ ParseToken(file, from).value \in Text
           /\ ParseToken(file, from).next \in 1..(Len(file) + 2)
<1> DEFINE start == First(file, from, Lexemes \ Blanks)
           Good(t) == /\ t.type \in TokenTypes \ {"START"} /\ t.value \in Text
                      /\ t.next \in 1..(Len(file) + 2)
<1>0. Len(file) \in Nat /\ file \in Seq(Lexemes)
    BY DEF Text
<1>1. start \in 1..(Len(file) + 1)
    BY <1>0, FirstFinds
<1>2. ASSUME NEW type \in TokenTypes \ {"START"}, NEW last \in 0..Len(file),
             NEW next \in 1..(Len(file) + 2)
      PROVE  Good(TokenAt(file, type, start, last, next))
    <2> HIDE DEF start
    <2>1. SubSeq(file, start, last) \in Text
        BY <1>0, <1>1 DEF Text
    <2> QED BY <2>1 DEF TokenAt
<1> SUFFICES Good(ParseToken(file, from))
    OBVIOUS
<1> HIDE DEF Good
<1>3. ASSUME start <= Len(file), NEW S
      PROVE  LET stop == First(file, start + 1, S)
             IN  /\ stop - 1 \in 0..Len(file) /\ stop \in 1..(Len(file) + 2)
                 /\ stop + 1 \in 1..(Len(file) + 2)
                 /\ ~(stop > Len(file)) => stop \in 0..Len(file)
    <2> DEFINE stop == First(file, start + 1, S)
    <2> HIDE DEF start
    <2>1. start + 1 \in Nat \ {0}
        BY <1>1
    <2>2. stop \in (start + 1)..(Len(file) + 1)
        BY <1>0, <1>1, <1>3, <2>1, FirstFinds
    <2> HIDE DEF stop
    <2>3. /\ stop - 1 \in 0..Len(file) /\ stop \in 1..(Len(file) + 2)
          /\ stop + 1 \in 1..(Len(file) + 2)
          /\ ~(stop > Len(file)) => stop \in 0..Len(file)
        BY <1>0, <1>1, <2>2
    <2> QED BY <2>3 DEF stop
<1> HIDE DEF start
<1>4. CASE start > Len(file)
    <2>1. start - 1 \in 0..Len(file) /\ start \in 1..(Len(file) + 2)
        BY <1>0, <1>1
    <2>2. ParseToken(file, from) = TokenAt(file, "EOF", start, start - 1, start)
        BY <1>4, ParseTokenCases DEF start
    <2> QED BY <1>2, <2>1, <2>2 DEF TokenTypes
<1>5. CASE start <= Len(file)
    <2>1. ~(start > Len(file)) /\ start \in 0..Len(file) /\ start + 1 \in 1..(Len(file) + 2)
        BY <1>0, <1>1, <1>5
    <2>2. CASE file[start] \in {LB, RB, SC}
        <3>1. PICK type \in {"START_BLOCK", "END_BLOCK", "STATEMENT_END"} :
                     ParseToken(file, from) = TokenAt(file, type, start, start, start + 1)
            BY <2>1, <2>2, ParseTokenCases DEF start
        <3> QED BY <1>2, <2>1, <3>1 DEF TokenTypes
    <2>3. CASE file[start] = HASH
        <3> DEFINE stop == First(file, start + 1, {NL, CR})
        <3> DEFINE type == IF stop > Len(file) THEN "EOF" ELSE "COMMENT"
        <3>1. ParseToken(file, from) = TokenAt(file, type, start, stop - 1, stop + 1)
            BY <2>1, <2>3, ParseTokenCases, Zenon DEF start
        <3> QED BY <1>2, <1>3, <1>5, <2>1, <3>1 DEF TokenTypes
    <2>4. CASE file[start] \in {DQ, SQ}
        <3> DEFINE stop == First(file, start + 1, {file[start]})
        <3>1. ParseToken(file, from) =
                IF stop > Len(file) THEN TokenAt(file, "ERROR", start, stop - 1, stop)
                                    ELSE TokenAt(file, "NORMAL", start, stop, stop + 1)
            BY <2>1, <2>4, ParseTokenCases DEF start
        <3> QED BY <1>2, <1>3, <1>5, <2>1, <3>1 DEF TokenTypes
    <2>5. CASE file[start] \notin {LB, RB, SC, HASH, DQ, SQ}
        <3> DEFINE stop == First(file, start + 1, WordEnd)
        <3>1. PICK type \in {"EOF", "NORMAL"} :
                     ParseToken(file, from) = TokenAt(file, type, start, stop - 1, stop)
            BY <2>1, <2>5, ParseTokenCases DEF start
        <3> QED BY <1>2, <1>3, <1>5, <2>1, <3>1 DEF TokenTypes
    <2> QED BY <2>2, <2>3, <2>4, <2>5
<1> QED BY <1>0, <1>1, <1>4, <1>5

ReadState(file) == [next : 1..(Len(file) + 2), tokens : Seq(Token)]

TokensFrom(file) == [i \in 1..(Len(file) + 2) |-> ParseToken(file, i)]

\* A call adds a token or leaves everything as it is.
LEMMA ReadTokenType ==
    ASSUME NEW file \in Text, NEW read \in ReadState(file)
    PROVE  ReadToken(TokensFrom(file), read) \in ReadState(file)
<1> DEFINE t == TokensFrom(file)[read.next]
<1>1. read.next \in 1..(Len(file) + 2) /\ read.tokens \in Seq(Token)
    BY DEF ReadState
<1>2. t = ParseToken(file, read.next)
    BY <1>1 DEF TokensFrom
<1>3. /\ t.type \in TokenTypes \ {"START"} /\ t.value \in Text
      /\ t.next \in 1..(Len(file) + 2)
    BY <1>1, <1>2, ParseTokenType
<1>4. ReadToken(TokensFrom(file), read) =
        IF t.value = <<>> THEN read
        ELSE [next |-> t.next,
              tokens |-> Append(read.tokens, [type |-> t.type, value |-> t.value])]
    BY DEF ReadToken
<1> HIDE DEF t
<1>5. [type |-> t.type, value |-> t.value] \in Token
    BY <1>3 DEF Token
<1>6. Append(read.tokens, [type |-> t.type, value |-> t.value]) \in Seq(Token)
    BY <1>1, <1>5
<1> QED BY <1>3, <1>4, <1>6 DEF ReadState

\* The calls as the function that their recursive definition describes.
LEMMA ReadingDef ==
    ASSUME NEW file \in Text
    PROVE  /\ Reading(file) \in [0..Len(file) -> ReadState(file)]
           /\ Reading(file)[0] = [next |-> 1, tokens |-> <<>>]
           /\ \A k \in 1..Len(file) :
                 Reading(file)[k] = ReadToken(TokensFrom(file), Reading(file)[k - 1])
<1> DEFINE n == Len(file)
           S == ReadState(file)
           start == [next |-> 1, tokens |-> <<>>]
           step == [a \in S \X (1..n) |-> ReadToken(TokensFrom(file), a[1])]
           Fits(f) == f = [k \in 0..n |-> IF k = 0 THEN start
                                          ELSE ReadToken(TokensFrom(file), f[k - 1])]
<1>1. n \in Nat
    BY DEF Text
<1>2. start \in S
    BY <1>1 DEF ReadState
<1>3. step \in [S \X (1..n) -> S]
    BY ReadTokenType
<1> HIDE DEF n, S, start
<1>a. PICK f : Iterates(f, n, S, start, step)
    <2> HIDE DEF step
    <2> QED BY <1>1, <1>2, <1>3, RecursionExists
<1>4. f \in [0..n -> S] /\ f[0] = start /\ \A i \in 1..n : f[i] = step[<<f[i - 1], i>>]
    BY <1>a DEF Iterates
<1>5. \A i \in 1..n : f[i - 1] \in S /\ f[i] = ReadToken(TokensFrom(file), f[i - 1])
    <2> TAKE i \in 1..n
    <2>1. f[i - 1] \in S
        BY <1>1, <1>4
    <2>2. <<f[i - 1], i>> \in S \X (1..n) /\ <<f[i - 1], i>>[1] = f[i - 1]
        BY <2>1
    <2>3. step[<<f[i - 1], i>>] = ReadToken(TokensFrom(file), f[i - 1])
        BY <2>2
    <2> QED BY <1>4, <2>1, <2>3
<1>6. Fits(f)
    <2>1. \A k \in 0..n : f[k] = IF k = 0 THEN start ELSE ReadToken(TokensFrom(file), f[k - 1])
        BY <1>1, <1>4, <1>5
    <2> QED BY <1>4, <2>1
<1>7. Reading(file) = CHOOSE g : Fits(g)
    BY Zenon DEF Reading, TokensFrom, n, start
<1>8. Fits(Reading(file))
    <2> HIDE DEF Fits
    <2> QED BY <1>6, <1>7, Zenon
<1>9. /\ Reading(file)[0] = start
      /\ \A k \in 1..n : Reading(file)[k] = ReadToken(TokensFrom(file), Reading(file)[k - 1])
    <2> DEFINE r == Reading(file)
    <2>1. r = [k \in 0..n |-> IF k = 0 THEN start ELSE ReadToken(TokensFrom(file), r[k - 1])]
        BY <1>8
    <2> HIDE DEF r
    <2>2. r[0] = start /\ \A k \in 1..n : r[k] = ReadToken(TokensFrom(file), r[k - 1])
        BY <1>1, <2>1
    <2> QED BY <2>2 DEF r
<1>10. \A k \in 0..n : Reading(file)[k] \in S
    <2> DEFINE T == {k \in 0..n : Reading(file)[k] \in S}
    <2>1. 0 \in T
        BY <1>1, <1>2, <1>9
    <2>2. \A k \in 0..(n - 1) : k \in T => k + 1 \in T
        <3> SUFFICES ASSUME NEW k \in 0..(n - 1), Reading(file)[k] \in S
                     PROVE  k + 1 \in 0..n /\ Reading(file)[k + 1] \in S
            OBVIOUS
        <3>1. k + 1 \in 1..n /\ (k + 1) - 1 = k /\ k + 1 \in 0..n
            BY <1>1
        <3> QED BY <1>9, <3>1, ReadTokenType DEF S
    <2>3. 0 \in Nat
        OBVIOUS
    <2> HIDE DEF T
    <2>4. \A k \in 0..n : k \in T
        BY <1>1, <2>1, <2>2, <2>3, UpFrom
    <2> QED BY <2>4 DEF T
<1>11. Reading(file) = [k \in 0..n |-> Reading(file)[k]]
    BY <1>8, Zenon
<1>12. Reading(file) \in [0..n -> S]
    BY <1>10, <1>11
<1> QED BY <1>9, <1>12 DEF n, S, start

\* The tokenizer makes a sequence of tokens of every text.
LEMMA TokensType ==
    ASSUME NEW file \in Text
    PROVE  Tokens(file) \in Seq(Token)
<1>1. Len(file) \in 0..Len(file)
    BY DEF Text
<1>2. Reading(file)[Len(file)] \in ReadState(file)
    BY <1>1, ReadingDef
<1> QED BY <1>2 DEF ReadState, Tokens

-----------------------------------------------------------------------------
(* Which token is read where                                               *)

\* From this place the next token is read, and it is not empty.
Reads(file, from, type, value, next) ==
    /\ ParseToken(file, from).type = type
    /\ ParseToken(file, from).value = value /\ value # <<>>
    /\ ParseToken(file, from).next = next

\* Nothing but blanks up to place a, and something else there.
BlankTo(file, from, a) ==
    /\ from \in Nat \ {0} /\ a \in from..Len(file)
    /\ \A j \in from..(a - 1) : file[j] \in Blanks
    /\ file[a] \notin Blanks

\* Blanks are passed over.
LEMMA StartsAt ==
    ASSUME NEW file \in Text, NEW from, NEW a, BlankTo(file, from, a)
    PROVE  /\ First(file, from, Lexemes \ Blanks) = a /\ ~(a > Len(file)) /\ a \in Nat \ {0}
           /\ Len(file) \in Nat
<1>1. Len(file) \in Nat /\ from \in Nat \ {0} /\ a \in from..Len(file)
    BY DEF Text, BlankTo
<1>2. file[a] \in Lexemes
    BY <1>1 DEF Text
<1>3. \A j \in from..(a - 1) : file[j] \notin Lexemes \ Blanks
    BY DEF BlankTo
<1>4. file[a] \in Lexemes \ Blanks
    BY <1>2 DEF BlankTo
<1>5. First(file, from, Lexemes \ Blanks) = a
    <2> HIDE DEF Blanks
    <2> QED BY <1>1, <1>3, <1>4, FirstIs
<1> QED BY <1>1, <1>5

\* A word is no punctuation.
LEMMA WordsApart ==
    ASSUME NEW w \in Words
    PROVE  /\ w \notin Blanks
           /\ w \notin {LB, RB, SC, HASH, DQ, SQ}
           /\ w \notin WordEnd
<1>1. w \notin Punctuation
    BY WordsAssumption
<1> QED BY <1>1 DEF Punctuation, Blanks, WordEnd

\* One character of a text, as a text.
LEMMA SubSeqOne ==
    ASSUME NEW file \in Text, NEW a \in 1..Len(file)
    PROVE  SubSeq(file, a, a) = <<file[a]>>
<1>1. /\ SubSeq(file, a, a) \in Seq(Lexemes) /\ Len(SubSeq(file, a, a)) = 1
      /\ SubSeq(file, a, a)[1] = file[a]
    BY DEF Text
<1>2. <<file[a]>> \in Seq(Lexemes) /\ Len(<<file[a]>>) = 1 /\ <<file[a]>>[1] = file[a]
    BY DEF Text
<1>3. ASSUME NEW s \in Seq(Lexemes), NEW t \in Seq(Lexemes), Len(s) = 1, Len(t) = 1, s[1] = t[1]
      PROVE  s = t
    BY <1>3, SeqEqual
<1>4. SubSeq(file, a, a)[1] = <<file[a]>>[1]
    BY <1>1, <1>2, Zenon
<1> QED BY <1>1, <1>2, <1>3, <1>4, Zenon

\* Three of them
LEMMA SubSeqThree ==
    ASSUME NEW file \in Text, NEW a \in 1..Len(file), a + 2 <= Len(file)
    PROVE  SubSeq(file, a, a + 2) = <<file[a], file[a + 1], file[a + 2]>>
<1> DEFINE t == <<file[a], file[a + 1], file[a + 2]>>
           u == SubSeq(file, a, a + 2)
<1>1. u \in Seq(Lexemes) /\ Len(u) = 3 /\ u[1] = file[a] /\ u[2] = file[a + 1] /\ u[3] = file[a + 2]
    BY DEF Text
<1>2. t \in Seq(Lexemes) /\ Len(t) = 3 /\ t[1] = file[a] /\ t[2] = file[a + 1] /\ t[3] = file[a + 2]
    BY DEF Text
<1> HIDE DEF t, u
<1>3. \A i \in 1..3 : t[i] = u[i]
    BY <1>1, <1>2
<1>4. t = u
    BY <1>1, <1>2, <1>3, SeqEqual
<1> QED BY <1>4 DEF t, u

StartOf(file, from) == First(file, from, Lexemes \ Blanks)
WordStop(file, i)   == First(file, i, WordEnd)
QuoteStop(file, i)  == First(file, i, {DQ})
LineStop(file, i)   == First(file, i, {NL, CR})
IsMark(c)           == c \in {LB, RB, SC, HASH, DQ, SQ}

\* Words, quoted ones and comments that do not reach the end of the file
LEMMA WholeToken ==
    ASSUME NEW file, NEW from, NEW start, NEW stop,
           StartOf(file, from) = start, ~(start > Len(file)), ~(stop > Len(file))
    PROVE  /\ ~IsMark(file[start]) /\ WordStop(file, start + 1) = stop
              => ParseToken(file, from) = TokenAt(file, "NORMAL", start, stop - 1, stop)
           /\ file[start] = DQ /\ QuoteStop(file, start + 1) = stop
              => ParseToken(file, from) = TokenAt(file, "NORMAL", start, stop, stop + 1)
           /\ file[start] = HASH /\ LineStop(file, start + 1) = stop
              => ParseToken(file, from) = TokenAt(file, "COMMENT", start, stop - 1, stop + 1)
<1>1. ASSUME ~IsMark(file[start]), WordStop(file, start + 1) = stop
      PROVE  ParseToken(file, from) = TokenAt(file, "NORMAL", start, stop - 1, stop)
    BY <1>1, Zenon DEF ParseToken, TokenAt, StartOf, WordStop, IsMark
<1>2. ASSUME file[start] = DQ, QuoteStop(file, start + 1) = stop
      PROVE  ParseToken(file, from) = TokenAt(file, "NORMAL", start, stop, stop + 1)
    BY <1>2, Zenon DEF ParseToken, TokenAt, DQ, SQ, LB, RB, SC, HASH, StartOf, QuoteStop
<1>3. ASSUME file[start] = HASH, LineStop(file, start + 1) = stop
      PROVE  ParseToken(file, from) = TokenAt(file, "COMMENT", start, stop - 1, stop + 1)
    BY <1>3, Zenon DEF ParseToken, TokenAt, DQ, SQ, LB, RB, SC, HASH, StartOf, LineStop
<1> QED BY <1>1, <1>2, <1>3

\* A word that is followed by what may end it.
LEMMA ReadsWord ==
    ASSUME NEW file \in Text, NEW from, NEW a, BlankTo(file, from, a),
           a + 1 <= Len(file), file[a] \in Words, file[a + 1] \in WordEnd
    PROVE  Reads(file, from, "NORMAL", <<file[a]>>, a + 1)
<1>1. /\ StartOf(file, from) = a /\ ~(a > Len(file)) /\ a \in Nat \ {0}
      /\ Len(file) \in Nat
    BY StartsAt DEF StartOf
<1>2. ~IsMark(file[a])
    BY WordsApart DEF IsMark
<1>3. WordStop(file, a + 1) = a + 1
    <2>1. a + 1 \in Nat \ {0} /\ a + 1 \in (a + 1)..Len(file) /\ (a + 1)..((a + 1) - 1) = {}
        BY <1>1
    <2> HIDE DEF WordEnd
    <2> QED BY <2>1, FirstIs DEF WordStop
<1>4. ~(a + 1 > Len(file)) /\ (a + 1) - 1 = a /\ a \in 1..Len(file)
    BY <1>1
<1>5. ParseToken(file, from) = TokenAt(file, "NORMAL", a, a, a + 1)
    <2>1. ParseToken(file, from) = TokenAt(file, "NORMAL", a, (a + 1) - 1, a + 1)
        BY <1>1, <1>2, <1>3, <1>4, WholeToken
    <2> QED BY <1>4, <2>1
<1>6. SubSeq(file, a, a) = <<file[a]>>
    BY <1>4, SubSeqOne
<1>7. <<file[a]>> # <<>>
    OBVIOUS
<1> QED BY <1>5, <1>6, <1>7 DEF TokenAt, Reads

\* A brace or a semicolon.
LEMMA ReadsMark ==
    ASSUME NEW file \in Text, NEW from, NEW a, BlankTo(file, from, a)
    PROVE  /\ file[a] = LB => Reads(file, from, "START_BLOCK", <<LB>>, a + 1)
           /\ file[a] = RB => Reads(file, from, "END_BLOCK", <<RB>>, a + 1)
           /\ file[a] = SC => Reads(file, from, "STATEMENT_END", <<SC>>, a + 1)
<1>1. /\ First(file, from, Lexemes \ Blanks) = a /\ ~(a > Len(file)) /\ a \in Nat \ {0}
      /\ Len(file) \in Nat
    BY StartsAt
<1>2. SubSeq(file, a, a) = <<file[a]>>
    BY <1>1, SubSeqOne
<1>3. <<file[a]>> # <<>>
    OBVIOUS
<1>4. ASSUME NEW type, ParseToken(file, from) = TokenAt(file, type, a, a, a + 1)
      PROVE  Reads(file, from, type, <<file[a]>>, a + 1)
    BY <1>2, <1>3, <1>4 DEF TokenAt, Reads
<1>5. /\ file[a] = LB => ParseToken(file, from) = TokenAt(file, "START_BLOCK", a, a, a + 1)
      /\ file[a] = RB => ParseToken(file, from) = TokenAt(file, "END_BLOCK", a, a, a + 1)
      /\ file[a] = SC => ParseToken(file, from) = TokenAt(file, "STATEMENT_END", a, a, a + 1)
    BY <1>1, ParseTokenCases, Zenon
<1> QED BY <1>4, <1>5

\* A word in double quotes.
LEMMA ReadsQuoted ==
    ASSUME NEW file \in Text, NEW from, NEW a, BlankTo(file, from, a),
           a + 2 <= Len(file), file[a] = DQ, file[a + 1] \in Words, file[a + 2] = DQ
    PROVE  Reads(file, from, "NORMAL", <<DQ, file[a + 1], DQ>>, a + 3)
<1>1. /\ StartOf(file, from) = a /\ ~(a > Len(file)) /\ a \in Nat \ {0}
      /\ Len(file) \in Nat
    BY StartsAt DEF StartOf
<1>2. file[a + 1] # DQ
    BY WordsApart
<1>3. QuoteStop(file, a + 1) = a + 2
    <2>1. a + 1 \in Nat \ {0} /\ a + 2 \in (a + 1)..Len(file) /\ (a + 1)..((a + 2) - 1) = {a + 1}
        BY <1>1
    <2>2. \A j \in (a + 1)..((a + 2) - 1) : file[j] \notin {DQ}
        BY <1>2, <2>1
    <2>3. file[a + 2] \in {DQ}
        OBVIOUS
    <2> QED BY <2>1, <2>2, <2>3, FirstIs DEF QuoteStop, LineStop
<1>4. ~(a + 2 > Len(file)) /\ (a + 2) + 1 = a + 3
    BY <1>1
<1>5. ParseToken(file, from) = TokenAt(file, "NORMAL", a, a + 2, a + 3)
    <2>1. ParseToken(file, from) = TokenAt(file, "NORMAL", a, a + 2, (a + 2) + 1)
        BY <1>1, <1>3, <1>4, WholeToken
    <2> QED BY <1>4, <2>1
<1>6. SubSeq(file, a, a + 2) = <<file[a], file[a + 1], file[a + 2]>>
    <2>1. a \in 1..Len(file) /\ a + 2 <= Len(file)
        BY <1>1
    <2> QED BY <2>1, SubSeqThree
<1>7. <<DQ, file[a + 1], DQ>> # <<>>
    OBVIOUS
<1> QED BY <1>5, <1>6, <1>7 DEF TokenAt, Reads

\* A comment with a semicolon in it.
LEMMA ReadsComment ==
    ASSUME NEW file \in Text, NEW from, NEW a, BlankTo(file, from, a), a + 3 <= Len(file),
           file[a] = HASH, file[a + 1] = SP, file[a + 2] = SC, file[a + 3] = NL
    PROVE  Reads(file, from, "COMMENT", <<HASH, SP, SC>>, a + 4)
<1>1. /\ StartOf(file, from) = a /\ ~(a > Len(file)) /\ a \in Nat \ {0}
      /\ Len(file) \in Nat
    BY StartsAt DEF StartOf
<1>2. LineStop(file, a + 1) = a + 3
    <2>1. /\ a + 1 \in Nat \ {0} /\ a + 3 \in (a + 1)..Len(file)
          /\ \A j \in (a + 1)..((a + 3) - 1) : j = a + 1 \/ j = a + 2
        BY <1>1
    <2>2. \A j \in (a + 1)..((a + 3) - 1) : file[j] \notin {NL, CR}
        BY <2>1 DEF SP, SC, NL, CR
    <2>3. file[a + 3] \in {NL, CR}
        OBVIOUS
    <2> QED BY <2>1, <2>2, <2>3, FirstIs DEF QuoteStop, LineStop
<1>3. ~(a + 3 > Len(file)) /\ (a + 3) + 1 = a + 4 /\ (a + 3) - 1 = a + 2
    BY <1>1
<1>4. ParseToken(file, from) = TokenAt(file, "COMMENT", a, a + 2, a + 4)
    <2>1. ParseToken(file, from) = TokenAt(file, "COMMENT", a, (a + 3) - 1, (a + 3) + 1)
        BY <1>1, <1>2, <1>3, WholeToken
    <2> QED BY <1>3, <2>1
<1>5. SubSeq(file, a, a + 2) = <<file[a], file[a + 1], file[a + 2]>>
    <2>1. a \in 1..Len(file) /\ a + 2 <= Len(file)
        BY <1>1
    <2> QED BY <2>1, SubSeqThree
<1>6. <<HASH, SP, SC>> # <<>>
    OBVIOUS
<1> QED BY <1>4, <1>5, <1>6 DEF TokenAt, Reads

\* Behind the last token there is only the empty one.
LEMMA ReadsNothing ==
    ASSUME NEW file \in Text, NEW from \in Nat \ {0},
           \A j \in from..Len(file) : file[j] \in Blanks
    PROVE  ParseToken(file, from).value = <<>>
<1> DEFINE start == First(file, from, Lexemes \ Blanks)
<1>1. start = Len(file) + 1 /\ Len(file) \in Nat
    <2>1. Len(file) \in Nat
        BY DEF Text
    <2>2. \A j \in from..Len(file) : file[j] \notin Lexemes \ Blanks
        OBVIOUS
    <2> HIDE DEF Blanks
    <2> QED BY <2>1, <2>2, FirstFinds
<1>2. start > Len(file)
    BY <1>1
<1>3. ParseToken(file, from) = TokenAt(file, "EOF", start, start - 1, start)
    BY <1>2, ParseTokenCases, Zenon
<1>4. SubSeq(file, start, start - 1) = <<>>
    <2> HIDE DEF start
    <2> QED BY <1>1 DEF Text
<1> HIDE DEF start
<1> QED BY <1>3, <1>4 DEF TokenAt

\* Token number j is looked for at this place.
Starts(file, j, from) ==
    /\ j \in 1..(Len(file) + 1) /\ j <= from
    /\ Reading(file)[j - 1].next = from
    /\ Len(Reading(file)[j - 1].tokens) = j - 1

\* The first token is looked for at the start of the file.
LEMMA FirstStarts ==
    ASSUME NEW file \in Text
    PROVE  Starts(file, 1, 1)
<1>1. Len(file) \in Nat /\ 1 - 1 = 0
    BY DEF Text
<1>2. Reading(file)[0] = [next |-> 1, tokens |-> <<>>]
    BY ReadingDef
<1> QED BY <1>1, <1>2 DEF Starts

\* Later calls leave the tokens of earlier ones where they are.
LEMMA TokensStay ==
    ASSUME NEW file \in Text, NEW k \in 0..Len(file), NEW j \in 1..Len(Reading(file)[k].tokens)
    PROVE  /\ j \in 1..Len(Tokens(file))
           /\ Tokens(file)[j] = Reading(file)[k].tokens[j]
<1> DEFINE x == Reading(file)[k].tokens[j]
           T == {m \in Nat : /\ j \in 1..Len(Reading(file)[m].tokens)
                             /\ Reading(file)[m].tokens[j] = x}
<1>1. Len(file) \in Nat /\ k \in Nat
    BY DEF Text
<1>2. k \in T
    BY <1>1
<1>3. \A m \in k..(Len(file) - 1) : m \in T => m + 1 \in T
    <2> HIDE DEF x
    <2> SUFFICES ASSUME NEW m \in k..(Len(file) - 1), m \in T PROVE m + 1 \in T
        OBVIOUS
    <2> DEFINE read == Reading(file)[m]
               t == TokensFrom(file)[read.next]
               new == [type |-> t.type, value |-> t.value]
    <2>1. m + 1 \in 1..Len(file) /\ (m + 1) - 1 = m /\ m \in 0..Len(file) /\ m + 1 \in Nat
        BY <1>1
    <2>2. Reading(file)[m + 1] = ReadToken(TokensFrom(file), read) /\ read \in ReadState(file)
        BY <2>1, ReadingDef
    <2>3. Reading(file)[m + 1] = IF t.value = <<>> THEN read
                                 ELSE [next |-> t.next, tokens |-> Append(read.tokens, new)]
        BY <2>2 DEF ReadToken
    <2>4. read.tokens \in Seq(Token)
        BY <2>2 DEF ReadState
    <2>5. j \in 1..Len(read.tokens) /\ read.tokens[j] = x
        OBVIOUS
    <2>6. /\ j \in 1..Len(Append(read.tokens, new))
          /\ Append(read.tokens, new)[j] = x
        <3> HIDE DEF new, read
        <3> QED BY <2>4, <2>5
    <2>7. CASE t.value = <<>>
        <3> HIDE DEF t
        <3> QED BY <2>1, <2>3, <2>5, <2>7
    <2>8. CASE t.value # <<>>
        <3>1. Reading(file)[m + 1].tokens = Append(read.tokens, new)
            <4> HIDE DEF t, new
            <4> QED BY <2>3, <2>8
        <3> HIDE DEF t, new, read
        <3> QED BY <2>1, <2>6, <3>1
    <2> QED BY <2>7, <2>8
<1>4. Len(file) \in T
    <2>1. Len(file) \in k..Len(file)
        BY <1>1
    <2> HIDE DEF T
    <2> QED BY <1>1, <1>2, <1>3, <2>1, UpFrom
<1> QED BY <1>4 DEF Tokens

\* A token that is read at its place is the next one of the file.
LEMMA NextStarts ==
    ASSUME NEW file \in Text, NEW j, NEW from, NEW type, NEW value, NEW next \in Nat,
           Starts(file, j, from), from <= Len(file), from < next,
           Reads(file, from, type, value, next)
    PROVE  /\ Starts(file, j + 1, next)
           /\ j \in 1..Len(Tokens(file))
           /\ Tokens(file)[j] = [type |-> type, value |-> value]
<1> DEFINE read == Reading(file)[j - 1]
           t == TokensFrom(file)[read.next]
           new == [type |-> t.type, value |-> t.value]
<1>1. Len(file) \in Nat
    BY DEF Text
<1>2. /\ j \in 1..(Len(file) + 1) /\ j <= from /\ read.next = from
      /\ Len(read.tokens) = j - 1
    BY DEF Starts
<1>3. j \in 1..Len(file) /\ j - 1 \in 0..Len(file) /\ from \in 1..(Len(file) + 2)
    <2>0. j - 1 \in 0..Len(file)
        BY <1>1, <1>2
    <2>1. read \in ReadState(file)
        BY <2>0, ReadingDef
    <2>2. from \in 1..(Len(file) + 2)
        BY <1>2, <2>1 DEF ReadState
    <2> HIDE DEF read
    <2> QED BY <1>1, <1>2, <2>2
<1>4. Reading(file)[j] = ReadToken(TokensFrom(file), read) /\ read \in ReadState(file)
    BY <1>3, ReadingDef
<1>5. t = ParseToken(file, from)
    BY <1>2, <1>3 DEF TokensFrom
<1>6. t.type = type /\ t.value = value /\ value # <<>> /\ t.next = next
    BY <1>5 DEF Reads
<1>7. Reading(file)[j] = [next |-> next, tokens |-> Append(read.tokens, new)]
    BY <1>4, <1>6 DEF ReadToken
<1>8. new = [type |-> type, value |-> value]
    BY <1>6
<1>9. read.tokens \in Seq(Token)
    BY <1>4 DEF ReadState
<1> HIDE DEF t, new, read
<1>10. /\ Len(Append(read.tokens, new)) = j
       /\ Append(read.tokens, new)[j] = new
    BY <1>1, <1>2, <1>3, <1>9
<1>11. Reading(file)[j].tokens = Append(read.tokens, new) /\ Reading(file)[j].next = next
    BY <1>7
<1>12. Starts(file, j + 1, next)
    <2>1. j + 1 \in 1..(Len(file) + 1) /\ j + 1 <= next /\ (j + 1) - 1 = j
        BY <1>1, <1>2, <1>3
    <2> QED BY <1>10, <1>11, <2>1 DEF Starts
<1>13. j \in 0..Len(file) /\ j \in 1..Len(Reading(file)[j].tokens)
    BY <1>1, <1>3, <1>10, <1>11
<1>14. j \in 1..Len(Tokens(file)) /\ Tokens(file)[j] = Reading(file)[j].tokens[j]
    BY <1>13, TokensStay
<1> QED BY <1>8, <1>10, <1>11, <1>12, <1>14

\* When nothing is read any more, those were all tokens.
LEMMA LastStarts ==
    ASSUME NEW file \in Text, NEW j, NEW from, Starts(file, j, from),
           ParseToken(file, from).value = <<>>
    PROVE  Len(Tokens(file)) = j - 1
<1> DEFINE read == Reading(file)[j - 1]
           T == {m \in Nat : Reading(file)[m] = read}
<1>1. Len(file) \in Nat
    BY DEF Text
<1>2. j \in 1..(Len(file) + 1) /\ read.next = from /\ Len(read.tokens) = j - 1
    BY DEF Starts
<1>3. j - 1 \in 0..Len(file) /\ j - 1 \in Nat
    BY <1>1, <1>2
<1>4. read \in ReadState(file)
    BY <1>3, ReadingDef
<1>5. from \in 1..(Len(file) + 2)
    BY <1>2, <1>4 DEF ReadState
<1>6. TokensFrom(file)[read.next].value = <<>>
    BY <1>2, <1>5 DEF TokensFrom
<1>7. ReadToken(TokensFrom(file), read) = read
    BY <1>6 DEF ReadToken
<1> HIDE DEF read
<1>8. j - 1 \in T
    BY <1>3 DEF read
<1>9. \A m \in (j - 1)..(Len(file) - 1) : m \in T => m + 1 \in T
    <2> SUFFICES ASSUME NEW m \in (j - 1)..(Len(file) - 1), m \in T PROVE m + 1 \in T
        OBVIOUS
    <2>1. m + 1 \in 1..Len(file) /\ (m + 1) - 1 = m /\ m + 1 \in Nat
        BY <1>1, <1>3
    <2>2. Reading(file)[m + 1] = ReadToken(TokensFrom(file), Reading(file)[m])
        BY <2>1, ReadingDef
    <2> QED BY <1>7, <2>1, <2>2
<1>10. Len(file) \in T
    <2>1. Len(file) \in (j - 1)..Len(file)
        BY <1>1, <1>3
    <2> HIDE DEF T
    <2> QED BY <1>1, <1>3, <1>8, <1>9, <2>1, UpFrom
<1> QED BY <1>2, <1>10 DEF Tokens
=============================================================================
