---------------------------- MODULE ConfigParser ----------------------------
(***************************************************************************)
(* class NginxConfigParser (src/src/config_parser.cc): from the text of a  *)
(* config file to tokens, and from tokens to blocks of statements.         *)
(*                                                                         *)
(* A file is a sequence of lexemes: the characters the tokenizer tells     *)
(* apart, and words, which stand for runs of any others.  A tab is a blank *)
(* like SP everywhere.  A token's value is the part of the file it covers. *)
(***************************************************************************)
EXTENDS Integers, Sequences, FiniteSets

CONSTANT Words    \* the runs of other characters

SP == "sp"
NL == "nl"
CR == "cr"
DQ == "dq"        \* a double quote
SQ == "sq"        \* a single quote
LB == "lb"        \* {
RB == "rb"        \* }
SC == "sc"        \* ;
HASH == "hash"    \* #

Blanks      == {SP, NL, CR}
Punctuation == Blanks \cup {LB, RB, SC, HASH, DQ, SQ}
Lexemes     == Words \cup Punctuation
Text        == Seq(Lexemes)

ASSUME WordsAssumption == Words \cap Punctuation = {}

TokenTypes == {"START", "NORMAL", "START_BLOCK", "END_BLOCK", "COMMENT",
               "STATEMENT_END", "EOF", "ERROR"}

Token == [type : TokenTypes \ {"START"}, value : Text]

-----------------------------------------------------------------------------
(* ParseToken                                                              *)

\* The first place at or after i that holds one of S, or the end of the file.
First(file, i, S) ==
    LET hits == {k \in i..Len(file) : file[k] \in S}
    IN  IF hits = {} THEN Len(file) + 1 ELSE CHOOSE k \in hits : \A j \in hits : k <= j

\* What ends a word: not a carriage return, and not a quote.
WordEnd == {SP, NL, SC, LB, RB}

\* The token that starts at or after `from', and where the next one is looked
\* for.  The end of the file ends a comment or a word too, but with type EOF.
ParseToken(file, from) ==
    LET start == First(file, from, Lexemes \ Blanks)
        c     == file[start]
        stop  == First(file, start + 1,
                       CASE c \in {DQ, SQ} -> {c}
                         [] c = HASH -> {NL, CR}
                         [] OTHER -> WordEnd)
        cut   == stop > Len(file)
        token(type, last, next) ==
            [type |-> type, value |-> SubSeq(file, start, last), next |-> next]
    IN  IF start > Len(file) THEN token("EOF", start - 1, start)
        ELSE CASE c = LB -> token("START_BLOCK", start, start + 1)
               [] c = RB -> token("END_BLOCK", start, start + 1)
               [] c = SC -> token("STATEMENT_END", start, start + 1)
               [] c = HASH -> token(IF cut THEN "EOF" ELSE "COMMENT", stop - 1, stop + 1)
               [] c \in {DQ, SQ} ->
                      IF cut THEN token("ERROR", stop - 1, stop)
                             ELSE token("NORMAL", stop, stop + 1)
               [] OTHER -> token(IF cut THEN "EOF" ELSE "NORMAL", stop - 1, stop)

\* One call more: an empty token, at the end of the file, is not kept.
ReadToken(tokenFrom, read) ==
    LET t == tokenFrom[read.next]
    IN  IF t.value = <<>> THEN read
        ELSE [next |-> t.next,
              tokens |-> Append(read.tokens, [type |-> t.type, value |-> t.value])]

\* What so many calls have read; there are no more tokens than lexemes.
Reading(file) ==
    LET tokenFrom == [i \in 1..(Len(file) + 2) |-> ParseToken(file, i)]
        upto[k \in 0..Len(file)] ==
            IF k = 0 THEN [next |-> 1, tokens |-> <<>>] ELSE ReadToken(tokenFrom, upto[k - 1])
    IN  upto

\* All the tokens of a file that are not empty, in order.
Tokens(file) == Reading(file)[Len(file)].tokens

\* At the end of the file every further call gives an empty token.
EndToken == [type |-> "EOF", value |-> <<>>]

getToken(tokens, i) == IF i <= Len(tokens) THEN tokens[i] ELSE EndToken

-----------------------------------------------------------------------------
(* NginxConfig.  A block is its statements; a child block that is closed is *)
(* kept as its ToString, from which indentation is left out.               *)

Statement == [tokens : Seq(Text), block : BOOLEAN, child : Text]

\* The tokens of a statement with blanks between them.
Joined(values) ==
    LET upto[i \in 0..Len(values)] ==
            IF i = 0 THEN <<>>
            ELSE upto[i - 1] \o (IF i = 1 THEN <<>> ELSE <<SP>>) \o values[i]
    IN  upto[Len(values)]

StatementToString(s) ==
    Joined(s.tokens) \o (IF s.block THEN <<SP, LB, NL>> \o s.child \o <<RB>> ELSE <<SC>>)
                     \o <<NL>>

ToString(statements) ==
    LET upto[i \in 0..Len(statements)] ==
            IF i = 0 THEN <<>> ELSE upto[i - 1] \o StatementToString(statements[i])
    IN  upto[Len(statements)]

-----------------------------------------------------------------------------
(* Parse, one turn of its loop per token                                   *)

\* result: "running" in the loop, else what Parse returned
ParserState ==
    [result : {"running", "true", "false"}, braces : Nat,
     config_stack : Seq(Seq(Statement)), last_token_type : TokenTypes,
     config_blocks_content : Seq(Seq(Statement))]

StartState ==
    [result |-> "running", braces |-> 0, config_stack |-> <<<<>>>>,
     last_token_type |-> "START", config_blocks_content |-> <<>>]

\* (Faulty: a block must hold a statement.)
MayFollowStrictly(type) ==
    CASE type = "NORMAL" -> {"START", "NORMAL", "STATEMENT_END", "START_BLOCK", "END_BLOCK"}
      [] type \in {"STATEMENT_END", "START_BLOCK"} -> {"NORMAL"}
      [] type = "END_BLOCK" -> {"STATEMENT_END", "END_BLOCK"}
      [] type = "EOF" -> {"STATEMENT_END", "END_BLOCK", "START"}
      [] OTHER -> {}

\* The types of token that a token of this type may follow.
MayFollow(type) ==
    CASE type = "NORMAL" -> {"START", "NORMAL", "STATEMENT_END", "START_BLOCK", "END_BLOCK"}
      [] type \in {"STATEMENT_END", "START_BLOCK"} -> {"NORMAL"}
      [] type = "END_BLOCK" -> {"STATEMENT_END", "END_BLOCK", "START_BLOCK"}
      [] type = "EOF" -> {"STATEMENT_END", "END_BLOCK", "START"}
      [] OTHER -> {}

Top(stack)          == stack[Len(stack)]
Pop(stack)          == SubSeq(stack, 1, Len(stack) - 1)
Replace(stack, top) == [stack EXCEPT ![Len(stack)] = top]

\* A word starts a statement or goes on with the one before it.
AddWord(p, value) ==
    LET top == Top(p.config_stack)
    IN  [p EXCEPT !.config_stack = Replace(@,
            IF p.last_token_type # "NORMAL"
            THEN Append(top, [tokens |-> <<value>>, block |-> FALSE, child |-> <<>>])
            ELSE [top EXCEPT ![Len(top)].tokens = Append(@, value)])]

OpenBlock(p) ==
    LET top == Top(p.config_stack)
    IN  [p EXCEPT !.config_stack =
                      Append(Replace(@, [top EXCEPT ![Len(top)].block = TRUE]), <<>>),
                  !.braces = @ + 1]

\* (Faulty: an empty block is not recorded.)
CloseBlockUnlessEmpty(p) ==
    LET block  == Top(p.config_stack)
        below  == Pop(p.config_stack)
        parent == Top(below)
    IN  [p EXCEPT !.config_stack =
                      Replace(below, [parent EXCEPT ![Len(parent)].child = ToString(block)]),
                  !.braces = @ - 1,
                  !.config_blocks_content = IF block = <<>> THEN @ ELSE Append(@, block)]

CloseBlock(p) ==
    LET block  == Top(p.config_stack)
        below  == Pop(p.config_stack)
        parent == Top(below)
    IN  [p EXCEPT !.config_stack =
                      Replace(below, [parent EXCEPT ![Len(parent)].child = ToString(block)]),
                  !.braces = @ - 1,
                  !.config_blocks_content = Append(@, block)]

\* One token.  A block is open for every brace on the brace stack; a comment
\* leaves everything as it was.
Turn(p, t) ==
    LET last(q) == [q EXCEPT !.last_token_type = t.type]
        fail == [p EXCEPT !.result = "false"]
    IN  IF t.type = "END_BLOCK" /\ p.braces = 0 THEN fail
        ELSE IF t.type = "COMMENT" THEN p
        ELSE IF p.last_token_type \notin MayFollow(t.type) THEN fail
        ELSE CASE t.type = "NORMAL" -> last(AddWord(p, t.value))
               [] t.type = "STATEMENT_END" -> last(p)
               [] t.type = "START_BLOCK" -> last(OpenBlock(p))
               [] t.type = "END_BLOCK" ->
                      IF Len(p.config_stack) <= 1 THEN fail ELSE last(CloseBlock(p))
               [] t.type = "EOF" ->
                      IF Len(p.config_stack) = 1 /\ p.braces = 0
                      THEN [p EXCEPT !.result = "true"] ELSE fail

-----------------------------------------------------------------------------
(* What a valid file is, without a stack and without the table of tokens    *)
(* that may follow one another: statements are words with a semicolon or a *)
(* block behind them.  Comments count for nothing, and the file ends with  *)
(* the first token of type EOF.                                            *)

Code(tokens, i) == getToken(tokens, i).type # "COMMENT"

\* The last token before place i, comments apart, has this type.
Precedes(tokens, type, i) ==
    \E k \in 1..(i - 1) :
        /\ Code(tokens, k) /\ getToken(tokens, k).type = type
        /\ \A j \in (k + 1)..(i - 1) : ~Code(tokens, j)

Braces(tokens, type, i) == {k \in 1..i : getToken(tokens, k).type = type}

Depth(tokens, i) ==
    Cardinality(Braces(tokens, "START_BLOCK", i)) - Cardinality(Braces(tokens, "END_BLOCK", i))

\* Nothing is wrong with the token at place i.
FineAt(tokens, i) ==
    LET type == getToken(tokens, i).type
    IN  /\ type # "ERROR"
        /\ type \in {"STATEMENT_END", "START_BLOCK"} => Precedes(tokens, "NORMAL", i)
        /\ type \in {"END_BLOCK", "EOF"} => ~Precedes(tokens, "NORMAL", i)
        /\ Depth(tokens, i) >= 0

Valid(tokens) ==
    \E end \in 1..(Len(tokens) + 1) :
        /\ getToken(tokens, end).type = "EOF"
        /\ \A i \in 1..(end - 1) : getToken(tokens, i).type # "EOF"
        /\ \A i \in 1..end : FineAt(tokens, i)
        /\ Depth(tokens, end) = 0
=============================================================================
