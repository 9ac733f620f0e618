------------------------------ MODULE Dispatch ------------------------------
(***************************************************************************)
(* How an answer gets onto the wire: dispatcher::dispatch                  *)
(* (src/src/dispatcher.cc), send_response and handle_write                 *)
(* (src/src/session.cc), for several clients and the one io thread.        *)
(*                                                                         *)
(* A text answer is one asynchronous write.  Of a binary one the headers   *)
(* are written asynchronously and the body after that with write_some, in  *)
(* a loop that holds the io thread.  The first part of an asynchronous     *)
(* write goes to the socket within async_write, the rest is left to the io *)
(* thread; by then the string may be gone.                                 *)
(*                                                                         *)
(* Bytes are counted in units.  Session models what comes before: which    *)
(* requests are read, and who answers them.                                *)
(***************************************************************************)
EXTENDS Integers, Sequences, FiniteSets

CONSTANTS
    Clients,
    Script,       \* the answers to a client's requests
    Capacity,     \* units that the socket's send buffer holds
    MaxTransfer   \* units that async_write sends at a time

\* response: length of what send_response is given; content: length of what
\* dispatch writes itself (src_type >= 2).  A rejected request is answered by
\* a thread of its own.
Answer == {a \in [response : Nat \ {0}, content : Nat, kind : {"text", "binary", "rejected"}] :
              a.kind # "binary" => a.content = 0}

ASSUME DispatchAssumption ==
    /\ Script \in [Clients -> Seq(Answer)]
    /\ {"free", "down"} \cap Clients = {}
    /\ Capacity \in Nat \ {0} /\ MaxTransfer \in Nat \ {0}

VARIABLES
    \* the clients
    asked,     \* requests sent
    taken,     \* units received
    gone,
    \* the sockets
    wire,      \* history: all units put into the send buffer
    \* the sessions
    session,   \* its operation: a read, a rejecting thread, a write; or deleted
    begun,     \* answers begun
    op,        \* the write: waits for room, has sent something, or has failed
    sent,      \* units of the response that the write has sent
    written,   \* total_write
    \* the io thread
    io,        \* free, in the loop of dispatch for a client, or down
    \* history
    fits       \* answers whose response went out with the first send

clients  == <<asked, taken, gone>>
vars     == <<clients, wire, session, begun, op, sent, written, io, fits>>

Current(c) == Script[c][begun[c]]

\* A unit of answer k: the i-th of its response or of its content.
Unit == [answer : Nat \ {0}, part : {"response", "content"}, i : Nat \ {0}, genuine : BOOLEAN]

Units(k, part, from, n, genuine) ==
    [j \in 1..n |-> [answer |-> k, part |-> part, i |-> from + j, genuine |-> genuine]]

\* The socket of a client that has gone takes everything, or fails.
Room(c) == IF gone[c] THEN Capacity ELSE Capacity - (Len(wire[c]) - taken[c])

Least(m, n) == IF m <= n THEN m ELSE n

\* n more units of answer k
Put(c, k, part, from, n, genuine) ==
    wire' = IF gone[c] THEN wire
            ELSE [wire EXCEPT ![c] = @ \o Units(k, part, from, n, genuine)]

Init ==
    /\ asked = [c \in Clients |-> 0]
    /\ taken = [c \in Clients |-> 0]
    /\ gone = [c \in Clients |-> FALSE]
    /\ wire = [c \in Clients |-> <<>>]
    /\ session = [c \in Clients |-> "reading"]
    /\ begun = [c \in Clients |-> 0]
    /\ op = [c \in Clients |-> "none"]
    /\ sent = [c \in Clients |-> 0]
    /\ written = [c \in Clients |-> 0]
    /\ io = "free"
    /\ fits = [c \in Clients |-> {}]

-----------------------------------------------------------------------------
(* The clients: they may send their next request before they have read the *)
(* last answer, and leave at any moment.                                   *)

Ask(c) ==
    /\ ~gone[c] /\ asked[c] < Len(Script[c])
    /\ asked' = [asked EXCEPT ![c] = @ + 1]
    /\ UNCHANGED <<taken, gone, wire, session, begun, op, sent, written, io, fits>>

Receive(c) ==
    /\ ~gone[c] /\ taken[c] < Len(wire[c])
    /\ taken' = [taken EXCEPT ![c] = @ + 1]
    /\ UNCHANGED <<asked, gone, wire, session, begun, op, sent, written, io, fits>>

Leave(c) ==
    /\ ~gone[c]
    /\ gone' = [gone EXCEPT ![c] = TRUE]
    /\ UNCHANGED <<asked, taken, wire, session, begun, op, sent, written, io, fits>>

-----------------------------------------------------------------------------
(* The server                                                              *)

\* (Faulty: async_write leaves everything to the io thread.)
send_responseDeferred(c, k) ==
    /\ LET room == Least(MaxTransfer, Room(c)) >= Script[c][k].response
       IN  fits' = [fits EXCEPT ![c] = IF room THEN @ \cup {k} ELSE @]
    /\ op' = [op EXCEPT ![c] = "queued"]
    /\ sent' = [sent EXCEPT ![c] = 0]
    /\ UNCHANGED wire

\* async_write tries a first send at once.  What it sends is the string itself.
send_response(c, k) ==
    LET room == Least(MaxTransfer, Room(c))
        n    == Least(Script[c][k].response, room)
    IN  /\ fits' = [fits EXCEPT ![c] = IF n = Script[c][k].response THEN @ \cup {k} ELSE @]
        /\ \/ /\ op' = [op EXCEPT ![c] = IF n = 0 THEN "queued" ELSE "posted"]
              /\ sent' = [sent EXCEPT ![c] = n]
              /\ Put(c, k, "response", 0, n, TRUE)
           \/ /\ gone[c]
              /\ op' = [op EXCEPT ![c] = "failed"]
              /\ sent' = [sent EXCEPT ![c] = 0]
              /\ UNCHANGED wire

\* handle_read has a request: it is dispatched, or left to bad_request's thread.
HandleRead(c) ==
    /\ io = "free" /\ session[c] = "reading" /\ begun[c] < asked[c]
    /\ begun' = [begun EXCEPT ![c] = @ + 1]
    /\ written' = [written EXCEPT ![c] = 0]
    /\ LET answer == Script[c][begun[c] + 1]
       IN  \/ /\ answer.kind # "rejected"
              /\ session' = [session EXCEPT ![c] = "writing"]
              /\ send_response(c, begun[c] + 1)
              /\ io' = IF answer.content # 0 THEN c ELSE "free"
           \/ /\ answer.kind = "rejected"
              /\ session' = [session EXCEPT ![c] = "rejecting"]
              /\ sent' = [sent EXCEPT ![c] = 0]
              /\ UNCHANGED <<wire, op, io, fits>>
    /\ UNCHANGED clients

\* bad_request's thread dispatches, whatever the io thread is doing.
Reject(c) ==
    /\ io # "down" /\ session[c] = "rejecting"
    /\ session' = [session EXCEPT ![c] = "writing"]
    /\ send_response(c, begun[c])
    /\ UNCHANGED <<clients, begun, written, io>>

HandleReadError(c) ==
    /\ io = "free" /\ session[c] = "reading" /\ gone[c]
    /\ session' = [session EXCEPT ![c] = "deleted"]
    /\ UNCHANGED <<clients, wire, begun, op, sent, written, io, fits>>

\* (Faulty: the bytes written so far are forgotten.)
WriteContentRestarted(c) ==
    /\ io = c /\ Room(c) > 0
    /\ LET n == Least(Current(c).content - written[c], Room(c))
       IN  /\ Put(c, begun[c], "content", written[c], n, TRUE)
           /\ written' = [written EXCEPT ![c] = n]
    /\ io' = IF written'[c] = Current(c).content THEN "free" ELSE c
    /\ UNCHANGED <<clients, session, begun, op, sent, fits>>

\* (Faulty: the buffer is offered in pieces of one size.)
WriteContentInPieces(c) ==
    /\ io = c /\ Room(c) > 0
    /\ Put(c, begun[c], "content", written[c], Room(c), TRUE)
    /\ written' = [written EXCEPT ![c] = @ + Room(c)]
    /\ io' = IF written'[c] >= Current(c).content THEN "free" ELSE c
    /\ UNCHANGED <<clients, session, begun, op, sent, fits>>

\* (Faulty: write_some is called once.)
WriteContentOnce(c) ==
    /\ io = c /\ Room(c) > 0
    /\ LET n == Least(Current(c).content - written[c], Room(c))
       IN  /\ Put(c, begun[c], "content", written[c], n, TRUE)
           /\ written' = [written EXCEPT ![c] = @ + n]
    /\ io' = "free"
    /\ UNCHANGED <<clients, session, begun, op, sent, fits>>

\* while (total_write != size): write_some waits until there is room.
WriteContent(c) ==
    /\ io = c /\ Room(c) > 0
    /\ LET n == Least(Current(c).content - written[c], Room(c))
       IN  /\ Put(c, begun[c], "content", written[c], n, TRUE)
           /\ written' = [written EXCEPT ![c] = @ + n]
    /\ io' = IF written'[c] = Current(c).content THEN "free" ELSE c
    /\ UNCHANGED <<clients, session, begun, op, sent, fits>>

\* write_some throws; nothing catches it before main.
WriteContentThrows(c) ==
    /\ io = c /\ gone[c]
    /\ io' = "down"
    /\ UNCHANGED <<clients, wire, session, begun, op, sent, written, fits>>

\* The io thread goes on with a write: at once after a part of it, else when
\* there is room.  What was the string may be anything by now.
WriteMore(c) ==
    /\ io = "free" /\ (op[c] = "posted" \/ (op[c] = "queued" /\ Room(c) > 0))
    /\ sent[c] < Current(c).response
    /\ LET n == Least(Current(c).response - sent[c], Least(MaxTransfer, Room(c)))
       IN  \/ /\ op' = [op EXCEPT ![c] = IF n = 0 THEN "queued" ELSE "posted"]
              /\ sent' = [sent EXCEPT ![c] = @ + n]
              /\ \E genuine \in BOOLEAN : Put(c, begun[c], "response", sent[c], n, genuine)
           \/ /\ gone[c]
              /\ op' = [op EXCEPT ![c] = "failed"]
              /\ UNCHANGED <<sent, wire>>
    /\ UNCHANGED <<clients, session, begun, written, io, fits>>

\* (Faulty: no further read is started.)
HandleWriteOnce(c) ==
    /\ io = "free" /\ op[c] = "posted" /\ sent[c] = Current(c).response
    /\ op' = [op EXCEPT ![c] = "none"]
    /\ UNCHANGED <<clients, wire, session, begun, sent, written, io, fits>>

\* The write is complete: the next request is read.
HandleWrite(c) ==
    /\ io = "free" /\ op[c] = "posted" /\ sent[c] = Current(c).response
    /\ op' = [op EXCEPT ![c] = "none"]
    /\ session' = [session EXCEPT ![c] = "reading"]
    /\ UNCHANGED <<clients, wire, begun, sent, written, io, fits>>

HandleWriteError(c) ==
    /\ io = "free" /\ op[c] = "failed"
    /\ op' = [op EXCEPT ![c] = "none"]
    /\ session' = [session EXCEPT ![c] = "deleted"]
    /\ UNCHANGED <<clients, wire, begun, sent, written, io, fits>>

Server(c) ==
    \/ HandleRead(c) \/ Reject(c) \/ HandleReadError(c) \/ WriteContent(c)
    \/ WriteContentThrows(c) \/ WriteMore(c) \/ HandleWrite(c) \/ HandleWriteError(c)

Next == \E c \in Clients : Ask(c) \/ Receive(c) \/ Leave(c) \/ Server(c)

Spec == Init /\ [][Next]_vars

\* The io service runs what is ready in the order it became ready, and threads
\* are scheduled.  Of the clients it is assumed that they read, or leave.
FairSpec == Spec /\ \A c \in Clients : WF_vars(Server(c)) /\ WF_vars(Receive(c))

-----------------------------------------------------------------------------
(* Properties                                                              *)

\* Every variable keeps its type; total_write and the units of a write never
\* pass the length of what is written (the loop of dispatch tests with !=).
TypeOK ==
    /\ asked \in [Clients -> Nat] /\ taken \in [Clients -> Nat] /\ gone \in [Clients -> BOOLEAN]
    /\ wire \in [Clients -> Seq(Unit)]
    /\ session \in [Clients -> {"reading", "rejecting", "writing", "deleted"}]
    /\ op \in [Clients -> {"none", "queued", "posted", "failed"}]
    /\ begun \in [Clients -> Nat] /\ sent \in [Clients -> Nat] /\ written \in [Clients -> Nat]
    /\ io \in Clients \cup {"free", "down"}
    /\ fits \in [Clients -> SUBSET Nat]
    /\ \A c \in Clients :
          /\ asked[c] <= Len(Script[c]) /\ begun[c] <= asked[c]
          /\ taken[c] <= Len(wire[c]) /\ Len(wire[c]) <= taken[c] + Capacity
          /\ begun[c] > 0 => /\ sent[c] <= Current(c).response
                             /\ written[c] <= Current(c).content

\* Unit i of a part of answer k is at this place of the client's stream.
At(c, place, k, part, i) ==
    wire[c][place].answer = k /\ wire[c][place].part = part /\ wire[c][place].i = i

\* Every part of every answer gets onto the wire in order, no unit of it twice,
\* and nothing of an answer before the last one is complete: though two kinds of
\* writes share the socket, and partial writes are resumed by another thread.
StreamsInOrder ==
    \A c \in Clients : \A q \in DOMAIN wire[c] :
        LET u == wire[c][q]
            before(k, part, i) == \E p \in 1..(q - 1) : At(c, p, k, part, i)
        IN  /\ ~before(u.answer, u.part, u.i)
            /\ \A i \in 1..(u.i - 1) : before(u.answer, u.part, i)
            /\ u.answer > 1 =>
                  /\ \A i \in 1..Script[c][u.answer - 1].response :
                        before(u.answer - 1, "response", i)
                  /\ \A i \in 1..Script[c][u.answer - 1].content :
                        before(u.answer - 1, "content", i)

\* If the first send takes the whole response, the client gets the answer as it
\* was meant: the string before it is freed, and the headers before the body.
\* A body written by dispatch itself is always genuine.
FittingAnswersAreExact ==
    \A c \in Clients : \A q \in DOMAIN wire[c] :
        LET u == wire[c][q]
        IN  IF u.part = "content" THEN u.genuine
            ELSE u.answer \in fits[c] =>
                    /\ u.genuine
                    /\ \A p \in 1..(q - 1) :
                          wire[c][p].answer = u.answer => wire[c][p].part = "response"

\* The first n units of the client's stream have all of answer k.
Complete(c, n, k) ==
    Cardinality({p \in 1..n : wire[c][p].answer = k})
        = Script[c][k].response + Script[c][k].content

\* When a session reads on, every answer it has begun is on the wire in full, to
\* the unit; while one is being written, every earlier one is.  handle_write says
\* nothing of the body, which dispatch writes behind its back.
AnswersComplete ==
    \A c \in Clients : ~gone[c] =>
        \A k \in 1..begun[c] :
            k < begun[c] \/ session[c] = "reading" => Complete(c, Len(wire[c]), k)

Delivered(c, k) == Complete(c, taken[c], k)

\* Every request's answer is received in full, unless its client leaves or the
\* server goes down: a client that is slow to read a body, which keeps the io
\* thread from all others, keeps them waiting but not for ever.
AnswersDelivered ==
    \A c \in Clients : \A k \in 1..Len(Script[c]) :
        asked[c] >= k ~> (Delivered(c, k) \/ gone[c] \/ io = "down")
=============================================================================
