------------------------- MODULE SessionRefinement -------------------------
(***************************************************************************)
(* Session implements Connection: initial states map to initial states, and*)
(* every step maps to a step of Connection or changes nothing in it.  The  *)
(* inductive invariant of SessionProofs tells which phase a session is in. *)
(***************************************************************************)
EXTENDS SessionProofs

Phase == [s \in Sessions |-> PhaseOf(s)]
Count == [s \in Sessions |-> Len(sent[s])]

USE DEF objects, pending, threads, shared, client, answers

-----------------------------------------------------------------------------
(* Phases                                                                  *)

LEMMA PhaseFrame ==
  ASSUME NEW t \in Sessions, life'[t] = life[t], io' = t <=> io = t,
         workers'[t] = workers[t], writes'[t] = writes[t]
  PROVE  PhaseOf(t)' = PhaseOf(t)
  BY DEF PhaseOf

LEMMA PhaseMove ==
  ASSUME NEW s \in Sessions, NEW p, PhaseOf(s)' = p,
         \A t \in Sessions \ {s} : PhaseOf(t)' = PhaseOf(t)
  PROVE  Phase' = [Phase EXCEPT ![s] = p]
  BY DEF Phase

LEMMA PhaseNow ==
  ASSUME TypeOK, SessionOwnership, up = "running", NEW s \in Sessions
  PROVE  /\ life[s] = "unborn" <=> PhaseOf(s) = "idle"
         /\ life[s] = "accepting" => PhaseOf(s) = "accepting"
         /\ reads[s] > 0 => PhaseOf(s) = "reading"
         /\ writes[s] > 0 => PhaseOf(s) = "writing"
         /\ workers[s] > 0 \/ io = s => PhaseOf(s) = "serving"
<1>1. life[s] \in {"unborn", "accepting", "open", "deleted"}
      /\ reads[s] \in Nat /\ writes[s] \in Nat /\ workers[s] \in Nat
  BY DEF TypeOK
<1>2. reads[s] > 0 => life[s] = "open" /\ writes[s] = 0 /\ workers[s] = 0 /\ io # s
  BY OneActivity
<1>3. writes[s] > 0 => life[s] = "open" /\ workers[s] = 0 /\ io # s
  BY OneActivity
<1>4. workers[s] > 0 \/ io = s => life[s] = "open"
  BY OneActivity
<1> QED BY <1>1, <1>2, <1>3, <1>4 DEF PhaseOf

LEMMA CountFrame == sent' = sent => Count' = Count
  BY DEF Count

-----------------------------------------------------------------------------
(* Steps                                                                   *)

ConnStep == Conn!Next \/ (Phase' = Phase /\ Count' = Count)

LEMMA TakeStep ==
  ASSUME IInv, NEW s \in Sessions, NEW alive, NEW to,
         up = "running", acceptor = s, io = NoSession,
         \/ to = "reading" /\ alive = [life EXCEPT ![s] = "open"]
         \/ to = "closed" /\ alive = [life EXCEPT ![s] = "deleted"],
         StartAccept(alive),
         UNCHANGED <<io, writes, workers, sent>>
  PROVE  Conn!Take(s, to)
<1>1. TypeOK
  BY DEF IInv, Typed
<1>2. s # NoSession /\ life[s] = "accepting"
  BY SessionsAssumption DEF IInv, Accepting
<1>3. writes[s] = 0 /\ workers[s] = 0 /\ io # s /\ PhaseOf(s) = "accepting"
  BY <1>1, <1>2, OneActivity, PhaseNow DEF IInv
<1>4. \A t \in Sessions : t # s => alive[t] = life[t]
  BY <1>1 DEF TypeOK
<1>5. alive[s] = (IF to = "reading" THEN "open" ELSE "deleted") /\ alive[s] # "unborn"
      /\ to \in {"reading", "closed"} /\ DOMAIN alive = Sessions
  <2>1. DOMAIN life = Sessions
    BY <1>1 DEF TypeOK
  <2>2. CASE to = "reading" /\ alive = [life EXCEPT ![s] = "open"]
    BY <2>1, <2>2
  <2>3. CASE to = "closed" /\ alive = [life EXCEPT ![s] = "deleted"]
    BY <2>1, <2>3
  <2> QED BY <2>2, <2>3, Zenon
<1>6. ASSUME life'[s] = alive[s] PROVE PhaseOf(s)' = to
  BY <1>3, <1>5, <1>6 DEF PhaseOf
<1>7. \A t \in Sessions : Phase[t] = PhaseOf(t)
  BY DEF Phase
<1>8. Count' = Count
  BY CountFrame
<1>9. ASSUME NEW t \in Sessions, alive[t] = "unborn", life' = [alive EXCEPT ![t] = "accepting"]
      PROVE  t # s /\ PhaseOf(t) = "idle" /\ Phase' = [Phase EXCEPT ![s] = to, ![t] = "accepting"]
  <2>1. t # s /\ life[t] = "unborn"
    BY <1>4, <1>5, <1>9
  <2>2. PhaseOf(t) = "idle"
    BY <1>1, <2>1, PhaseNow DEF IInv
  <2>3. PhaseOf(s)' = to
    BY <1>5, <1>6, <1>9, <2>1
  <2>4. PhaseOf(t)' = "accepting"
    <3>1. life'[t] = "accepting"
      BY <1>5, <1>9
    <3> QED BY <3>1 DEF PhaseOf
  <2>5. \A u \in Sessions \ {s, t} : PhaseOf(u)' = PhaseOf(u)
    <3> TAKE u \in Sessions \ {s, t}
    <3>1. life'[u] = life[u]
      BY <1>4, <1>5, <1>9
    <3> QED BY <3>1, PhaseFrame
  <2>6. Phase' = [Phase EXCEPT ![s] = to, ![t] = "accepting"]
    BY <2>1, <2>3, <2>4, <2>5 DEF Phase
  <2> QED BY <2>1, <2>2, <2>6
<1>10. ASSUME \A t \in Sessions : alive[t] # "unborn", life' = alive
       PROVE  /\ \A t \in Sessions : PhaseOf(t) # "idle"
              /\ Phase' = [Phase EXCEPT ![s] = to]
  <2>1. \A t \in Sessions : life[t] # "unborn"
    BY <1>2, <1>4, <1>10
  <2>2. \A t \in Sessions : PhaseOf(t) # "idle"
    BY <1>1, <2>1, PhaseNow DEF IInv
  <2>3. PhaseOf(s)' = to
    BY <1>6, <1>10
  <2>4. \A u \in Sessions \ {s} : PhaseOf(u)' = PhaseOf(u)
    <3> TAKE u \in Sessions \ {s}
    <3>1. life'[u] = life[u]
      BY <1>4, <1>10
    <3> QED BY <3>1, PhaseFrame
  <2> QED BY <2>2, <2>3, <2>4, PhaseMove
<1>11. Conn!Take(s, to) <=>
         /\ Phase[s] = "accepting"
         /\ \/ \E t \in Sessions :
                  /\ t # s /\ Phase[t] = "idle"
                  /\ Phase' = [Phase EXCEPT ![s] = to, ![t] = "accepting"]
            \/ /\ \A t \in Sessions : Phase[t] # "idle"
               /\ Phase' = [Phase EXCEPT ![s] = to]
         /\ Count' = Count
  BY DEF Conn!Take, Phase, Count
<1>12. \/ \E t \in Sessions : alive[t] = "unborn" /\ life' = [alive EXCEPT ![t] = "accepting"]
       \/ (\A t \in Sessions : alive[t] # "unborn") /\ life' = alive
  BY DEF StartAccept
<1>13. CASE \E t \in Sessions : alive[t] = "unborn" /\ life' = [alive EXCEPT ![t] = "accepting"]
  BY <1>3, <1>7, <1>8, <1>9, <1>11, <1>13
<1>14. CASE (\A t \in Sessions : alive[t] # "unborn") /\ life' = alive
  BY <1>3, <1>7, <1>8, <1>10, <1>11, <1>14
<1> QED BY <1>12, <1>13, <1>14

\* A step of one session that changes neither who accepts nor other sessions.
LEMMA OneMove ==
  ASSUME NEW s \in Sessions, NEW p, PhaseOf(s)' = p,
         \A t \in Sessions \ {s} : /\ life'[t] = life[t] /\ (io' = t <=> io = t)
                                   /\ workers'[t] = workers[t] /\ writes'[t] = writes[t]
  PROVE  Phase' = [Phase EXCEPT ![s] = p]
<1>1. \A t \in Sessions \ {s} : PhaseOf(t)' = PhaseOf(t)
  BY PhaseFrame
<1> QED BY <1>1, PhaseMove

LEMMA ReadStep ==
  ASSUME IInv, NEW s \in Sessions, HandleRead(s)
  PROVE  ConnStep
<1>1. TypeOK
  BY DEF IInv, Typed
<1>2. up = "running" /\ io = NoSession /\ reads[s] > 0 /\ life' = life
  BY DEF HandleRead, InLoop
<1>3. life[s] = "open" /\ writes[s] = 0 /\ workers[s] = 0 /\ io # s
  BY <1>1, <1>2, OneActivity DEF IInv
<1>4. Phase[s] = "reading"
  BY <1>1, <1>2, PhaseNow DEF IInv, Phase
<1>5. \A t \in Sessions : t # NoSession
  BY SessionsAssumption
<1>6. ASSUME Phase' = [Phase EXCEPT ![s] = "serving"], Count' = Count PROVE ConnStep
  <2>1. Conn!Request(s)
    BY <1>4, <1>6 DEF Conn!Request, Phase, Count
  <2> QED BY <2>1 DEF ConnStep, Conn!Next
<1>7. ASSUME NEW body \in Text, GoodRequest(s, body) PROVE ConnStep
  <2>1. io' = s /\ UNCHANGED <<writes, workers, sent>>
    BY <1>7 DEF GoodRequest
  <2>2. PhaseOf(s)' = "serving"
    BY <1>2, <1>3, <2>1 DEF PhaseOf
  <2>3. Phase' = [Phase EXCEPT ![s] = "serving"]
    BY <1>2, <1>5, <2>1, <2>2, OneMove
  <2> QED BY <1>6, <2>1, <2>3, CountFrame
<1>8. ASSUME NEW body \in Text, BadRequest(s, body) PROVE ConnStep
  <2>1. UNCHANGED <<io, writes, sent>> /\ workers' = [workers EXCEPT ![s] = @ + 1]
    BY <1>8 DEF BadRequest
  <2>2. workers'[s] = 1 /\ \A t \in Sessions \ {s} : workers'[t] = workers[t]
    BY <1>1, <1>3, <2>1 DEF TypeOK
  <2>3. PhaseOf(s)' = "serving"
    BY <1>2, <1>3, <2>2 DEF PhaseOf
  <2>4. Phase' = [Phase EXCEPT ![s] = "serving"]
    BY <1>2, <2>1, <2>2, <2>3, OneMove
  <2> QED BY <1>6, <2>1, <2>4, CountFrame
<1>9. ASSUME NEW kept, KeepReading(s, kept) PROVE ConnStep
  <2>1. UNCHANGED <<io, writes, workers, sent>>
    BY <1>9 DEF KeepReading
  <2>2. Phase' = Phase
    BY <1>2, <2>1, PhaseFrame DEF Phase
  <2> QED BY <2>1, <2>2, CountFrame DEF ConnStep
<1> QED BY <1>1, <1>7, <1>8, <1>9, HandleReadCases

LEMMA CloseStep ==
  ASSUME IInv, NEW s \in Sessions, HandleReadError(s) \/ HandleWriteError(s)
  PROVE  ConnStep
<1>1. TypeOK
  BY DEF IInv, Typed
<1>2. up = "running" /\ (reads[s] > 0 \/ writes[s] > 0)
  BY DEF HandleReadError, HandleWriteError, InLoop
<1>3. Phase[s] \in {"reading", "writing"}
  BY <1>1, <1>2, PhaseNow DEF IInv, Phase
<1>4. /\ UNCHANGED <<io, workers, sent>>
      /\ life' = [life EXCEPT ![s] = "deleted"]
      /\ writes' = writes \/ writes' = [writes EXCEPT ![s] = @ - 1]
  BY DEF HandleReadError, HandleWriteError, Delete
<1>5. /\ life'[s] = "deleted"
      /\ \A t \in Sessions \ {s} : life'[t] = life[t] /\ writes'[t] = writes[t]
  BY <1>1, <1>4 DEF TypeOK
<1>6. PhaseOf(s)' = "closed"
  BY <1>5 DEF PhaseOf
<1>7. Phase' = [Phase EXCEPT ![s] = "closed"]
  BY <1>4, <1>5, <1>6, OneMove
<1>8. Conn!Close(s)
  BY <1>3, <1>4, <1>7, CountFrame DEF Conn!Close, Phase, Count
<1> QED BY <1>8 DEF ConnStep, Conn!Next

LEMMA AnswerStep ==
  ASSUME IInv, NEW s \in Sessions, NEW answer, up = "running",
         \/ io = s /\ io' = NoSession /\ workers' = workers
         \/ workers[s] > 0 /\ io' = io /\ workers' = [workers EXCEPT ![s] = @ - 1],
         life' = life, SendResponse(s, answer)
  PROVE  Conn!Answer(s)
<1>1. TypeOK /\ \A t \in Sessions : t # NoSession
  BY SessionsAssumption DEF IInv, Typed
<1>2. Phase[s] = "serving"
  BY <1>1, PhaseNow DEF IInv, Phase
<1>3. life[s] = "open" /\ writes[s] = 0 /\ workers[s] \in {0, 1} /\ (io = s => workers[s] = 0)
  BY <1>1, OneActivity DEF IInv
<1>4. io' # s /\ workers'[s] = 0
      /\ \A t \in Sessions \ {s} : workers'[t] = workers[t] /\ (io' = t <=> io = t)
  <2>1. CASE io = s /\ io' = NoSession /\ workers' = workers
    BY <1>1, <1>3, <2>1
  <2>2. CASE workers[s] > 0 /\ io' = io /\ workers' = [workers EXCEPT ![s] = @ - 1]
    <3>1. workers[s] = 1 /\ io # s
      BY <1>3, <2>2
    <3>2. workers'[s] = 0 /\ \A t \in Sessions \ {s} : workers'[t] = workers[t]
      BY <1>1, <2>2, <3>1 DEF TypeOK
    <3> QED BY <2>2, <3>1, <3>2
  <2> QED BY <2>1, <2>2
<1>5. writes'[s] = 1 /\ \A t \in Sessions \ {s} : writes'[t] = writes[t]
  BY <1>1, <1>3 DEF SendResponse, TypeOK
<1>6. PhaseOf(s)' = "writing"
  BY <1>3, <1>4, <1>5 DEF PhaseOf
<1>7. Phase' = [Phase EXCEPT ![s] = "writing"]
  BY <1>4, <1>5, <1>6, OneMove
<1>8. Count' = [Count EXCEPT ![s] = @ + 1]
  <2>1. sent' = [sent EXCEPT ![s] = Append(sent[s], answer)] /\ sent \in [Sessions -> Seq(Answer)]
    BY <1>1 DEF SendResponse, TypeOK
  <2>2. Len(sent'[s]) = Len(sent[s]) + 1
    BY <2>1
  <2>3. \A t \in Sessions \ {s} : sent'[t] = sent[t]
    BY <2>1
  <2> QED BY <2>2, <2>3 DEF Count
<1> QED BY <1>2, <1>7, <1>8 DEF Conn!Answer, Phase, Count

LEMMA WrittenStep ==
  ASSUME IInv, NEW s \in Sessions, HandleWrite(s)
  PROVE  ConnStep
<1>1. TypeOK
  BY DEF IInv, Typed
<1>2. up = "running" /\ writes[s] > 0 /\ UNCHANGED <<io, life, workers, sent>>
      /\ writes' = [writes EXCEPT ![s] = @ - 1]
  BY DEF HandleWrite, InLoop
<1>3. life[s] = "open" /\ writes[s] = 1 /\ workers[s] = 0 /\ io # s
  BY <1>1, <1>2, OneActivity DEF IInv
<1>4. Phase[s] = "writing"
  BY <1>1, <1>2, PhaseNow DEF IInv, Phase
<1>5. writes'[s] = 0 /\ \A t \in Sessions \ {s} : writes'[t] = writes[t]
  BY <1>1, <1>2, <1>3 DEF TypeOK
<1>6. PhaseOf(s)' = "reading"
  BY <1>2, <1>3, <1>5 DEF PhaseOf
<1>7. Phase' = [Phase EXCEPT ![s] = "reading"]
  BY <1>2, <1>5, <1>6, OneMove
<1>8. Conn!Written(s)
  BY <1>2, <1>4, <1>7, CountFrame DEF Conn!Written, Phase, Count
<1> QED BY <1>8 DEF ConnStep, Conn!Next

LEMMA NextStep == IInv /\ [Next]_vars => ConnStep
<1> SUFFICES ASSUME IInv, [Next]_vars PROVE ConnStep
  OBVIOUS
<1>1. ASSUME NEW s \in Sessions, HandleAccept(s) PROVE ConnStep
  <2>1. Conn!Accept(s)
    BY <1>1, TakeStep DEF HandleAccept, InLoop, Conn!Accept
  <2> QED BY <2>1 DEF ConnStep, Conn!Next
<1>2. ASSUME NEW s \in Sessions, HandleAcceptError(s) PROVE ConnStep
  <2>1. Conn!Refuse(s)
    BY <1>2, TakeStep DEF HandleAcceptError, InLoop, Conn!Refuse
  <2> QED BY <2>1 DEF ConnStep, Conn!Next
<1>3. ASSUME UNCHANGED <<life, io, workers, writes, sent>> PROVE ConnStep
  <2>1. Phase' = Phase
    BY <1>3, PhaseFrame DEF Phase
  <2> QED BY <1>3, <2>1, CountFrame DEF ConnStep
<1>4. ASSUME NEW s \in Sessions, GoodRequestEnd(s) PROVE ConnStep
  <2>1. Conn!Answer(s)
    BY <1>4, AnswerStep DEF GoodRequestEnd
  <2> QED BY <2>1 DEF ConnStep, Conn!Next
<1>5. ASSUME NEW s \in Sessions, BadRequestThread(s) PROVE ConnStep
  <2>1. Conn!Answer(s)
    BY <1>5, AnswerStep DEF BadRequestThread
  <2> QED BY <2>1 DEF ConnStep, Conn!Next
<1>6. ASSUME NEW s \in Sessions, DispatchThrows(s) PROVE ConnStep
  <2>1. /\ io = s /\ UNCHANGED <<life, io, workers, sent>>
        /\ up = "running" /\ writes' = [writes EXCEPT ![s] = @ + 1]
    BY <1>6 DEF DispatchThrows
  <2>2. TypeOK /\ life[s] = "open"
    BY <2>1, OneActivity DEF IInv, Typed
  <2>3. \A t \in Sessions \ {s} : writes'[t] = writes[t]
    BY <2>1, <2>2 DEF TypeOK
  <2>4. PhaseOf(s)' = PhaseOf(s)
    BY <2>1, <2>2 DEF PhaseOf
  <2>5. \A t \in Sessions \ {s} : PhaseOf(t)' = PhaseOf(t)
    BY <2>1, <2>3, PhaseFrame
  <2>6. Phase' = Phase
    BY <2>4, <2>5 DEF Phase
  <2> QED BY <2>1, <2>6, CountFrame DEF ConnStep
<1>7. ASSUME NEW s \in Sessions, IoThread(s) PROVE ConnStep
  BY <1>4, <1>7, ReadStep, CloseStep, WrittenStep DEF IoThread
<1>8. ASSUME \/ \E s \in Sessions : HandleAcceptThrows(s) \/ Disconnect(s)
             \/ HandlerTask \/ HandlerThrows \/ UNCHANGED vars
      PROVE  ConnStep
  BY <1>3, <1>8 DEF HandleAcceptThrows, Disconnect, HandlerTask, HandlerThrows, vars
<1> QED BY <1>1, <1>2, <1>5, <1>6, <1>7, <1>8 DEF Next

LEMMA InitStep == Init => Conn!Init
<1> SUFFICES ASSUME Init PROVE Conn!Init
  OBVIOUS
<1>1. acceptor \in Sessions /\ \A t \in Sessions : life[t] = IF t = acceptor THEN "accepting"
                                                             ELSE "unborn"
  BY DEF Init
<1>2. \A t \in Sessions : PhaseOf(t) = IF t = acceptor THEN "accepting" ELSE "idle"
  BY <1>1 DEF PhaseOf
<1>3. \A t \in Sessions : Len(sent[t]) = 0
  BY DEF Init
<1> QED BY <1>1, <1>2, <1>3 DEF Conn!Init

\* The server keeps, for every connection, what Connection promises: it accepts,
\* reads, answers once and writes in turn, and never touches a closed one.
THEOREM SessionImplementsConnection == Spec => ImplementsConnection
<1>1. IInv /\ [Next]_vars => [Conn!Next]_<<Phase, Count>>
  BY NextStep DEF ConnStep
<1>2. Spec => []IInv
  BY InitIInv, NextIInv, PTL DEF Spec
<1> QED BY <1>1, <1>2, InitStep, PTL DEF Spec, ImplementsConnection, Conn!Spec, Phase, Count
=============================================================================
