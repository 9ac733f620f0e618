----------------------------- MODULE Connection -----------------------------
(***************************************************************************)
(* What the server promises about connections, without parser, buffers and *)
(* threads.  One connection object at a time waits for a client, and the   *)
(* next takes its place at once.  A connection then alternates: it reads   *)
(* until it has something to answer, gives exactly one answer, and reads   *)
(* again only once that answer is written.  It is closed while it reads or *)
(* writes, never while an answer is being made, and never opened again.    *)
(***************************************************************************)
EXTENDS Naturals

CONSTANT Sessions

VARIABLES
    phase,      \* of each connection
    answers     \* how many answers each was given

Phases == {"idle", "accepting", "reading", "serving", "writing", "closed"}

\* The types of the abstract state.
TypeOK ==
    /\ phase \in [Sessions -> Phases]
    /\ answers \in [Sessions -> Nat]

Init ==
    /\ \E a \in Sessions :
          phase = [s \in Sessions |-> IF s = a THEN "accepting" ELSE "idle"]
    /\ answers = [s \in Sessions |-> 0]

\* The accepting connection is taken, or given up, and another one waits.
Take(s, to) ==
    /\ phase[s] = "accepting"
    /\ \/ \E t \in Sessions :
             /\ t # s /\ phase[t] = "idle"
             /\ phase' = [phase EXCEPT ![s] = to, ![t] = "accepting"]
       \/ /\ \A t \in Sessions : phase[t] # "idle"
          /\ phase' = [phase EXCEPT ![s] = to]
    /\ UNCHANGED answers

Accept(s) == Take(s, "reading")
Refuse(s) == Take(s, "closed")

Request(s) ==
    /\ phase[s] = "reading"
    /\ phase' = [phase EXCEPT ![s] = "serving"]
    /\ UNCHANGED answers

Answer(s) ==
    /\ phase[s] = "serving"
    /\ phase' = [phase EXCEPT ![s] = "writing"]
    /\ answers' = [answers EXCEPT ![s] = @ + 1]

Written(s) ==
    /\ phase[s] = "writing"
    /\ phase' = [phase EXCEPT ![s] = "reading"]
    /\ UNCHANGED answers

Close(s) ==
    /\ phase[s] \in {"reading", "writing"}
    /\ phase' = [phase EXCEPT ![s] = "closed"]
    /\ UNCHANGED answers

Next ==
    \E s \in Sessions :
        Accept(s) \/ Refuse(s) \/ Request(s) \/ Answer(s) \/ Written(s) \/ Close(s)

Spec == Init /\ [][Next]_<<phase, answers>>
=============================================================================
