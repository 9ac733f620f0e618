--------------------------- MODULE DispatchProofs ---------------------------
(***************************************************************************)
(* Theorems about Dispatch, for any clients, answers and buffer sizes.     *)
(*                                                                         *)
(* IInv says of each client's stream which units are on it (those up to    *)
(* sent and total_write of the current answer and all of the ones before)  *)
(* and, of each session, that a next answer is begun only when both parts  *)
(* of the last one are complete: the io thread is in the loop of dispatch  *)
(* as long as the content is not.                                          *)
(***************************************************************************)
EXTENDS Dispatch, FiniteSetTheorems, TLAPS

Parts == {"response", "content"}

\* How far part `part' of answer a has got, when answer k is the current one.
Progress(s, k, r, t, a, part) ==
    IF a < k THEN (IF part = "response" THEN s[a].response ELSE s[a].content)
    ELSE IF a = k THEN (IF part = "response" THEN r ELSE t)
    ELSE 0

Is(u, a, part, i) == u.answer = a /\ u.part = part /\ u.i = i

\* Nothing is on the stream that has not been sent, ...
Within(s, w, k, r, t) ==
    \A q \in 1..Len(w) :
        w[q].answer <= k /\ w[q].i <= Progress(s, k, r, t, w[q].answer, w[q].part)

\* ... and everything that has been.
Covers(s, w, k, r, t) ==
    \A a \in 1..k : \A part \in Parts : \A i \in 1..Progress(s, k, r, t, a, part) :
        \E p \in 1..Len(w) : Is(w[p], a, part, i)

Before(w, q, a, part, i) == \E p \in 1..(q - 1) : Is(w[p], a, part, i)

\* StreamsInOrder for a stream.
OrderedAt(s, w, q) ==
    /\ ~Before(w, q, w[q].answer, w[q].part, w[q].i)
    /\ \A i \in 1..(w[q].i - 1) : Before(w, q, w[q].answer, w[q].part, i)
    /\ w[q].answer > 1 =>
          /\ \A i \in 1..s[w[q].answer - 1].response : Before(w, q, w[q].answer - 1, "response", i)
          /\ \A i \in 1..s[w[q].answer - 1].content : Before(w, q, w[q].answer - 1, "content", i)

Ordered(s, w) == \A q \in 1..Len(w) : OrderedAt(s, w, q)

\* FittingAnswersAreExact for a stream.
ExactAt(w, F, q) ==
    /\ w[q].part = "content" => w[q].genuine
    /\ w[q].part # "content" /\ w[q].answer \in F =>
          /\ w[q].genuine
          /\ \A p \in 1..(q - 1) : w[p].answer = w[q].answer => w[p].part = "response"

Exact(w, F) == \A q \in 1..Len(w) : ExactAt(w, F, q)

\* v is w and n more units of answer k.
Longer(w, v, k, part, from, n, g) ==
    /\ Len(w) \in Nat /\ v \in Seq(Unit) /\ Len(v) = Len(w) + n
    /\ \A q \in 1..Len(w) : v[q] = w[q]
    /\ \A q \in 1..Len(v) : q > Len(w) =>
          /\ v[q].answer = k /\ v[q].part = part /\ v[q].i = from + (q - Len(w))
          /\ v[q].genuine = g

\* What n units more of a part make of sent and total_write.
Advance(part, from, n, r, t, r2, t2) ==
    \/ part = "response" /\ from = r /\ r2 = r + n /\ t2 = t
    \/ part = "content" /\ from = t /\ t2 = t + n /\ r2 = r

-----------------------------------------------------------------------------
(* Streams                                                                 *)

\* What n more units make of a stream.
LEMMA PutIsLonger ==
    ASSUME NEW w \in Seq(Unit), NEW k \in Nat \ {0}, NEW part \in Parts, NEW from \in Nat,
           NEW n \in Nat, NEW g \in BOOLEAN
    PROVE  Longer(w, w \o Units(k, part, from, n, g), k, part, from, n, g)
<1> DEFINE x == Units(k, part, from, n, g)
           v == w \o x
<1>1. \A j \in 1..n : [answer |-> k, part |-> part, i |-> from + j, genuine |-> g] \in Unit
    BY DEF Unit, Parts
<1>2. x \in [1..n -> Unit]
    BY <1>1 DEF Units
<1>3. x \in Seq(Unit) /\ Len(x) = n
    BY <1>2
<1>4. \A j \in 1..n : x[j] = [answer |-> k, part |-> part, i |-> from + j, genuine |-> g]
    BY DEF Units
<1> HIDE DEF x
<1>5. v \in Seq(Unit) /\ Len(v) = Len(w) + n
    BY <1>3
<1>6. \A q \in 1..Len(w) : v[q] = w[q]
    BY <1>3
<1>7. ASSUME NEW q \in 1..(Len(w) + n), q > Len(w)
      PROVE  v[q] = [answer |-> k, part |-> part, i |-> from + (q - Len(w)), genuine |-> g]
    <2>1. q - Len(w) \in 1..n
        BY <1>7
    <2>2. v[q] = x[q - Len(w)]
        BY <1>3, <1>7, <2>1
    <2> QED BY <1>4, <2>1, <2>2
<1>8. ASSUME NEW q \in 1..(Len(w) + n), q > Len(w)
      PROVE  /\ v[q].answer = k /\ v[q].part = part /\ v[q].i = from + (q - Len(w))
             /\ v[q].genuine = g
    <2> DEFINE e == v[q]
    <2>1. e = [answer |-> k, part |-> part, i |-> from + (q - Len(w)), genuine |-> g]
        BY <1>7, <1>8
    <2> HIDE DEF e
    <2>2. e.answer = k /\ e.part = part /\ e.i = from + (q - Len(w)) /\ e.genuine = g
        BY <2>1
    <2> QED BY <2>2 DEF e
<1>9. Len(w) \in Nat
    OBVIOUS
<1> HIDE DEF v
<1>10. Longer(w, v, k, part, from, n, g)
    BY <1>5, <1>6, <1>8, <1>9 DEF Longer
<1> QED BY <1>10 DEF v, x

\* The current answer goes on: n more units of one of its parts.
LEMMA Extend ==
    ASSUME NEW s \in Seq(Answer), NEW w \in Seq(Unit), NEW k \in 1..Len(s), NEW r \in Nat,
           NEW t \in Nat, NEW part \in Parts, NEW n \in Nat, NEW g, NEW from \in Nat,
           Within(s, w, k, r, t), Covers(s, w, k, r, t), Ordered(s, w),
           NEW v, Longer(w, v, k, part, from, n, g),
           NEW r2 \in Nat, NEW t2 \in Nat, Advance(part, from, n, r, t, r2, t2)
    PROVE  Within(s, v, k, r2, t2) /\ Covers(s, v, k, r2, t2) /\ Ordered(s, v)
<1>1. /\ Len(w) \in Nat /\ Len(v) = Len(w) + n
      /\ \A q \in 1..Len(w) : v[q] = w[q]
      /\ \A q \in 1..Len(v) : q > Len(w) =>
            v[q].answer = k /\ v[q].part = part /\ v[q].i = from + (q - Len(w))
    BY DEF Longer
<1>2. \A q \in 1..Len(w) : w[q] \in Unit
    OBVIOUS
<1>3. \A a \in 1..Len(s) : s[a].response \in Nat /\ s[a].content \in Nat
    BY SMTT(30) DEF Answer
<1>4. \A a \in 1..k, p \in Parts :
          /\ Progress(s, k, r, t, a, p) \in Nat
          /\ Progress(s, k, r2, t2, a, p)
                = Progress(s, k, r, t, a, p) + (IF a = k /\ p = part THEN n ELSE 0)
    <2> SUFFICES ASSUME NEW a \in 1..k, NEW p \in Parts
                 PROVE  /\ Progress(s, k, r, t, a, p) \in Nat
                        /\ Progress(s, k, r2, t2, a, p)
                              = Progress(s, k, r, t, a, p) + (IF a = k /\ p = part THEN n ELSE 0)
        OBVIOUS
    <2>1. CASE a < k
        <3>1. Progress(s, k, r2, t2, a, p) = Progress(s, k, r, t, a, p)
            BY <2>1 DEF Progress
        <3>2. Progress(s, k, r, t, a, p) \in {s[a].response, s[a].content}
            BY <2>1 DEF Progress
        <3>3. s[a].response \in Nat /\ s[a].content \in Nat
            BY <1>3
        <3> QED BY <2>1, <3>1, <3>2, <3>3, SMTT(30)
    <2>2. CASE a = k
        BY <2>2 DEF Progress, Parts, Advance
    <2> QED BY <2>1, <2>2
<1>5. Progress(s, k, r, t, k, part) = from
    BY DEF Progress, Parts, Advance
<1>6. Within(s, v, k, r2, t2)
    <2> SUFFICES ASSUME NEW q \in 1..Len(v)
                 PROVE  /\ v[q].answer <= k
                        /\ v[q].i <= Progress(s, k, r2, t2, v[q].answer, v[q].part)
        BY DEF Within
    <2>1. CASE q \in 1..Len(w)
        <3>1. w[q].answer \in 1..k /\ w[q].part \in Parts /\ w[q].i \in Nat
            <4>1. w[q] \in Unit /\ w[q].answer <= k
                BY <1>2, <2>1 DEF Within
            <4>2. w[q].answer \in Nat \ {0} /\ w[q].part \in Parts /\ w[q].i \in Nat
                BY <4>1 DEF Unit, Parts
            <4> QED BY <4>1, <4>2, SMTT(30)
        <3>2. w[q].i <= Progress(s, k, r, t, w[q].answer, w[q].part)
            BY <2>1 DEF Within
        <3>3. /\ Progress(s, k, r, t, w[q].answer, w[q].part) \in Nat
              /\ \/ Progress(s, k, r2, t2, w[q].answer, w[q].part)
                       = Progress(s, k, r, t, w[q].answer, w[q].part)
                 \/ Progress(s, k, r2, t2, w[q].answer, w[q].part)
                       = Progress(s, k, r, t, w[q].answer, w[q].part) + n
            <4> DEFINE a == w[q].answer
                       p == w[q].part
            <4>1. a \in 1..k /\ p \in Parts
                BY <3>1
            <4> HIDE DEF a, p
            <4>2. CASE a = k /\ p = part
                BY <1>4, <4>1, <4>2 DEF a, p
            <4>3. CASE ~(a = k /\ p = part)
                <5>1. Progress(s, k, r2, t2, a, p) = Progress(s, k, r, t, a, p) + 0
                    BY <1>4, <4>1, <4>3
                <5>2. Progress(s, k, r, t, a, p) \in Nat
                    BY <1>4, <4>1
                <5> QED BY <5>1, <5>2 DEF a, p
            <4> QED BY <4>2, <4>3
        <3>4. v[q] = w[q]
            BY <1>1, <2>1
        <3> QED BY <3>1, <3>2, <3>3, <3>4, SMTT(30)
    <2>2. CASE q > Len(w)
        <3>1. v[q].answer = k /\ v[q].part = part /\ v[q].i = from + (q - Len(w))
            BY <1>1, <2>2
        <3>2. Progress(s, k, r2, t2, k, part) = from + n
            <4>1. k \in 1..k
                OBVIOUS
            <4> QED BY <1>4, <1>5, <4>1
        <3> QED BY <1>1, <2>2, <3>1, <3>2
    <2> QED BY <1>1, <2>1, <2>2
<1>7. Covers(s, v, k, r2, t2)
    <2> SUFFICES ASSUME NEW a \in 1..k, NEW p \in Parts, NEW i \in 1..Progress(s, k, r2, t2, a, p)
                 PROVE  \E q \in 1..Len(v) : Is(v[q], a, p, i)
        BY DEF Covers
    <2>1. CASE i \in 1..Progress(s, k, r, t, a, p)
        <3>1. PICK q \in 1..Len(w) : Is(w[q], a, p, i)
            BY <2>1 DEF Covers
        <3> QED BY <1>1, <3>1
    <2>2. CASE i \notin 1..Progress(s, k, r, t, a, p)
        <3>1. a = k /\ p = part /\ i \in (from + 1)..(from + n)
            BY <1>4, <1>5, <2>2, SMTT(30)
        <3>2. Len(w) + (i - from) \in 1..Len(v) /\ Len(w) + (i - from) > Len(w)
            BY <1>1, <3>1, SMTT(30)
        <3>3. PICK j \in 1..Len(v) : j = Len(w) + (i - from) /\ j > Len(w)
            BY <3>2
        <3>4. v[j].answer = k /\ v[j].part = part /\ v[j].i = from + (j - Len(w))
            BY <1>1, <3>3
        <3>5. from + (j - Len(w)) = i
            BY <1>1, <3>1, <3>3
        <3>6. Is(v[j], a, p, i)
            BY <3>1, <3>4, <3>5 DEF Is
        <3> QED BY <3>6
    <2> QED BY <2>1, <2>2
<1>8. ASSUME NEW q \in 1..(Len(v) + 1), NEW a \in 1..k, NEW p \in Parts,
             NEW i \in 1..Progress(s, k, r, t, a, p), q > Len(w)
      PROVE  Before(v, q, a, p, i)
    <2>1. PICK j \in 1..Len(w) : Is(w[j], a, p, i)
        BY DEF Covers
    <2>2. j \in 1..(q - 1) /\ v[j] = w[j]
        BY <1>1, <1>8
    <2> QED BY <2>1, <2>2, Zenon DEF Before
<1>9. Ordered(s, v)
    <2> SUFFICES ASSUME NEW q \in 1..Len(v)
                 PROVE  OrderedAt(s, v, q)
        BY DEF Ordered
    <2>1. CASE q \in 1..Len(w)
        <3>1. \A a, p, i : Before(v, q, a, p, i) <=> Before(w, q, a, p, i)
            <4>1. \A j \in 1..(q - 1) : v[j] = w[j]
                BY <1>1, <2>1
            <4> QED BY <4>1, Zenon DEF Before
        <3>2. OrderedAt(s, w, q) /\ v[q] = w[q]
            BY <1>1, <2>1 DEF Ordered
        <3> QED BY <3>1, <3>2 DEF OrderedAt
    <2>2. CASE q > Len(w)
        <3>1. v[q].answer = k /\ v[q].part = part /\ v[q].i = from + (q - Len(w))
            BY <1>1, <2>2
        <3>2. ~Before(v, q, k, part, v[q].i)
            <4> SUFFICES ASSUME NEW p \in 1..(q - 1), Is(v[p], k, part, v[q].i)
                         PROVE  FALSE
                BY DEF Before
            <4>1. CASE p \in 1..Len(w)
                <5>1. w[p].i <= Progress(s, k, r, t, k, part) /\ w[p].i = v[q].i
                    BY <1>1, <4>1 DEF Within, Is
                <5> QED BY <1>1, <1>5, <2>2, <3>1, <5>1
            <4>2. CASE p > Len(w)
                <5>1. v[p].i = from + (p - Len(w)) /\ v[p].i = v[q].i
                    BY <1>1, <2>2, <4>2, SMTT(30) DEF Is
                <5> QED BY <1>1, <3>1, <5>1, SMTT(30)
            <4> QED BY <1>1, <2>2, <4>1, <4>2
        <3>3. ASSUME NEW i \in 1..(v[q].i - 1)
              PROVE  Before(v, q, k, part, i)
            <4>1. CASE i \in 1..from
                <5>1. k \in 1..k /\ q \in 1..(Len(v) + 1) /\ i \in 1..Progress(s, k, r, t, k, part)
                    BY <1>1, <1>5, <4>1
                <5> QED BY <1>8, <2>2, <5>1
            <4>2. CASE i \notin 1..from
                <5>1. Len(w) + (i - from) \in 1..(q - 1) /\ Len(w) + (i - from) > Len(w)
                    BY <1>1, <2>2, <3>1, <4>2
                <5>2. PICK j \in 1..(q - 1) : j = Len(w) + (i - from) /\ j > Len(w)
                    BY <5>1
                <5>3. j \in 1..Len(v) /\ from + (j - Len(w)) = i
                    BY <1>1, <5>2, SMTT(30)
                <5>4. v[j].answer = k /\ v[j].part = part /\ v[j].i = from + (j - Len(w))
                    BY <1>1, <5>2, <5>3
                <5>5. Is(v[j], k, part, i)
                    BY <5>3, <5>4 DEF Is
                <5> QED BY <5>5 DEF Before
            <4> QED BY <4>1, <4>2
        <3>4. ASSUME k > 1
              PROVE  /\ \A i \in 1..s[k - 1].response : Before(v, q, k - 1, "response", i)
                     /\ \A i \in 1..s[k - 1].content : Before(v, q, k - 1, "content", i)
            <4>1. /\ k - 1 \in 1..k
                  /\ Progress(s, k, r, t, k - 1, "response") = s[k - 1].response
                  /\ Progress(s, k, r, t, k - 1, "content") = s[k - 1].content
                BY <3>4 DEF Progress
            <4>2. q \in 1..(Len(v) + 1) /\ q > Len(w)
                BY <1>1, <2>2
            <4> QED BY <1>8, <4>1, <4>2 DEF Parts
        <3> QED BY <3>1, <3>2, <3>3, <3>4 DEF OrderedAt
    <2> QED BY <1>1, <2>1, <2>2
<1> QED BY <1>1, <1>6, <1>7, <1>9

\* A part that is not put on the stream of a client that has gone.
LEMMA WithinGrows ==
    ASSUME NEW s \in Seq(Answer), NEW w \in Seq(Unit), NEW k \in 1..Len(s), NEW r \in Nat,
           NEW t \in Nat, NEW r2 \in Nat, NEW t2 \in Nat, r <= r2, t <= t2,
           Within(s, w, k, r, t)
    PROVE  Within(s, w, k, r2, t2)
<1> SUFFICES ASSUME NEW q \in 1..Len(w)
             PROVE  w[q].answer <= k /\ w[q].i <= Progress(s, k, r2, t2, w[q].answer, w[q].part)
    BY DEF Within
<1>1. w[q].answer <= k /\ w[q].i <= Progress(s, k, r, t, w[q].answer, w[q].part)
    BY DEF Within
<1>2. w[q].answer \in Nat \ {0} /\ w[q].i \in Nat
    <2>1. w[q] \in Unit
        OBVIOUS
    <2> QED BY <2>1 DEF Unit
<1>3. CASE w[q].answer < k
    BY <1>1, <1>3 DEF Progress
<1>4. CASE w[q].answer = k
    <2>1. \/ /\ Progress(s, k, r, t, w[q].answer, w[q].part) = r
             /\ Progress(s, k, r2, t2, w[q].answer, w[q].part) = r2
          \/ /\ Progress(s, k, r, t, w[q].answer, w[q].part) = t
             /\ Progress(s, k, r2, t2, w[q].answer, w[q].part) = t2
        BY <1>4 DEF Progress
    <2> QED BY <1>1, <1>2, <2>1
<1> QED BY <1>1, <1>2, <1>3, <1>4

\* When both parts of an answer are complete the next one may begin.
LEMMA NextAnswer ==
    ASSUME NEW s \in Seq(Answer), NEW w \in Seq(Unit), NEW k \in Nat, k + 1 <= Len(s),
           NEW r \in Nat, NEW t \in Nat, k > 0 => r = s[k].response /\ t = s[k].content
    PROVE  /\ Within(s, w, k, r, t) => Within(s, w, k + 1, 0, 0)
           /\ Covers(s, w, k, r, t) => Covers(s, w, k + 1, 0, 0)
<1>1. \A a \in 1..k, p \in Parts : Progress(s, k + 1, 0, 0, a, p) = Progress(s, k, r, t, a, p)
    BY DEF Progress, Parts
<1>2. ASSUME Within(s, w, k, r, t)
      PROVE  Within(s, w, k + 1, 0, 0)
    <2> SUFFICES ASSUME NEW q \in 1..Len(w)
                 PROVE  /\ w[q].answer <= k + 1
                        /\ w[q].i <= Progress(s, k + 1, 0, 0, w[q].answer, w[q].part)
        BY DEF Within
    <2>1. w[q].answer <= k /\ w[q].i <= Progress(s, k, r, t, w[q].answer, w[q].part)
        BY <1>2 DEF Within
    <2>2. w[q] \in Unit
        OBVIOUS
    <2>3. w[q].answer \in 1..k /\ w[q].part \in Parts
        BY <2>1, <2>2 DEF Unit, Parts
    <2> QED BY <1>1, <2>1, <2>3
<1>3. ASSUME Covers(s, w, k, r, t)
      PROVE  Covers(s, w, k + 1, 0, 0)
    <2> SUFFICES ASSUME NEW a \in 1..(k + 1), NEW p \in Parts,
                        NEW i \in 1..Progress(s, k + 1, 0, 0, a, p)
                 PROVE  \E q \in 1..Len(w) : Is(w[q], a, p, i)
        BY DEF Covers
    <2>1. CASE a = k + 1
        <3>1. Progress(s, k + 1, 0, 0, a, p) = 0
            BY <2>1 DEF Progress
        <3> QED BY <3>1
    <2>2. CASE a \in 1..k
        <3>1. i \in 1..Progress(s, k, r, t, a, p)
            BY <1>1, <2>2
        <3> QED BY <1>3, <2>2, <3>1 DEF Covers
    <2> QED BY <2>1, <2>2
<1> QED BY <1>2, <1>3

\* More units keep a stream exact if they are genuine and in their place.
LEMMA ExactLonger ==
    ASSUME NEW w \in Seq(Unit), NEW v, NEW k \in Nat \ {0}, NEW part \in Parts, NEW from \in Nat,
           NEW n \in Nat, NEW g \in BOOLEAN, Longer(w, v, k, part, from, n, g),
           NEW F, Exact(w, F),
           part = "content" => g,
           part = "response" /\ k \in F =>
              g /\ \A q \in 1..Len(w) : w[q].answer = k => w[q].part = "response"
    PROVE  Exact(v, F)
<1>1. /\ Len(w) \in Nat /\ Len(v) = Len(w) + n
      /\ \A q \in 1..Len(w) : v[q] = w[q]
      /\ \A q \in 1..Len(v) : q > Len(w) =>
            v[q].answer = k /\ v[q].part = part /\ v[q].genuine = g
    BY DEF Longer
<1> SUFFICES ASSUME NEW q \in 1..Len(v)
             PROVE  ExactAt(v, F, q)
    BY DEF Exact
<1>2. CASE q \in 1..Len(w)
    <2>1. ExactAt(w, F, q)
        BY <1>2 DEF Exact
    <2>2. \A p \in 1..q : v[p] = w[p]
        BY <1>1, <1>2
    <2>3. q \in 1..q /\ \A p \in 1..(q - 1) : p \in 1..q
        BY <1>2
    <2> QED BY <2>1, <2>2, <2>3 DEF ExactAt
<1>3. CASE q > Len(w)
    <2>1. v[q].answer = k /\ v[q].part = part /\ v[q].genuine = g
        BY <1>1, <1>3
    <2>2. ASSUME part = "response", k \in F, NEW p \in 1..(q - 1), v[p].answer = k
          PROVE  v[p].part = "response"
        <3>1. CASE p \in 1..Len(w)
            BY <1>1, <2>2, <3>1
        <3>2. CASE p > Len(w)
            <4>1. p \in 1..Len(v)
                BY <1>1
            <4>2. v[p].part = part
                BY <1>1, <3>2, <4>1
            <4> QED BY <2>2, <4>2
        <3> QED BY <1>1, <3>1, <3>2
    <2> QED BY <2>1, <2>2 DEF ExactAt, Parts
<1> QED BY <1>1, <1>2, <1>3

\* An answer of which nothing is on the stream yet may be found to fit.
LEMMA ExactMore ==
    ASSUME NEW w \in Seq(Unit), NEW F, NEW k, Exact(w, F),
           \A q \in 1..Len(w) : w[q].answer # k
    PROVE  Exact(w, F \cup {k})
BY DEF Exact, ExactAt

\* The lesser of two numbers.
LEMMA LeastIsLess ==
    ASSUME NEW m \in Nat, NEW n \in Nat
    PROVE  /\ Least(m, n) \in Nat /\ Least(m, n) <= m /\ Least(m, n) <= n
           /\ Least(m, n) = m \/ Least(m, n) = n
BY DEF Least

-----------------------------------------------------------------------------
(* The inductive invariant, client by client                               *)

TypedAt(c) ==
    /\ asked[c] \in Nat /\ taken[c] \in Nat /\ gone[c] \in BOOLEAN
    /\ wire[c] \in Seq(Unit)
    /\ session[c] \in {"reading", "rejecting", "writing", "deleted"}
    /\ op[c] \in {"none", "queued", "posted", "failed"}
    /\ begun[c] \in Nat /\ sent[c] \in Nat /\ written[c] \in Nat
    /\ fits[c] \subseteq Nat
    /\ asked[c] <= Len(Script[c]) /\ begun[c] <= asked[c]
    /\ taken[c] <= Len(wire[c]) /\ Len(wire[c]) <= taken[c] + Capacity
    /\ begun[c] > 0 => /\ sent[c] <= Current(c).response
                       /\ written[c] <= Current(c).content

\* What a session's operation says of the current answer.
Life(c) ==
    /\ session[c] = "writing" <=> op[c] # "none"
    /\ session[c] \in {"writing", "rejecting"} => begun[c] > 0
    /\ session[c] = "reading" /\ begun[c] > 0 =>
          sent[c] = Current(c).response /\ written[c] = Current(c).content
    /\ session[c] = "rejecting" =>
          sent[c] = 0 /\ written[c] = 0 /\ Current(c).content = 0 /\ begun[c] \notin fits[c]
    /\ io = c => session[c] = "writing"
    /\ session[c] = "writing" /\ io # c /\ io # "down" => written[c] = Current(c).content

Stream(c) ==
    /\ Within(Script[c], wire[c], begun[c], sent[c], written[c])
    /\ ~gone[c] => Covers(Script[c], wire[c], begun[c], sent[c], written[c])
    /\ Ordered(Script[c], wire[c])
    /\ Exact(wire[c], fits[c])
    /\ \A k \in fits[c] : k > 0 /\ k <= begun[c]
    /\ begun[c] \in fits[c] /\ ~gone[c] => sent[c] = Current(c).response

Here(c) == TypedAt(c) /\ Life(c) /\ Stream(c)

Shape ==
    /\ asked = [d \in Clients |-> asked[d]] /\ taken = [d \in Clients |-> taken[d]]
    /\ gone = [d \in Clients |-> gone[d]] /\ wire = [d \in Clients |-> wire[d]]
    /\ session = [d \in Clients |-> session[d]] /\ begun = [d \in Clients |-> begun[d]]
    /\ op = [d \in Clients |-> op[d]] /\ sent = [d \in Clients |-> sent[d]]
    /\ written = [d \in Clients |-> written[d]] /\ fits = [d \in Clients |-> fits[d]]
    /\ io \in Clients \cup {"free", "down"}

IInv == Shape /\ \A c \in Clients : Here(c)

\* A step of client c or of its session.
Only(c) ==
    /\ asked' = [asked EXCEPT ![c] = asked'[c]] /\ taken' = [taken EXCEPT ![c] = taken'[c]]
    /\ gone' = [gone EXCEPT ![c] = gone'[c]] /\ wire' = [wire EXCEPT ![c] = wire'[c]]
    /\ session' = [session EXCEPT ![c] = session'[c]]
    /\ begun' = [begun EXCEPT ![c] = begun'[c]] /\ op' = [op EXCEPT ![c] = op'[c]]
    /\ sent' = [sent EXCEPT ![c] = sent'[c]]
    /\ written' = [written EXCEPT ![c] = written'[c]] /\ fits' = [fits EXCEPT ![c] = fits'[c]]
    /\ \/ io' = io
       \/ io \in {"free", c} /\ io' \in {"free", "down", c}

-----------------------------------------------------------------------------

\* IInv has the types of TypeOK.
LEMMA Types ==
    IInv => TypeOK
<1> SUFFICES ASSUME IInv PROVE TypeOK
    OBVIOUS
<1>1. Shape /\ \A c \in Clients : TypedAt(c)
    BY DEF IInv, Here
<1>2. /\ asked \in [Clients -> Nat] /\ taken \in [Clients -> Nat] /\ gone \in [Clients -> BOOLEAN]
    BY <1>1 DEF Shape, TypedAt
<1>3. /\ wire \in [Clients -> Seq(Unit)]
      /\ session \in [Clients -> {"reading", "rejecting", "writing", "deleted"}]
      /\ op \in [Clients -> {"none", "queued", "posted", "failed"}]
    BY <1>1 DEF Shape, TypedAt
<1>4. /\ begun \in [Clients -> Nat] /\ sent \in [Clients -> Nat] /\ written \in [Clients -> Nat]
      /\ io \in Clients \cup {"free", "down"}
    BY <1>1 DEF Shape, TypedAt
<1>5. fits \in [Clients -> SUBSET Nat]
    BY <1>1 DEF Shape, TypedAt
<1>6. \A c \in Clients :
          /\ asked[c] <= Len(Script[c]) /\ begun[c] <= asked[c]
          /\ taken[c] <= Len(wire[c]) /\ Len(wire[c]) <= taken[c] + Capacity
          /\ begun[c] > 0 => /\ sent[c] <= Current(c).response
                             /\ written[c] <= Current(c).content
    BY <1>1 DEF TypedAt
<1> QED BY <1>2, <1>3, <1>4, <1>5, <1>6 DEF TypeOK

\* A step of one client leaves the others' part of IInv alone.
LEMMA OneClient ==
    ASSUME IInv, NEW c \in Clients, Only(c), Here(c)'
    PROVE  IInv'
<1>1. Shape'
    BY DEF IInv, Shape, Only
<1>2. ASSUME NEW d \in Clients, d # c
      PROVE  Here(d)'
    <2>1. /\ asked'[d] = asked[d] /\ taken'[d] = taken[d] /\ gone'[d] = gone[d]
          /\ wire'[d] = wire[d] /\ session'[d] = session[d] /\ begun'[d] = begun[d]
          /\ op'[d] = op[d] /\ sent'[d] = sent[d] /\ written'[d] = written[d]
          /\ fits'[d] = fits[d]
        BY <1>2 DEF IInv, Shape, Only
    <2>2. Here(d)
        BY DEF IInv
    <2>3. TypedAt(d)'
        BY <2>1, <2>2 DEF Here, TypedAt, Current
    <2>4. /\ io' = d => io = d
          /\ io' # d /\ io' # "down" => io # d /\ io # "down"
        <3>1. \/ io' = io
              \/ io \in {"free", c} /\ io' \in {"free", "down", c}
            BY DEF Only
        <3>2. d # "free" /\ d # "down" /\ c # "free" /\ c # "down"
            BY DispatchAssumption
        <3> QED BY <1>2, <3>1, <3>2
    <2>5. Life(d)'
        BY <2>1, <2>2, <2>4 DEF Here, Life, Current
    <2>6. Stream(d)'
        BY <2>1, <2>2 DEF Here, Stream, Current
    <2> QED BY <2>3, <2>5, <2>6 DEF Here
<1> QED BY <1>1, <1>2 DEF IInv

\* The first state.
LEMMA InitIInv ==
    Init => IInv
<1> SUFFICES ASSUME Init PROVE IInv
    OBVIOUS
<1>1. Shape
    BY DEF Init, Shape
<1>2. ASSUME NEW c \in Clients PROVE Here(c)
    <2>1. /\ asked[c] = 0 /\ taken[c] = 0 /\ gone[c] = FALSE /\ wire[c] = <<>>
          /\ session[c] = "reading" /\ begun[c] = 0 /\ op[c] = "none" /\ sent[c] = 0
          /\ written[c] = 0 /\ fits[c] = {} /\ io = "free"
        BY DEF Init
    <2>2. Len(wire[c]) = 0 /\ wire[c] \in Seq(Unit) /\ Len(Script[c]) \in Nat
        BY <2>1, DispatchAssumption
    <2>3. TypedAt(c)
        <3>1. /\ asked[c] <= Len(Script[c]) /\ begun[c] <= asked[c]
              /\ taken[c] <= Len(wire[c]) /\ Len(wire[c]) <= taken[c] + Capacity
              /\ ~(begun[c] > 0)
            BY <2>1, <2>2, DispatchAssumption
        <3>2. gone[c] \in BOOLEAN /\ fits[c] \subseteq Nat
            BY <2>1
        <3>3. /\ asked[c] \in Nat /\ taken[c] \in Nat /\ begun[c] \in Nat /\ sent[c] \in Nat
              /\ written[c] \in Nat
            BY <2>1
        <3>4. /\ session[c] \in {"reading", "rejecting", "writing", "deleted"}
              /\ op[c] \in {"none", "queued", "posted", "failed"}
            BY <2>1
        <3> QED BY <2>2, <3>1, <3>2, <3>3, <3>4 DEF TypedAt
    <2>4. Life(c)
        BY <2>1, DispatchAssumption DEF Life
    <2>5. Stream(c)
        <3>1. \A q : q \notin 1..Len(wire[c])
            BY <2>2
        <3>2. \A a : a \notin 1..begun[c]
            BY <2>1
        <3> QED BY <2>1, <3>1, <3>2 DEF Stream, Within, Covers, Ordered, Exact
    <2> QED BY <2>3, <2>4, <2>5 DEF Here
<1> QED BY <1>1, <1>2 DEF IInv

\* What is known of a client's script.
LEMMA Scripts ==
    ASSUME NEW c \in Clients
    PROVE  /\ Script[c] \in Seq(Answer) /\ Len(Script[c]) \in Nat
           /\ \A k \in 1..Len(Script[c]) :
                 /\ Script[c][k].response \in Nat \ {0} /\ Script[c][k].content \in Nat
                 /\ Script[c][k].kind # "binary" => Script[c][k].content = 0
<1>1. Script[c] \in Seq(Answer)
    BY DispatchAssumption
<1>2. \A k \in 1..Len(Script[c]) : Script[c][k] \in Answer
    BY <1>1
<1> QED BY <1>1, <1>2 DEF Answer

\* The room in a buffer.
LEMMA RoomIsLeft ==
    ASSUME NEW c \in Clients, TypedAt(c)
    PROVE  /\ Room(c) \in Nat
           /\ ~gone[c] => Room(c) = Capacity - (Len(wire[c]) - taken[c])
<1>1. /\ taken[c] \in Nat /\ Len(wire[c]) \in Nat
      /\ taken[c] <= Len(wire[c]) /\ Len(wire[c]) <= taken[c] + Capacity
    BY DEF TypedAt
<1> QED BY <1>1, DispatchAssumption DEF Room

-----------------------------------------------------------------------------
(* The actions                                                             *)

\* The beginning of an answer: what the first send puts on the stream.
LEMMA SendKeeps ==
    ASSUME IInv, NEW c \in Clients, NEW k \in 1..Len(Script[c]),
           Within(Script[c], wire[c], k, 0, 0),
           ~gone[c] => Covers(Script[c], wire[c], k, 0, 0),
           k \notin fits[c], send_response(c, k)
    PROVE  /\ op'[c] \in {"queued", "posted", "failed"}
           /\ sent'[c] \in Nat /\ sent'[c] <= Script[c][k].response
           /\ wire'[c] \in Seq(Unit) /\ Len(wire[c]) <= Len(wire'[c])
           /\ Len(wire'[c]) <= taken[c] + Capacity
           /\ Within(Script[c], wire'[c], k, sent'[c], 0)
           /\ ~gone[c] => Covers(Script[c], wire'[c], k, sent'[c], 0)
           /\ Ordered(Script[c], wire'[c])
           /\ Exact(wire'[c], fits'[c])
           /\ fits'[c] \in {fits[c], fits[c] \cup {k}}
           /\ k \in fits'[c] /\ ~gone[c] => sent'[c] = Script[c][k].response
           /\ op' = [op EXCEPT ![c] = op'[c]] /\ sent' = [sent EXCEPT ![c] = sent'[c]]
           /\ wire' = [wire EXCEPT ![c] = wire'[c]] /\ fits' = [fits EXCEPT ![c] = fits'[c]]
<1> DEFINE s == Script[c]
           w == wire[c]
           room == Least(MaxTransfer, Room(c))
           n == Least(Script[c][k].response, room)
<1>1. Shape /\ TypedAt(c) /\ Stream(c)
    BY DEF IInv, Here
<1>2. s \in Seq(Answer) /\ s[k].response \in Nat /\ s[k].content \in Nat
    BY Scripts
<1>0. k \in Nat \ {0} /\ 0 \in Nat /\ "response" \in Parts /\ TRUE \in BOOLEAN
    BY Scripts DEF Parts
<1>3. w \in Seq(Unit) /\ Len(w) \in Nat /\ taken[c] \in Nat /\ Len(w) <= taken[c] + Capacity
    BY <1>1 DEF TypedAt
<1>4. Room(c) \in Nat /\ (~gone[c] => Room(c) = Capacity - (Len(w) - taken[c]))
    BY <1>1, RoomIsLeft
<1>5. room \in Nat /\ room <= Room(c)
    BY <1>4, LeastIsLess, DispatchAssumption
<1>6. n \in Nat /\ n <= s[k].response /\ n <= Room(c)
    <2>1. n \in Nat /\ n <= s[k].response /\ n <= room
        BY <1>2, <1>5, LeastIsLess
    <2> QED BY <1>4, <1>5, <2>1
<1>7. /\ fits' = [fits EXCEPT ![c] = IF n = s[k].response THEN @ \cup {k} ELSE @]
      /\ \/ /\ op' = [op EXCEPT ![c] = IF n = 0 THEN "queued" ELSE "posted"]
            /\ sent' = [sent EXCEPT ![c] = n]
            /\ Put(c, k, "response", 0, n, TRUE)
         \/ /\ gone[c]
            /\ op' = [op EXCEPT ![c] = "failed"]
            /\ sent' = [sent EXCEPT ![c] = 0]
            /\ UNCHANGED wire
    BY DEF send_response
<1> HIDE DEF n, room
<1>8. \A q \in 1..Len(w) : w[q].answer # k
    <2> SUFFICES ASSUME NEW q \in 1..Len(w), w[q].answer = k
                 PROVE  FALSE
        OBVIOUS
    <2>1. w[q].i <= Progress(s, k, 0, 0, k, w[q].part)
        BY DEF Within
    <2>2. Progress(s, k, 0, 0, k, w[q].part) = 0
        BY DEF Progress
    <2>3. w[q] \in Unit
        BY <1>3
    <2>4. w[q].i \in Nat \ {0}
        BY <2>3 DEF Unit
    <2> QED BY <2>1, <2>2, <2>4
<1>9. fits'[c] = IF n = s[k].response THEN fits[c] \cup {k} ELSE fits[c]
    BY <1>1, <1>7 DEF Shape
<1>10. Exact(w, fits'[c])
    <2>1. Exact(w, fits[c])
        BY <1>1 DEF Stream
    <2>2. Exact(w, fits[c] \cup {k})
        BY <1>3, <1>8, <2>1, ExactMore
    <2> QED BY <1>9, <2>1, <2>2
<1>11. Ordered(s, w)
    BY <1>1 DEF Stream
<1>12. fits' = [fits EXCEPT ![c] = fits'[c]]
    BY <1>1, <1>7, <1>9 DEF Shape
<1>13. CASE /\ op' = [op EXCEPT ![c] = IF n = 0 THEN "queued" ELSE "posted"]
            /\ sent' = [sent EXCEPT ![c] = n]
            /\ wire' = [wire EXCEPT ![c] = w \o Units(k, "response", 0, n, TRUE)]
            /\ ~gone[c]
    <2> DEFINE v == w \o Units(k, "response", 0, n, TRUE)
    <2>1. /\ op'[c] \in {"queued", "posted", "failed"} /\ sent'[c] = n /\ wire'[c] = v
          /\ op' = [op EXCEPT ![c] = op'[c]] /\ sent' = [sent EXCEPT ![c] = sent'[c]]
          /\ wire' = [wire EXCEPT ![c] = wire'[c]]
        BY <1>1, <1>13 DEF Shape
    <2>2. Longer(w, v, k, "response", 0, n, TRUE)
        BY <1>0, <1>3, <1>6, PutIsLonger
    <2> HIDE DEF v
    <2>3. v \in Seq(Unit) /\ Len(v) = Len(w) + n
        BY <2>2 DEF Longer
    <2>4. Advance("response", 0, n, 0, 0, n, 0)
        BY <1>6 DEF Advance
    <2>5. Within(s, v, k, n, 0) /\ Covers(s, v, k, n, 0) /\ Ordered(s, v)
        <3> HIDE DEF s, w
        <3>1. Within(s, w, k, 0, 0) /\ Covers(s, w, k, 0, 0) /\ k \in 1..Len(s)
            BY <1>13 DEF s, w
        <3> QED BY <1>2, <1>3, <1>6, <1>11, <2>2, <2>4, <3>1, Extend DEF Parts
    <2>6. Exact(v, fits'[c])
        <3>1. \A q \in 1..Len(w) : w[q].answer = k => w[q].part = "response"
            BY <1>8
        <3> HIDE DEF w
        <3> QED BY <1>0, <1>3, <1>6, <1>10, <2>2, <3>1, ExactLonger, ZenonT(30)
    <2>7. Len(w) <= Len(v) /\ Len(v) <= taken[c] + Capacity
        BY <1>3, <1>4, <1>6, <1>13, <2>3, DispatchAssumption, SMTT(30)
    <2> QED BY <1>6, <1>9, <1>12, <1>13, <2>1, <2>3, <2>5, <2>6, <2>7
<1>14. CASE /\ gone[c] /\ wire' = wire
            /\ \/ op' = [op EXCEPT ![c] = IF n = 0 THEN "queued" ELSE "posted"]
                  /\ sent' = [sent EXCEPT ![c] = n]
               \/ op' = [op EXCEPT ![c] = "failed"] /\ sent' = [sent EXCEPT ![c] = 0]
    <2>1. /\ op'[c] \in {"queued", "posted", "failed"} /\ sent'[c] \in {0, n} /\ wire'[c] = w
          /\ op' = [op EXCEPT ![c] = op'[c]] /\ sent' = [sent EXCEPT ![c] = sent'[c]]
          /\ wire' = [wire EXCEPT ![c] = wire'[c]]
        BY <1>1, <1>14 DEF Shape
    <2>2. sent'[c] \in Nat /\ sent'[c] <= s[k].response
        BY <1>2, <1>6, <2>1
    <2>3. Within(s, w, k, sent'[c], 0)
        <3> HIDE DEF s, w
        <3>1. Within(s, w, k, 0, 0) /\ k \in 1..Len(s)
            BY DEF s, w
        <3> QED BY <1>2, <1>3, <2>2, <3>1, WithinGrows
    <2> QED BY <1>3, <1>9, <1>10, <1>11, <1>12, <1>14, <2>1, <2>2, <2>3
<1> QED BY <1>7, <1>13, <1>14 DEF Put

\* A step that puts nothing on the stream.
LEMMA Quiet ==
    ASSUME IInv, NEW c \in Clients, Only(c),
           UNCHANGED <<wire, begun, sent, written, fits>>,
           gone'[c] \in BOOLEAN, gone[c] => gone'[c],
           asked'[c] \in Nat, asked[c] <= asked'[c], asked'[c] <= Len(Script[c]),
           taken'[c] \in Nat, taken[c] <= taken'[c], taken'[c] <= Len(wire[c]),
           session'[c] \in {"reading", "rejecting", "writing", "deleted"},
           op'[c] \in {"none", "queued", "posted", "failed"},
           Life(c)'
    PROVE  IInv'
<1>1. TypedAt(c) /\ Stream(c)
    BY DEF IInv, Here
<1>2. /\ asked[c] \in Nat /\ taken[c] \in Nat /\ wire[c] \in Seq(Unit) /\ Len(wire[c]) \in Nat
      /\ begun[c] \in Nat /\ sent[c] \in Nat /\ written[c] \in Nat
      /\ begun[c] <= asked[c] /\ Len(wire[c]) <= taken[c] + Capacity /\ fits[c] \subseteq Nat
      /\ begun[c] > 0 => /\ sent[c] <= Current(c).response
                         /\ written[c] <= Current(c).content
    BY <1>1 DEF TypedAt
<1>3. begun[c] <= asked'[c] /\ Len(wire[c]) <= taken'[c] + Capacity
    BY <1>2, DispatchAssumption, SMTT(30)
<1>4. TypedAt(c)'
    BY <1>2, <1>3 DEF TypedAt, Current
<1>5. Stream(c)'
    BY <1>1 DEF Stream, Current
<1> QED BY <1>4, <1>5, OneClient DEF Here

LEMMA AskKeeps ==
    ASSUME IInv, NEW c \in Clients, Ask(c)
    PROVE  IInv'
<1>1. Shape /\ TypedAt(c) /\ Life(c)
    BY DEF IInv, Here
<1>2. /\ UNCHANGED <<taken, gone, wire, session, begun, op, sent, written, io, fits>>
      /\ asked[c] < Len(Script[c]) /\ asked'[c] = asked[c] + 1 /\ Only(c)
    BY <1>1 DEF Ask, Shape, Only
<1>3. Life(c)'
    BY <1>1, <1>2 DEF Life, Current
<1>4. asked[c] \in Nat /\ taken[c] \in Nat /\ Len(Script[c]) \in Nat
    BY <1>1, Scripts DEF TypedAt
<1>5. asked'[c] \in Nat /\ asked[c] <= asked'[c] /\ asked'[c] <= Len(Script[c])
    BY <1>2, <1>4
<1>6. /\ gone[c] \in BOOLEAN /\ taken[c] <= taken[c] /\ taken[c] <= Len(wire[c])
      /\ session[c] \in {"reading", "rejecting", "writing", "deleted"}
      /\ op[c] \in {"none", "queued", "posted", "failed"}
    BY <1>1, <1>4 DEF TypedAt
<1> QED BY <1>2, <1>3, <1>4, <1>5, <1>6, Quiet

LEMMA ReceiveKeeps ==
    ASSUME IInv, NEW c \in Clients, Receive(c)
    PROVE  IInv'
<1>1. Shape /\ TypedAt(c) /\ Life(c)
    BY DEF IInv, Here
<1>2. /\ UNCHANGED <<asked, gone, wire, session, begun, op, sent, written, io, fits>>
      /\ taken[c] < Len(wire[c]) /\ taken'[c] = taken[c] + 1 /\ Only(c)
    BY <1>1 DEF Receive, Shape, Only
<1>3. Life(c)'
    BY <1>1, <1>2 DEF Life, Current
<1>4. asked[c] \in Nat /\ taken[c] \in Nat /\ Len(wire[c]) \in Nat
    BY <1>1 DEF TypedAt
<1>5. taken'[c] \in Nat /\ taken[c] <= taken'[c] /\ taken'[c] <= Len(wire[c])
    BY <1>2, <1>4
<1>6. /\ gone[c] \in BOOLEAN /\ asked[c] <= asked[c] /\ asked[c] <= Len(Script[c])
      /\ session[c] \in {"reading", "rejecting", "writing", "deleted"}
      /\ op[c] \in {"none", "queued", "posted", "failed"}
    BY <1>1, <1>4 DEF TypedAt
<1> QED BY <1>2, <1>3, <1>4, <1>5, <1>6, Quiet

\* Steps that change neither asked nor taken.
LEMMA Quieter ==
    ASSUME IInv, NEW c \in Clients, Only(c),
           UNCHANGED <<asked, taken, wire, begun, sent, written, fits>>,
           gone'[c] \in BOOLEAN, gone[c] => gone'[c],
           session'[c] \in {"reading", "rejecting", "writing", "deleted"},
           op'[c] \in {"none", "queued", "posted", "failed"},
           Life(c)'
    PROVE  IInv'
<1>1. /\ asked[c] \in Nat /\ asked[c] <= asked[c] /\ asked[c] <= Len(Script[c])
      /\ taken[c] \in Nat /\ taken[c] <= taken[c] /\ taken[c] <= Len(wire[c])
    BY DEF IInv, Here, TypedAt
<1> QED BY <1>1, Quiet

LEMMA LeaveKeeps ==
    ASSUME IInv, NEW c \in Clients, Leave(c)
    PROVE  IInv'
<1>1. Shape /\ TypedAt(c) /\ Life(c)
    BY DEF IInv, Here
<1>2. /\ UNCHANGED <<asked, taken, wire, session, begun, op, sent, written, io, fits>>
      /\ gone'[c] = TRUE /\ Only(c)
    BY <1>1 DEF Leave, Shape, Only
<1>3. Life(c)'
    BY <1>1, <1>2 DEF Life, Current
<1>4. /\ session[c] \in {"reading", "rejecting", "writing", "deleted"}
      /\ op[c] \in {"none", "queued", "posted", "failed"}
    BY <1>1 DEF TypedAt
<1> QED BY <1>2, <1>3, <1>4, Quieter

LEMMA HandleReadErrorKeeps ==
    ASSUME IInv, NEW c \in Clients, HandleReadError(c)
    PROVE  IInv'
<1>1. Shape /\ TypedAt(c) /\ Life(c)
    BY DEF IInv, Here
<1>2. /\ UNCHANGED <<asked, taken, gone, wire, begun, op, sent, written, io, fits>>
      /\ io = "free" /\ session[c] = "reading" /\ session'[c] = "deleted" /\ Only(c)
    BY <1>1 DEF HandleReadError, Shape, Only, clients
<1>3. Life(c)'
    BY <1>1, <1>2, DispatchAssumption DEF Life, Current
<1>4. gone[c] \in BOOLEAN /\ op[c] \in {"none", "queued", "posted", "failed"}
    BY <1>1 DEF TypedAt
<1> QED BY <1>2, <1>3, <1>4, Quieter

LEMMA WriteContentThrowsKeeps ==
    ASSUME IInv, NEW c \in Clients, WriteContentThrows(c)
    PROVE  IInv'
<1>1. Shape /\ TypedAt(c) /\ Life(c)
    BY DEF IInv, Here
<1>2. /\ UNCHANGED <<asked, taken, gone, wire, session, begun, op, sent, written, fits>>
      /\ io = c /\ io' = "down" /\ Only(c)
    BY <1>1 DEF WriteContentThrows, Shape, Only, clients
<1>3. Life(c)'
    BY <1>1, <1>2, DispatchAssumption DEF Life, Current
<1>4. /\ gone[c] \in BOOLEAN
      /\ session[c] \in {"reading", "rejecting", "writing", "deleted"}
      /\ op[c] \in {"none", "queued", "posted", "failed"}
    BY <1>1 DEF TypedAt
<1> QED BY <1>2, <1>3, <1>4, Quieter

\* The io thread is free, and so the content is complete too.
LEMMA HandleWriteKeeps ==
    ASSUME IInv, NEW c \in Clients, HandleWrite(c) \/ HandleWriteError(c)
    PROVE  IInv'
<1>1. Shape /\ TypedAt(c) /\ Life(c)
    BY DEF IInv, Here
<1>2. /\ UNCHANGED <<asked, taken, gone, wire, begun, sent, written, io, fits>>
      /\ io = "free" /\ op[c] # "none" /\ op'[c] = "none" /\ Only(c)
      /\ \/ session'[c] = "reading" /\ sent[c] = Current(c).response
         \/ session'[c] = "deleted"
    BY <1>1 DEF HandleWrite, HandleWriteError, Shape, Only, clients
<1>3. io # c /\ io # "down"
    BY <1>2, DispatchAssumption
<1>4. Life(c)'
    BY <1>1, <1>2, <1>3 DEF Life, Current
<1>5. gone[c] \in BOOLEAN
    BY <1>1 DEF TypedAt
<1> QED BY <1>2, <1>4, <1>5, Quieter

\* A step that works on the current answer, or begins it.
LEMMA Busy ==
    ASSUME IInv, NEW c \in Clients, Only(c), UNCHANGED <<asked, taken, gone>>,
           session'[c] \in {"rejecting", "writing"},
           op'[c] \in {"none", "queued", "posted", "failed"},
           begun'[c] \in Nat, begun'[c] <= asked[c], sent'[c] \in Nat, written'[c] \in Nat,
           begun'[c] > 0 => /\ sent'[c] <= Script[c][begun'[c]].response
                            /\ written'[c] <= Script[c][begun'[c]].content,
           wire'[c] \in Seq(Unit), Len(wire[c]) <= Len(wire'[c]),
           Len(wire'[c]) <= taken[c] + Capacity, fits'[c] \subseteq Nat,
           Life(c)', Stream(c)'
    PROVE  IInv'
<1>1. TypedAt(c)
    BY DEF IInv, Here
<1>2. /\ asked[c] \in Nat /\ taken[c] \in Nat /\ gone[c] \in BOOLEAN
      /\ asked[c] <= Len(Script[c]) /\ taken[c] <= Len(wire[c]) /\ Len(wire[c]) \in Nat
    BY <1>1 DEF TypedAt
<1>3. taken[c] <= Len(wire'[c])
    BY <1>2
<1>4. TypedAt(c)'
    BY <1>2, <1>3 DEF TypedAt, Current
<1> QED BY <1>4, OneClient DEF Here

LEMMA HandleReadKeeps ==
    ASSUME IInv, NEW c \in Clients, HandleRead(c)
    PROVE  IInv'
<1> DEFINE k == begun[c] + 1
<1>1. Shape /\ TypedAt(c) /\ Life(c) /\ Stream(c)
    BY DEF IInv, Here
<1>2. /\ UNCHANGED <<asked, taken, gone>> /\ io = "free" /\ session[c] = "reading"
      /\ begun[c] < asked[c] /\ begun'[c] = k /\ written'[c] = 0
      /\ begun' = [begun EXCEPT ![c] = begun'[c]]
      /\ written' = [written EXCEPT ![c] = written'[c]]
    BY <1>1 DEF HandleRead, Shape, clients
<1>3. /\ asked[c] \in Nat /\ begun[c] \in Nat /\ sent[c] \in Nat /\ written[c] \in Nat
      /\ asked[c] <= Len(Script[c]) /\ wire[c] \in Seq(Unit) /\ Len(wire[c]) \in Nat
      /\ Len(wire[c]) <= taken[c] + Capacity /\ fits[c] \subseteq Nat /\ gone[c] \in BOOLEAN
      /\ op[c] \in {"none", "queued", "posted", "failed"}
    BY <1>1 DEF TypedAt
<1>4. /\ Script[c] \in Seq(Answer) /\ Len(Script[c]) \in Nat /\ k \in 1..Len(Script[c])
      /\ k \in Nat /\ k <= asked[c] /\ k > 0 /\ k > begun[c]
    BY <1>2, <1>3, Scripts
<1>5. /\ Script[c][k].response \in Nat /\ Script[c][k].content \in Nat
      /\ Script[c][k].kind = "rejected" => Script[c][k].content = 0
    BY <1>4, Scripts
<1>6. begun[c] > 0 => /\ sent[c] = Script[c][begun[c]].response
                      /\ written[c] = Script[c][begun[c]].content
    BY <1>1, <1>2 DEF Life, Current
<1>7. /\ Within(Script[c], wire[c], k, 0, 0)
      /\ ~gone[c] => Covers(Script[c], wire[c], k, 0, 0)
    <2>1. /\ Within(Script[c], wire[c], begun[c], sent[c], written[c])
          /\ ~gone[c] => Covers(Script[c], wire[c], begun[c], sent[c], written[c])
        BY <1>1 DEF Stream
    <2> QED BY <1>3, <1>4, <1>6, <2>1, NextAnswer, SMTT(30)
<1>8. k \notin fits[c] /\ \A j \in fits[c] : j > 0 /\ j <= k
    <2>1. \A j \in fits[c] : j \in Nat /\ j > 0 /\ j <= begun[c]
        BY <1>1, <1>3 DEF Stream
    <2> QED BY <1>3, <1>4, <2>1
<1>9. io # c /\ io # "down" /\ c # "down" /\ c # "free"
    BY <1>2, DispatchAssumption
<1> HIDE DEF k
<1>10. CASE /\ Script[c][k].kind # "rejected"
            /\ session' = [session EXCEPT ![c] = "writing"]
            /\ send_response(c, k)
            /\ io' = IF Script[c][k].content # 0 THEN c ELSE "free"
    <2>1. /\ op'[c] \in {"queued", "posted", "failed"}
          /\ sent'[c] \in Nat /\ sent'[c] <= Script[c][k].response
          /\ wire'[c] \in Seq(Unit) /\ Len(wire[c]) <= Len(wire'[c])
          /\ Len(wire'[c]) <= taken[c] + Capacity
          /\ Within(Script[c], wire'[c], k, sent'[c], 0)
          /\ ~gone[c] => Covers(Script[c], wire'[c], k, sent'[c], 0)
          /\ Ordered(Script[c], wire'[c])
          /\ Exact(wire'[c], fits'[c])
          /\ fits'[c] \in {fits[c], fits[c] \cup {k}}
          /\ k \in fits'[c] /\ ~gone[c] => sent'[c] = Script[c][k].response
          /\ op' = [op EXCEPT ![c] = op'[c]] /\ sent' = [sent EXCEPT ![c] = sent'[c]]
          /\ wire' = [wire EXCEPT ![c] = wire'[c]] /\ fits' = [fits EXCEPT ![c] = fits'[c]]
        BY <1>4, <1>7, <1>8, <1>10, SendKeeps
    <2>2. session'[c] = "writing" /\ Only(c)
        BY <1>1, <1>2, <1>10, <2>1 DEF Shape, Only
    <2>3. Life(c)'
        BY <1>2, <1>4, <1>9, <1>10, <2>1, <2>2 DEF Life, Current
    <2>4. fits'[c] \subseteq Nat /\ \A j \in fits'[c] : j > 0 /\ j <= k
        <3>1. k <= k
            BY <1>4
        <3> QED BY <1>3, <1>4, <1>8, <2>1, <3>1
    <2>5. Stream(c)'
        BY <1>2, <2>1, <2>4 DEF Stream, Current
    <2>6. /\ session'[c] \in {"rejecting", "writing"}
          /\ op'[c] \in {"none", "queued", "posted", "failed"}
          /\ written'[c] \in Nat /\ written'[c] <= Script[c][k].content
        BY <1>2, <1>5, <2>1, <2>2
    <2> QED BY <1>2, <1>4, <2>1, <2>2, <2>3, <2>4, <2>5, <2>6, Busy
<1>11. CASE /\ Script[c][k].kind = "rejected"
            /\ session' = [session EXCEPT ![c] = "rejecting"]
            /\ sent' = [sent EXCEPT ![c] = 0]
            /\ UNCHANGED <<wire, op, io, fits>>
    <2>1. sent'[c] = 0 /\ session'[c] = "rejecting" /\ Only(c)
        BY <1>1, <1>2, <1>11 DEF Shape, Only
    <2>2. op[c] = "none"
        BY <1>1, <1>2 DEF Life
    <2>3. Life(c)'
        BY <1>2, <1>4, <1>5, <1>8, <1>9, <1>11, <2>1, <2>2 DEF Life, Current
    <2>4. Ordered(Script[c], wire[c]) /\ Exact(wire[c], fits[c])
        BY <1>1 DEF Stream
    <2>5. Stream(c)'
        BY <1>2, <1>7, <1>8, <1>11, <2>1, <2>4 DEF Stream, Current
    <2>6. /\ sent'[c] \in Nat /\ sent'[c] <= Script[c][k].response
          /\ written'[c] \in Nat /\ written'[c] <= Script[c][k].content
          /\ Len(wire[c]) <= Len(wire[c])
        BY <1>2, <1>3, <1>5, <2>1
    <2> QED BY <1>2, <1>3, <1>4, <1>11, <2>1, <2>3, <2>5, <2>6, Busy
<1> QED BY <1>10, <1>11 DEF HandleRead, k

LEMMA RejectKeeps ==
    ASSUME IInv, NEW c \in Clients, Reject(c)
    PROVE  IInv'
<1> DEFINE k == begun[c]
<1>1. Shape /\ TypedAt(c) /\ Life(c) /\ Stream(c)
    BY DEF IInv, Here
<1>2. /\ UNCHANGED <<asked, taken, gone, begun, written, io>> /\ io # "down"
      /\ session[c] = "rejecting" /\ session'[c] = "writing" /\ send_response(c, k)
      /\ session' = [session EXCEPT ![c] = session'[c]]
    BY <1>1 DEF Reject, Shape, clients
<1>3. k > 0 /\ sent[c] = 0 /\ written[c] = 0 /\ Script[c][k].content = 0 /\ k \notin fits[c]
    BY <1>1, <1>2 DEF Life, Current
<1>4. /\ asked[c] \in Nat /\ k \in Nat /\ k <= asked[c] /\ asked[c] <= Len(Script[c])
      /\ fits[c] \subseteq Nat
    BY <1>1 DEF TypedAt
<1>5. k \in 1..Len(Script[c])
    BY <1>3, <1>4, Scripts
<1>6. /\ Within(Script[c], wire[c], k, 0, 0)
      /\ ~gone[c] => Covers(Script[c], wire[c], k, 0, 0)
      /\ \A j \in fits[c] : j > 0 /\ j <= k
    BY <1>1, <1>3 DEF Stream
<1> HIDE DEF k
<1>7. /\ op'[c] \in {"queued", "posted", "failed"}
      /\ sent'[c] \in Nat /\ sent'[c] <= Script[c][k].response
      /\ wire'[c] \in Seq(Unit) /\ Len(wire[c]) <= Len(wire'[c])
      /\ Len(wire'[c]) <= taken[c] + Capacity
      /\ Within(Script[c], wire'[c], k, sent'[c], 0)
      /\ ~gone[c] => Covers(Script[c], wire'[c], k, sent'[c], 0)
      /\ Ordered(Script[c], wire'[c])
      /\ Exact(wire'[c], fits'[c])
      /\ fits'[c] \in {fits[c], fits[c] \cup {k}}
      /\ k \in fits'[c] /\ ~gone[c] => sent'[c] = Script[c][k].response
      /\ op' = [op EXCEPT ![c] = op'[c]] /\ sent' = [sent EXCEPT ![c] = sent'[c]]
      /\ wire' = [wire EXCEPT ![c] = wire'[c]] /\ fits' = [fits EXCEPT ![c] = fits'[c]]
    BY <1>2, <1>3, <1>5, <1>6, SendKeeps
<1>8. Only(c)
    BY <1>1, <1>2, <1>7 DEF Shape, Only
<1>9. Life(c)'
    BY <1>2, <1>3, <1>7 DEF Life, Current, k
<1>10. fits'[c] \subseteq Nat /\ \A j \in fits'[c] : j > 0 /\ j <= k
    <2>1. k <= k
        BY <1>4
    <2> QED BY <1>3, <1>4, <1>6, <1>7, <2>1
<1>11. Stream(c)'
    BY <1>2, <1>3, <1>7, <1>10 DEF Stream, Current, k
<1>12. /\ op'[c] \in {"none", "queued", "posted", "failed"}
       /\ session'[c] \in {"rejecting", "writing"}
       /\ written'[c] \in Nat /\ written'[c] <= Script[c][k].content
       /\ begun'[c] = k
    BY <1>2, <1>3, <1>7 DEF k
<1> QED BY <1>2, <1>4, <1>7, <1>8, <1>9, <1>10, <1>11, <1>12, Busy

\* More units of a part of the current answer, by either kind of write.
LEMMA PartKeeps ==
    ASSUME IInv, NEW c \in Clients, begun[c] > 0, NEW part \in Parts, NEW n \in Nat, n <= Room(c),
           NEW g \in BOOLEAN, NEW from \in Nat, Put(c, begun[c], part, from, n, g),
           NEW r2 \in Nat, NEW t2 \in Nat,
           Advance(part, from, n, sent[c], written[c], r2, t2),
           part = "content" => g,
           part = "response" /\ begun[c] \in fits[c] => gone[c]
    PROVE  /\ wire'[c] \in Seq(Unit) /\ Len(wire[c]) <= Len(wire'[c])
           /\ Len(wire'[c]) <= taken[c] + Capacity
           /\ Within(Script[c], wire'[c], begun[c], r2, t2)
           /\ ~gone[c] => Covers(Script[c], wire'[c], begun[c], r2, t2)
           /\ Ordered(Script[c], wire'[c])
           /\ Exact(wire'[c], fits[c])
           /\ wire' = [wire EXCEPT ![c] = wire'[c]]
<1> DEFINE s == Script[c]
           w == wire[c]
           k == begun[c]
           r == sent[c]
           t == written[c]
           F == fits[c]
<1>1. Shape /\ TypedAt(c) /\ Stream(c)
    BY DEF IInv, Here
<1>2. /\ w \in Seq(Unit) /\ Len(w) \in Nat /\ taken[c] \in Nat /\ Len(w) <= taken[c] + Capacity
      /\ k \in Nat /\ k <= asked[c] /\ asked[c] \in Nat /\ asked[c] <= Len(s)
      /\ r \in Nat /\ t \in Nat
    BY <1>1 DEF TypedAt
<1>3. s \in Seq(Answer) /\ k \in 1..Len(s) /\ k \in Nat \ {0}
    BY <1>2, Scripts
<1>4. /\ Within(s, w, k, r, t) /\ Ordered(s, w) /\ Exact(w, F)
      /\ ~gone[c] => Covers(s, w, k, r, t)
    BY <1>1 DEF Stream
<1>5. CASE ~gone[c]
    <2> DEFINE v == w \o Units(k, part, from, n, g)
    <2>1. wire' = [wire EXCEPT ![c] = v]
        BY <1>5 DEF Put
    <2>2. wire'[c] = v /\ wire' = [wire EXCEPT ![c] = wire'[c]]
        BY <1>1, <2>1 DEF Shape
    <2>3. Room(c) = Capacity - (Len(w) - taken[c])
        BY <1>1, <1>5, RoomIsLeft
    <2> HIDE DEF s, w, k, r, t, F
    <2>4. Longer(w, v, k, part, from, n, g)
        BY <1>2, <1>3, PutIsLonger
    <2> HIDE DEF v
    <2>5. v \in Seq(Unit) /\ Len(v) = Len(w) + n
        BY <2>4 DEF Longer
    <2>6. Len(w) <= Len(v) /\ Len(v) <= taken[c] + Capacity
        BY <1>2, <2>3, <2>5, DispatchAssumption, SMTT(30)
    <2>7. Advance(part, from, n, r, t, r2, t2)
        BY DEF r, t
    <2>8. Within(s, v, k, r2, t2) /\ Covers(s, v, k, r2, t2) /\ Ordered(s, v)
        <3>1. Within(s, w, k, r, t) /\ Covers(s, w, k, r, t) /\ Ordered(s, w)
            BY <1>4, <1>5
        <3> QED BY <1>2, <1>3, <2>4, <2>7, <3>1, Extend
    <2>9. ~(part = "response" /\ k \in F)
        BY <1>5 DEF k, F
    <2>10. Exact(v, F)
        <3>1. part = "response" /\ k \in F =>
                  g /\ \A q \in 1..Len(w) : w[q].answer = k => w[q].part = "response"
            BY <2>9
        <3> QED BY <1>2, <1>3, <1>4, <2>4, <3>1, ExactLonger, SMTT(30)
    <2> QED BY <1>5, <2>2, <2>5, <2>6, <2>8, <2>10 DEF s, w, k, r, t, F
<1>6. CASE gone[c]
    <2>1. wire' = wire
        BY <1>6 DEF Put
    <2>2. wire'[c] = w /\ wire' = [wire EXCEPT ![c] = wire'[c]] /\ Len(w) <= Len(w)
        BY <1>1, <1>2, <2>1 DEF Shape
    <2> HIDE DEF s, w, k, r, t, F
    <2>3. r <= r2 /\ t <= t2
        <3>1. Advance(part, from, n, r, t, r2, t2)
            BY DEF r, t
        <3> QED BY <1>2, <3>1 DEF Advance
    <2>4. Within(s, w, k, r2, t2)
        BY <1>2, <1>3, <1>4, <2>3, WithinGrows
    <2> QED BY <1>2, <1>4, <1>6, <2>2, <2>4 DEF s, w, k, r, t, F
<1> QED BY <1>5, <1>6

LEMMA WriteContentKeeps ==
    ASSUME IInv, NEW c \in Clients, WriteContent(c)
    PROVE  IInv'
<1> DEFINE n == Least(Current(c).content - written[c], Room(c))
<1>1. Shape /\ TypedAt(c) /\ Life(c) /\ Stream(c)
    BY DEF IInv, Here
<1>2. /\ UNCHANGED <<asked, taken, gone, session, begun, op, sent, fits>> /\ io = c
      /\ Put(c, begun[c], "content", written[c], n, TRUE)
      /\ written'[c] = written[c] + n /\ written' = [written EXCEPT ![c] = written'[c]]
      /\ io' = IF written'[c] = Current(c).content THEN "free" ELSE c
    BY <1>1 DEF WriteContent, Shape, clients
<1>3. session[c] = "writing" /\ begun[c] > 0 /\ op[c] # "none"
    BY <1>1, <1>2 DEF Life
<1>4. /\ asked[c] \in Nat /\ begun[c] \in Nat /\ begun[c] <= asked[c] /\ sent[c] \in Nat
      /\ asked[c] <= Len(Script[c]) /\ written[c] \in Nat /\ fits[c] \subseteq Nat
      /\ written[c] <= Current(c).content /\ sent[c] <= Current(c).response
      /\ op[c] \in {"none", "queued", "posted", "failed"}
    BY <1>1, <1>3 DEF TypedAt
<1>5. Current(c).content \in Nat
    <2>1. begun[c] \in 1..Len(Script[c])
        BY <1>3, <1>4, Scripts
    <2> QED BY <2>1, Scripts DEF Current
<1>6. n \in Nat /\ n <= Current(c).content - written[c] /\ n <= Room(c)
    <2>1. Room(c) \in Nat /\ Current(c).content - written[c] \in Nat
        BY <1>1, <1>4, <1>5, RoomIsLeft
    <2> QED BY <2>1, LeastIsLess
<1> HIDE DEF n
<1>7. written'[c] \in Nat /\ written'[c] <= Current(c).content
    BY <1>2, <1>4, <1>5, <1>6
<1>8. Advance("content", written[c], n, sent[c], written[c], sent[c], written'[c])
    BY <1>2 DEF Advance
<1>9. /\ wire'[c] \in Seq(Unit) /\ Len(wire[c]) <= Len(wire'[c])
      /\ Len(wire'[c]) <= taken[c] + Capacity
      /\ Within(Script[c], wire'[c], begun[c], sent[c], written'[c])
      /\ ~gone[c] => Covers(Script[c], wire'[c], begun[c], sent[c], written'[c])
      /\ Ordered(Script[c], wire'[c])
      /\ Exact(wire'[c], fits[c])
      /\ wire' = [wire EXCEPT ![c] = wire'[c]]
    <2>1. "content" \in Parts /\ TRUE \in BOOLEAN /\ ~("content" = "response")
        BY DEF Parts
    <2> QED BY <1>2, <1>3, <1>4, <1>6, <1>7, <1>8, <2>1, PartKeeps
<1>10. Only(c)
    BY <1>1, <1>2, <1>9 DEF Shape, Only
<1>11. Life(c)'
    <2>1. c # "free" /\ c # "down"
        BY DispatchAssumption
    <2> QED BY <1>2, <1>3, <1>4, <2>1 DEF Life, Current
<1>12. Stream(c)'
    BY <1>1, <1>2, <1>9 DEF Stream, Current
<1>13. Current(c) = Script[c][begun[c]]
    BY DEF Current
<1> QED BY <1>2, <1>3, <1>4, <1>7, <1>9, <1>10, <1>11, <1>12, <1>13, Busy

LEMMA WriteMoreKeeps ==
    ASSUME IInv, NEW c \in Clients, WriteMore(c)
    PROVE  IInv'
<1> DEFINE n == Least(Current(c).response - sent[c], Least(MaxTransfer, Room(c)))
<1>1. Shape /\ TypedAt(c) /\ Life(c) /\ Stream(c)
    BY DEF IInv, Here
<1>2. /\ UNCHANGED <<asked, taken, gone, session, begun, written, io, fits>> /\ io = "free"
      /\ op[c] # "none" /\ sent[c] < Current(c).response
      /\ op'[c] \in {"queued", "posted", "failed"} /\ op' = [op EXCEPT ![c] = op'[c]]
      /\ \/ /\ sent' = [sent EXCEPT ![c] = @ + n]
            /\ \E g \in BOOLEAN : Put(c, begun[c], "response", sent[c], n, g)
         \/ gone[c] /\ UNCHANGED <<sent, wire>>
    BY <1>1 DEF WriteMore, Shape, clients
<1>3. session[c] = "writing" /\ begun[c] > 0
    BY <1>1, <1>2 DEF Life
<1>4. /\ asked[c] \in Nat /\ begun[c] \in Nat /\ begun[c] <= asked[c] /\ sent[c] \in Nat
      /\ asked[c] <= Len(Script[c]) /\ written[c] \in Nat /\ fits[c] \subseteq Nat
      /\ written[c] <= Current(c).content /\ sent[c] <= Current(c).response
      /\ wire[c] \in Seq(Unit) /\ Len(wire[c]) \in Nat /\ Len(wire[c]) <= taken[c] + Capacity
    BY <1>1, <1>3 DEF TypedAt
<1>5. Current(c).response \in Nat
    <2>1. begun[c] \in 1..Len(Script[c])
        BY <1>3, <1>4, Scripts
    <2> QED BY <2>1, Scripts DEF Current
<1>6. n \in Nat /\ n <= Current(c).response - sent[c] /\ n <= Room(c)
    <2>1. Room(c) \in Nat /\ Current(c).response - sent[c] \in Nat
        BY <1>1, <1>4, <1>5, RoomIsLeft
    <2>2. Least(MaxTransfer, Room(c)) \in Nat /\ Least(MaxTransfer, Room(c)) <= Room(c)
        BY <2>1, LeastIsLess, DispatchAssumption
    <2>3. /\ n \in Nat /\ n <= Current(c).response - sent[c]
          /\ n <= Least(MaxTransfer, Room(c))
        BY <2>1, <2>2, LeastIsLess
    <2> HIDE DEF n
    <2> QED BY <2>1, <2>2, <2>3
<1> HIDE DEF n
\* The response did not fit, or all of it would have been sent.
<1>7. begun[c] \in fits[c] => gone[c]
    <2>1. sent[c] # Current(c).response
        BY <1>2, <1>4, <1>5
    <2> QED BY <1>1, <2>1 DEF Stream
<1>8. /\ sent'[c] \in Nat /\ sent'[c] <= Current(c).response
      /\ sent' = [sent EXCEPT ![c] = sent'[c]]
      /\ wire'[c] \in Seq(Unit) /\ Len(wire[c]) <= Len(wire'[c])
      /\ Len(wire'[c]) <= taken[c] + Capacity
      /\ Within(Script[c], wire'[c], begun[c], sent'[c], written[c])
      /\ ~gone[c] => Covers(Script[c], wire'[c], begun[c], sent'[c], written[c])
      /\ Ordered(Script[c], wire'[c])
      /\ Exact(wire'[c], fits[c])
      /\ wire' = [wire EXCEPT ![c] = wire'[c]]
    <2>1. CASE /\ sent' = [sent EXCEPT ![c] = @ + n]
               /\ \E g \in BOOLEAN : Put(c, begun[c], "response", sent[c], n, g)
        <3>1. sent'[c] = sent[c] + n /\ sent' = [sent EXCEPT ![c] = sent'[c]]
            BY <1>1, <2>1 DEF Shape
        <3>2. sent'[c] \in Nat /\ sent'[c] <= Current(c).response
            BY <1>4, <1>5, <1>6, <3>1
        <3>3. PICK g \in BOOLEAN : Put(c, begun[c], "response", sent[c], n, g)
            BY <2>1
        <3>4. Advance("response", sent[c], n, sent[c], written[c], sent'[c], written[c])
            BY <3>1 DEF Advance
        <3>5. "response" \in Parts /\ ~("response" = "content")
            BY DEF Parts
        <3> QED BY <1>3, <1>4, <1>6, <1>7, <3>1, <3>2, <3>3, <3>4, <3>5, PartKeeps
    <2>2. CASE gone[c] /\ UNCHANGED <<sent, wire>>
        <3>1. /\ sent' = [sent EXCEPT ![c] = sent'[c]] /\ wire' = [wire EXCEPT ![c] = wire'[c]]
              /\ sent'[c] = sent[c] /\ wire'[c] = wire[c]
            BY <1>1, <2>2 DEF Shape
        <3>3. Len(wire[c]) <= Len(wire[c])
            BY <1>4
        <3>2. /\ Within(Script[c], wire[c], begun[c], sent[c], written[c])
              /\ Ordered(Script[c], wire[c]) /\ Exact(wire[c], fits[c])
            BY <1>1 DEF Stream
        <3> QED BY <1>4, <2>2, <3>1, <3>2, <3>3
    <2> QED BY <1>2, <2>1, <2>2
<1>9. Only(c)
    BY <1>1, <1>2, <1>8 DEF Shape, Only
<1>10. Life(c)'
    BY <1>1, <1>2, <1>3 DEF Life, Current
<1>11. Stream(c)'
    <2>1. /\ \A k \in fits[c] : k > 0 /\ k <= begun[c]
        BY <1>1 DEF Stream
    <2> QED BY <1>2, <1>7, <1>8, <2>1 DEF Stream, Current
<1>12. Current(c) = Script[c][begun[c]]
    BY DEF Current
<1>13. op'[c] \in {"none", "queued", "posted", "failed"}
    BY <1>2
<1> QED BY <1>2, <1>3, <1>4, <1>8, <1>9, <1>10, <1>11, <1>12, <1>13, Busy

\* Every step keeps IInv.
LEMMA NextIInv ==
    IInv /\ [Next]_vars => IInv'
<1> SUFFICES ASSUME IInv, [Next]_vars PROVE IInv'
    OBVIOUS
<1>1. CASE UNCHANGED vars
    BY <1>1 DEF vars, clients, IInv, Shape, Here, TypedAt, Life, Stream, Current
<1>2. CASE Next
    <2>1. PICK c \in Clients : Ask(c) \/ Receive(c) \/ Leave(c) \/ Server(c)
        BY <1>2 DEF Next
    <2> QED BY <2>1, AskKeeps, ReceiveKeeps, LeaveKeeps, HandleReadKeeps, RejectKeeps,
               HandleReadErrorKeeps, WriteContentKeeps, WriteContentThrowsKeeps, WriteMoreKeeps,
               HandleWriteKeeps DEF Server
<1> QED BY <1>1, <1>2

-----------------------------------------------------------------------------

\* IInv is an invariant.
THEOREM Invariance == Spec => []IInv
BY InitIInv, NextIInv, PTL DEF Spec

\* Every variable keeps its type, and neither total_write nor the units of an
\* asynchronous write pass the length of what is written.
THEOREM DispatchTyped == Spec => []TypeOK
BY Invariance, Types, PTL

\* Whatever the clients, answers and buffers: the parts of answers are put on
\* the wire in order, without repetition, and answer after answer.
THEOREM StreamsAreInOrder == Spec => []StreamsInOrder
<1>1. IInv => StreamsInOrder
    <2> SUFFICES ASSUME IInv, NEW c \in Clients, NEW q \in DOMAIN wire[c]
                 PROVE  LET u == wire[c][q]
                            before(k, part, i) == \E p \in 1..(q - 1) : At(c, p, k, part, i)
                        IN  /\ ~before(u.answer, u.part, u.i)
                            /\ \A i \in 1..(u.i - 1) : before(u.answer, u.part, i)
                            /\ u.answer > 1 =>
                                  /\ \A i \in 1..Script[c][u.answer - 1].response :
                                        before(u.answer - 1, "response", i)
                                  /\ \A i \in 1..Script[c][u.answer - 1].content :
                                        before(u.answer - 1, "content", i)
        BY DEF StreamsInOrder
    <2>1. wire[c] \in Seq(Unit) /\ Ordered(Script[c], wire[c])
        BY DEF IInv, Here, TypedAt, Stream
    <2>2. OrderedAt(Script[c], wire[c], q)
        BY <2>1 DEF Ordered
    <2> QED BY <2>2 DEF OrderedAt, Before, Is, At
<1> QED BY <1>1, Invariance, PTL

\* An answer whose response finds room in the buffer arrives as it was meant.
THEOREM FittingIsExact == Spec => []FittingAnswersAreExact
<1>1. IInv => FittingAnswersAreExact
    <2> SUFFICES ASSUME IInv, NEW c \in Clients, NEW q \in DOMAIN wire[c]
                 PROVE  LET u == wire[c][q]
                        IN  IF u.part = "content" THEN u.genuine
                            ELSE u.answer \in fits[c] =>
                                    /\ u.genuine
                                    /\ \A p \in 1..(q - 1) : wire[c][p].answer = u.answer =>
                                                                 wire[c][p].part = "response"
        BY DEF FittingAnswersAreExact
    <2>1. wire[c] \in Seq(Unit) /\ Exact(wire[c], fits[c])
        BY DEF IInv, Here, TypedAt, Stream
    <2>2. ExactAt(wire[c], fits[c], q)
        BY <2>1 DEF Exact
    <2> QED BY <2>2 DEF ExactAt
<1> QED BY <1>1, Invariance, PTL

-----------------------------------------------------------------------------
(* How many units of an answer are on a stream: as many as it has, since    *)
(* each is there (Covers), none twice (Ordered) and no other (Within).      *)

OfPart(w, a, part) == {q \in 1..Len(w) : w[q].answer = a /\ w[q].part = part}

LEMMA PartCounted ==
    ASSUME NEW w \in Seq(Unit), NEW a, NEW part \in Parts, NEW n \in Nat,
           \A q \in OfPart(w, a, part) : w[q].i <= n,
           \A i \in 1..n : \E p \in 1..Len(w) : Is(w[p], a, part, i),
           \A q \in 1..Len(w) : ~Before(w, q, w[q].answer, w[q].part, w[q].i)
    PROVE  IsFiniteSet(OfPart(w, a, part)) /\ Cardinality(OfPart(w, a, part)) = n
<1> DEFINE S == OfPart(w, a, part)
           f == [q \in S |-> w[q].i]
<1>1. Len(w) \in Nat /\ \A q \in S : q \in 1..Len(w) /\ w[q].answer = a /\ w[q].part = part
    BY DEF OfPart
<1>2. \A q \in S : w[q].i \in 1..n
    <2> TAKE q \in S
    <2>1. w[q] \in Unit
        BY <1>1
    <2>2. w[q].i \in Nat \ {0}
        BY <2>1 DEF Unit
    <2>3. w[q].i <= n
        OBVIOUS
    <2> QED BY <2>2, <2>3
<1>3. ASSUME NEW p \in S, NEW q \in S, w[p].i = w[q].i, p < q PROVE FALSE
    <2>1. p \in 1..(q - 1)
        BY <1>1, <1>3
    <2>2. Is(w[p], w[q].answer, w[q].part, w[q].i)
        BY <1>1, <1>3 DEF Is
    <2>3. Before(w, q, w[q].answer, w[q].part, w[q].i)
        BY <2>1, <2>2, Zenon DEF Before
    <2> QED BY <1>1, <2>3
<1>4. \A p, q \in S : w[p].i = w[q].i => p = q
    <2> SUFFICES ASSUME NEW p \in S, NEW q \in S, w[p].i = w[q].i, p # q PROVE FALSE
        OBVIOUS
    <2>1. p \in Nat /\ q \in Nat
        BY <1>1
    <2>2. p < q \/ q < p
        BY <2>1
    <2> QED BY <1>3, <2>2
<1>5. \A i \in 1..n : \E q \in S : w[q].i = i
    BY DEF OfPart, Is
<1> HIDE DEF S
<1>6. f \in Bijection(S, 1..n)
    <2>1. f \in [S -> 1..n]
        BY <1>2
    <2>2. f \in Injection(S, 1..n)
        BY <1>4, <2>1 DEF Injection, IsInjective
    <2>3. f \in Surjection(S, 1..n)
        BY <1>5, <2>1 DEF Surjection
    <2> QED BY <2>2, <2>3 DEF Bijection
<1>7. IsFiniteSet(1..n) /\ Cardinality(1..n) = n
    <2>1. Cardinality(1..n) = IF 1 > n THEN 0 ELSE n - 1 + 1
        BY FS_Interval
    <2> QED BY <2>1, FS_Interval
<1>8. f \in Injection(S, 1..n) /\ f \in Surjection(S, 1..n)
    BY <1>6 DEF Bijection
<1>9. IsFiniteSet(S) /\ Cardinality(S) = n
    <2> HIDE DEF f
    <2> QED BY <1>7, <1>8, FS_Injection
<1> QED BY <1>9 DEF S

LEMMA AnswerCounted ==
    ASSUME NEW s \in Seq(Answer), NEW w \in Seq(Unit), NEW k \in 1..Len(s), NEW a \in 1..k,
           NEW r \in Nat, NEW t \in Nat,
           Within(s, w, k, r, t), Covers(s, w, k, r, t), Ordered(s, w),
           a < k \/ (r = s[k].response /\ t = s[k].content)
    PROVE  Cardinality({q \in 1..Len(w) : w[q].answer = a}) = s[a].response + s[a].content
<1>1. s[a].response \in Nat /\ s[a].content \in Nat
    <2>1. s[a] \in Answer
        OBVIOUS
    <2> QED BY <2>1 DEF Answer
<1>2. /\ Progress(s, k, r, t, a, "response") = s[a].response
      /\ Progress(s, k, r, t, a, "content") = s[a].content
    BY DEF Progress
<1>3. \A q \in 1..Len(w) : ~Before(w, q, w[q].answer, w[q].part, w[q].i)
    BY DEF Ordered, OrderedAt
<1>4. ASSUME NEW part \in Parts, NEW n \in Nat, Progress(s, k, r, t, a, part) = n
      PROVE  IsFiniteSet(OfPart(w, a, part)) /\ Cardinality(OfPart(w, a, part)) = n
    <2>1. \A q \in OfPart(w, a, part) : w[q].i <= n
        BY <1>4 DEF OfPart, Within
    <2>2. \A i \in 1..n : \E p \in 1..Len(w) : Is(w[p], a, part, i)
        BY <1>4 DEF Covers
    <2> QED BY <1>3, <2>1, <2>2, PartCounted
<1> DEFINE R == OfPart(w, a, "response")
           C == OfPart(w, a, "content")
<1>5. "response" \in Parts /\ "content" \in Parts
    BY DEF Parts
<1>6. /\ IsFiniteSet(R) /\ Cardinality(R) = s[a].response
      /\ IsFiniteSet(C) /\ Cardinality(C) = s[a].content
    BY <1>1, <1>2, <1>4, <1>5
<1>7. R \cap C = {}
    BY DEF OfPart
<1>8. {q \in 1..Len(w) : w[q].answer = a} = R \cup C
    <2>1. \A q \in 1..Len(w) : w[q].part \in Parts
        <3> TAKE q \in 1..Len(w)
        <3>1. w[q] \in Unit
            OBVIOUS
        <3> QED BY <3>1 DEF Unit, Parts
    <2> QED BY <2>1 DEF OfPart, Parts
<1> HIDE DEF R, C
<1>9. Cardinality(R \cup C) = Cardinality(R) + Cardinality(C)
    <2>1. Cardinality(R \cup C) = Cardinality(R) + Cardinality(C) - Cardinality(R \cap C)
        BY <1>6, FS_Union
    <2>2. Cardinality(R \cap C) = 0
        BY <1>7, FS_EmptySet
    <2>3. Cardinality(R) \in Nat /\ Cardinality(C) \in Nat
        BY <1>1, <1>6
    <2> QED BY <2>1, <2>2, <2>3
<1> QED BY <1>6, <1>8, <1>9

\* A session that reads on has put every answer on the wire in full, and one that
\* writes has every earlier one, whatever the clients, the answers and the
\* buffers: the write that handle_write is about, and the loop of dispatch that
\* it is not about, are both over.
THEOREM AnswersAreComplete == Spec => []AnswersComplete
<1>1. IInv => AnswersComplete
    <2> SUFFICES ASSUME IInv, NEW c \in Clients, ~gone[c], NEW a \in 1..begun[c],
                        a < begun[c] \/ session[c] = "reading"
                 PROVE  Complete(c, Len(wire[c]), a)
        BY DEF AnswersComplete
    <2>1. TypedAt(c) /\ Life(c) /\ Stream(c)
        BY DEF IInv, Here
    <2>2. /\ wire[c] \in Seq(Unit) /\ begun[c] \in Nat /\ sent[c] \in Nat /\ written[c] \in Nat
          /\ asked[c] \in Nat /\ begun[c] <= asked[c] /\ asked[c] <= Len(Script[c])
        BY <2>1 DEF TypedAt
    <2>3. Script[c] \in Seq(Answer) /\ begun[c] \in 1..Len(Script[c])
        BY <2>2, Scripts
    <2>4. /\ Within(Script[c], wire[c], begun[c], sent[c], written[c])
          /\ Covers(Script[c], wire[c], begun[c], sent[c], written[c])
          /\ Ordered(Script[c], wire[c])
        BY <2>1 DEF Stream
    <2>5. \/ a < begun[c]
          \/ /\ sent[c] = Script[c][begun[c]].response
             /\ written[c] = Script[c][begun[c]].content
        BY <2>1, <2>2 DEF Life, Current
    <2> QED BY <2>2, <2>3, <2>4, <2>5, AnswerCounted DEF Complete
<1> QED BY <1>1, Invariance, PTL
=============================================================================
