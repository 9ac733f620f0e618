-------------------------- MODULE ProxyCacheProofs --------------------------
(***************************************************************************)
(* What the cache guarantees for any number of URIs, any headers, any      *)
(* timeout and however the upstream's content changes during a transfer.   *)
(***************************************************************************)
EXTENDS ProxyCache, TLAPS

\* The upstream's history is in order and not in the future.
History ==
    \A u \in Uris :
        /\ Len(since[u]) >= 1
        /\ \A i \in 1..Len(since[u]) : since[u][i] <= now
        /\ \A i, j \in 1..Len(since[u]) : i <= j => since[u][i] <= since[u][j]

\* A transfer in progress began in the past, at most a timeout ago, and
\* `oldest' was current when it began.
Transfer ==
    call # NoCall =>
        /\ call.began <= now /\ now <= call.began + Timeout
        /\ CurrentAfter(call.uri, call.oldest, call.began)

\* The last answer is not from the future.
Answers ==
    last # NoAnswer => last.at <= now /\ last.began <= last.at

\* A transfer for a no-store request has left no page of its URI.
Forgotten ==
    call # NoCall /\ call.hdrs.no_store /\ ~call.hdrs.no_cache => ~Present(call.uri)

IInv ==
    /\ TypeOK
    /\ History
    /\ Transfer
    /\ Answers
    /\ PagesAreGenuine
    /\ StalenessBounded
    /\ RevalidationIsCurrent
    /\ Forgotten
    /\ NoStoreForgets

-----------------------------------------------------------------------------
(* Types                                                                   *)

LEMMA DirectivesType ==
  ASSUME NEW h \in Headers
  PROVE  parse_cache_hdrs(h) \in Directives
<1>1. h \in Header
  BY HeadersAssumption
<1>2. \A g \in Given : ValueOf(g) \in Int
  BY DEF Given, ValueOf
<1> QED BY <1>1, <1>2 DEF parse_cache_hdrs, Directives, Header

LEMMA CurrentType ==
  ASSUME TypeOK, NEW u \in Uris
  PROVE  Current(u) \in Nat /\ \A i \in 1..Current(u) : since[u][i] \in Nat
  BY DEF TypeOK, Current

LEMMA PageType ==
  ASSUME TypeOK, NEW u \in Uris, Present(u)
  PROVE  cached_pages[u] \in Page
  BY DEF TypeOK, Present

LEMMA InitType == Init => TypeOK
<1> SUFFICES ASSUME Init PROVE TypeOK
  OBVIOUS
<1>1. since \in [Uris -> Seq(Nat)]
  BY DEF Init
<1> QED BY <1>1 DEF Init, TypeOK

LEMMA UseCacheType ==
  ASSUME TypeOK, NEW u \in Uris, NEW h \in Headers, UseCache(u, h)
  PROVE  TypeOK'
<1> DEFINE d == parse_cache_hdrs(h)
<1>1. d \in Directives /\ now \in Nat
  BY DirectivesType DEF TypeOK
<1>2. cached_pages[u] \in Page
  BY PageType DEF UseCache, can_use
<1>3. cached_pages[u].version \in Nat /\ now - cached_pages[u].time_start \in Int
  BY <1>1, <1>2 DEF Page
<1>4. last' = [src |-> "cache", uri |-> u, hdrs |-> d, at |-> now, began |-> now,
               code |-> 200, version |-> cached_pages[u].version,
               age |-> now - cached_pages[u].time_start]
  BY DEF UseCache
<1> HIDE DEF d
<1>5. last' \in Answer
  BY <1>1, <1>3, <1>4 DEF Answer
<1> QED BY <1>5 DEF UseCache, TypeOK

LEMMA NoCacheType ==
  ASSUME TypeOK, NEW u \in Uris, NEW h \in Headers, NoCache(u, h)
  PROVE  TypeOK'
<1> DEFINE d == parse_cache_hdrs(h)
<1>1. d \in Directives /\ now \in Nat
  BY DirectivesType DEF TypeOK
<1>2. last' = [src |-> "none", uri |-> u, hdrs |-> d, at |-> now, began |-> now,
               code |-> 504, version |-> 0, age |-> 0]
  BY DEF NoCache
<1> HIDE DEF d
<1>3. last' \in Answer
  BY <1>1, <1>2 DEF Answer
<1> QED BY <1>3 DEF NoCache, TypeOK

LEMMA StartFetchType ==
  ASSUME TypeOK, NEW u \in Uris, NEW h \in Headers, StartFetch(u, h)
  PROVE  TypeOK' /\ call' \in Call
<1> DEFINE d == parse_cache_hdrs(h)
<1>1. d \in Directives /\ now \in Nat /\ Current(u) \in Nat
  BY DirectivesType, CurrentType DEF TypeOK
<1>2. call' = [uri |-> u, hdrs |-> d, store |-> should_cache(u, d),
               began |-> now, oldest |-> Current(u)]
  BY DEF StartFetch
<1>3. should_cache(u, d) \in BOOLEAN
  BY DEF should_cache
<1> HIDE DEF d
<1>4. call' \in Call
  BY <1>1, <1>2, <1>3 DEF Call
<1>5. cached_pages' \in [Uris -> Page \cup {NoPage}]
  BY DEF StartFetch, TypeOK
<1> QED BY <1>4, <1>5 DEF StartFetch, TypeOK

LEMMA AnsweredType ==
  ASSUME TypeOK, call \in Call, NEW src \in {"upstream", "error"}, NEW version \in Nat,
         NEW code \in Nat, Answered(src, version, code)
  PROVE  last' \in Answer /\ call' = NoCall
<1>1. last' = [src |-> src, uri |-> call.uri, hdrs |-> call.hdrs, at |-> now,
               began |-> call.began, code |-> code, version |-> version, age |-> 0]
  BY DEF Answered
<1>2. now \in Nat /\ call.uri \in Uris /\ call.hdrs \in Directives /\ call.began \in Nat
  BY DEF TypeOK, Call
<1> QED BY <1>1, <1>2 DEF Answer, Answered

LEMMA FetchDoneType ==
  ASSUME TypeOK, NEW version \in Nat, NEW code \in Nat, FetchDone(version, code)
  PROVE  TypeOK'
<1>1. call \in Call /\ call.uri \in Uris /\ now \in Nat
  BY DEF FetchDone, TypeOK, Call
<1>2. last' \in Answer /\ call' = NoCall
  BY <1>1, AnsweredType DEF FetchDone
<1>3. [version |-> version, code |-> code, time_start |-> now] \in Page
  BY <1>1 DEF Page
<1>4. cached_pages' \in [Uris -> Page \cup {NoPage}]
  BY <1>1, <1>3 DEF FetchDone, Keeps, NewPage, store_cache, TypeOK
<1> QED BY <1>2, <1>4 DEF FetchDone, TypeOK

LEMMA FetchFailsType ==
  ASSUME TypeOK, FetchFails \/ FetchTimesOut
  PROVE  TypeOK'
<1>1. call \in Call /\ Answered("error", 0, 500) /\ UNCHANGED <<up, now, since, cached_pages>>
  BY DEF FetchFails, FetchTimesOut, TypeOK
<1>2. last' \in Answer /\ call' = NoCall
  BY <1>1, AnsweredType
<1> QED BY <1>1, <1>2 DEF TypeOK

LEMMA PublishType ==
  ASSUME TypeOK, NEW u \in Uris, Publish(u)
  PROVE  TypeOK'
<1>1. Append(since[u], now) \in Seq(Nat)
  BY DEF TypeOK
<1>2. since' \in [Uris -> Seq(Nat)]
  BY <1>1 DEF Publish, TypeOK
<1> QED BY <1>2 DEF Publish, TypeOK

LEMMA NextType == TypeOK /\ [Next]_vars => TypeOK'
<1> SUFFICES ASSUME TypeOK, [Next]_vars PROVE TypeOK'
  OBVIOUS
<1>1. ASSUME NEW u \in Uris, NEW h \in Headers, UseCache(u, h) \/ NoCache(u, h) \/ StartFetch(u, h)
      PROVE  TypeOK'
  BY <1>1, UseCacheType, NoCacheType, StartFetchType
<1>2. ASSUME NEW h \in Headers, HandleRequestThrows(h) PROVE TypeOK'
  BY <1>2 DEF HandleRequestThrows, TypeOK
<1>3. ASSUME NEW version \in 1..MaxVersion, NEW code \in {200, 404}, FetchDone(version, code)
      PROVE  TypeOK'
  <2>1. version \in Nat /\ code \in Nat
    BY BoundsAssumption
  <2> QED BY <1>3, <2>1, FetchDoneType
<1>4. CASE FetchFails \/ FetchTimesOut
  BY <1>4, FetchFailsType
<1>5. CASE Tick
  BY <1>5 DEF Tick, TypeOK
<1>6. ASSUME NEW u \in Uris, Publish(u) PROVE TypeOK'
  BY <1>6, PublishType
<1>7. CASE UNCHANGED vars
  BY <1>7 DEF vars, TypeOK
<1> QED BY <1>1, <1>2, <1>3, <1>4, <1>5, <1>6, <1>7 DEF Next

-----------------------------------------------------------------------------
(* Versions and times                                                      *)

LEMMA CurrentAfterWeaker ==
  ASSUME TypeOK, NEW u \in Uris, NEW v, NEW t \in Int, NEW r \in Int, r <= t,
         CurrentAfter(u, v, t)
  PROVE  CurrentAfter(u, v, r)
<1>1. Current(u) \in Nat /\ \A i \in 1..Current(u) : since[u][i] \in Nat
  BY CurrentType
<1>2. v \in 1..Current(u)
  BY DEF CurrentAfter
<1>3. v < Current(u) => v + 1 \in 1..Current(u)
  BY <1>1, <1>2
<1> QED BY <1>1, <1>3 DEF CurrentAfter

LEMMA CurrentAfterLater ==
  ASSUME TypeOK, History, NEW u \in Uris, NEW o, NEW v, NEW t \in Int,
         CurrentAfter(u, o, t), v \in o..Current(u)
  PROVE  CurrentAfter(u, v, t)
<1>1. Current(u) \in Nat /\ \A i \in 1..Current(u) : since[u][i] \in Nat
  BY CurrentType
<1>2. o \in 1..Current(u) /\ v \in 1..Current(u) /\ o <= v
  BY <1>1 DEF CurrentAfter
<1>3. ASSUME v < Current(u) PROVE since[u][v + 1] >= t
  <2>1. o + 1 \in 1..Current(u) /\ v + 1 \in 1..Current(u) /\ o + 1 <= v + 1 /\ o < Current(u)
    BY <1>1, <1>2, <1>3
  <2>2. since[u][o + 1] <= since[u][v + 1]
    BY <2>1 DEF History, Current
  <2>3. since[u][o + 1] >= t
    BY <2>1 DEF CurrentAfter
  <2>4. since[u][o + 1] \in Nat /\ since[u][v + 1] \in Nat
    BY <1>1, <2>1
  <2> QED BY <2>2, <2>3, <2>4
<1> QED BY <1>2, <1>3 DEF CurrentAfter

\* A new version does not change what was current at some time up to now.
LEMMA PublishKeeps ==
  ASSUME TypeOK, History, NEW w \in Uris, Publish(w), NEW u \in Uris, NEW v, NEW t \in Int
  PROVE  /\ CurrentAfter(u, v, t) /\ t <= now => CurrentAfter(u, v, t)'
         /\ PublishedBy(u, v, t) => PublishedBy(u, v, t)'
<1>1. since' = [since EXCEPT ![w] = Append(since[w], now)] /\ now \in Nat
  BY DEF Publish, TypeOK
<1>2. CASE u # w
  <2>1. since'[u] = since[u]
    BY <1>1, <1>2 DEF TypeOK
  <2> QED BY <2>1 DEF CurrentAfter, PublishedBy, Current
<1>3. CASE u = w
  <2> DEFINE n == Len(since[u])
  <2>1. since[u] \in Seq(Nat) /\ n \in Nat
    BY DEF TypeOK
  <2>2. since'[u] = Append(since[u], now)
    BY <1>1, <1>3 DEF TypeOK
  <2>3. /\ Len(since'[u]) = n + 1 /\ since'[u][n + 1] = now
        /\ \A i \in 1..n : since'[u][i] = since[u][i]
    BY <2>1, <2>2
  <2>4. Current(u) = n /\ Current(u)' = n + 1
    BY <2>3 DEF Current
  <2> HIDE DEF n
  <2>5. ASSUME CurrentAfter(u, v, t), t <= now PROVE CurrentAfter(u, v, t)'
    <3>1. v \in 1..n /\ (v < n => since[u][v + 1] >= t)
      BY <2>4, <2>5 DEF CurrentAfter
    <3>2. v \in 1..(n + 1) /\ (v < n => v + 1 \in 1..n)
      BY <2>1, <3>1
    <3>3. v < n \/ v = n
      BY <2>1, <3>1
    <3>4. CASE v < n
      BY <2>3, <2>4, <3>1, <3>2, <3>4 DEF CurrentAfter
    <3>5. CASE v = n
      BY <1>1, <2>3, <2>4, <2>5, <3>2, <3>5 DEF CurrentAfter
    <3> QED BY <3>3, <3>4, <3>5
  <2>6. ASSUME PublishedBy(u, v, t) PROVE PublishedBy(u, v, t)'
    <3>1. v \in 1..n /\ since[u][v] <= t
      BY <2>4, <2>6 DEF PublishedBy
    <3>2. v \in 1..(n + 1)
      BY <2>1, <3>1
    <3> QED BY <2>3, <2>4, <3>1, <3>2 DEF PublishedBy
  <2> QED BY <2>5, <2>6
<1> QED BY <1>2, <1>3

-----------------------------------------------------------------------------
(* Steps that leave the upstream alone                                     *)

LEMMA InitIInv == Init => IInv
<1> SUFFICES ASSUME Init PROVE IInv
  OBVIOUS
<1>1. TypeOK
  BY InitType
<1>2. History
  <2> SUFFICES ASSUME NEW u \in Uris
               PROVE  /\ Len(since[u]) >= 1
                      /\ \A i \in 1..Len(since[u]) : since[u][i] <= now
                      /\ \A i, j \in 1..Len(since[u]) : i <= j => since[u][i] <= since[u][j]
    BY DEF History
  <2>1. now = 0 /\ since[u] = <<0>>
    BY DEF Init
  <2>2. Len(since[u]) = 1 /\ since[u][1] = 0
    BY <2>1
  <2>3. \A i \in 1..Len(since[u]) : since[u][i] = 0
    BY <2>2
  <2> QED BY <2>1, <2>2, <2>3
<1>3. Transfer /\ Answers /\ StalenessBounded /\ RevalidationIsCurrent
  BY DEF Init, Transfer, Answers, StalenessBounded, RevalidationIsCurrent
<1>4. PagesAreGenuine
  BY DEF Init, PagesAreGenuine, Present
<1>5. Forgotten /\ NoStoreForgets
  BY DEF Init, Forgotten, NoStoreForgets
<1> QED BY <1>1, <1>2, <1>3, <1>4, <1>5 DEF IInv

LEMMA SameUpstream ==
  ASSUME since' = since
  PROVE  \A u, v, t : (CurrentAfter(u, v, t)' <=> CurrentAfter(u, v, t))
                      /\ (PublishedBy(u, v, t)' <=> PublishedBy(u, v, t))
  BY DEF CurrentAfter, PublishedBy, Current

LEMMA UseCacheIInv ==
  ASSUME IInv, NEW u \in Uris, NEW h \in Headers, UseCache(u, h)
  PROVE  IInv'
<1> DEFINE d == parse_cache_hdrs(h)
           page == cached_pages[u]
<1>1. TypeOK /\ TypeOK'
  BY UseCacheType DEF IInv
<1>2. UNCHANGED <<now, since, cached_pages, call>> /\ can_use(u, d)
  BY DEF UseCache
<1>3. /\ last'.src = "cache" /\ last'.uri = u /\ last'.hdrs = d /\ last'.at = now
      /\ last'.began = now /\ last'.version = page.version
  BY DEF UseCache
<1>4. d \in Directives /\ page \in Page /\ Present(u) /\ now \in Nat /\ Timeout \in Nat
  BY <1>1, <1>2, DirectivesType, PageType, TimesAssumption DEF can_use, TypeOK
<1>5. ~d.no_cache /\ Acceptable(page, d)
  BY <1>2 DEF can_use
<1>6. CurrentAfter(u, page.version, page.time_start - Timeout)
  BY <1>4 DEF IInv, PagesAreGenuine
<1> HIDE DEF d, page
<1>7. StalenessBounded'
  <2> SUFFICES ASSUME d.max_age > 0, d.min_fresh = 0
               PROVE  CurrentAfter(u, page.version, now - d.max_age - Timeout)
    BY <1>2, <1>3, SameUpstream DEF StalenessBounded
  <2>1. d.max_age \in Int /\ page.time_start \in Nat
    BY <1>4 DEF Directives, Page
  <2>2. ~isExpired(page, d.max_age)
    BY <1>5, <2>1 DEF Acceptable, WithinAge
  <2>3. now - d.max_age - Timeout <= page.time_start - Timeout
    BY <1>4, <2>1, <2>2 DEF isExpired
  <2> QED BY <1>1, <1>4, <1>6, <2>1, <2>3, CurrentAfterWeaker
<1>8. RevalidationIsCurrent'
  BY <1>3, <1>5 DEF RevalidationIsCurrent
<1>9. Answers'
  BY <1>2, <1>3, <1>4 DEF Answers
<1>10. History' /\ Transfer' /\ PagesAreGenuine'
  BY <1>2, SameUpstream DEF IInv, History, Transfer, PagesAreGenuine, Present
<1>11. Forgotten' /\ NoStoreForgets'
  BY <1>2, <1>3, <1>5 DEF IInv, Forgotten, NoStoreForgets, Present, Acceptable
<1> QED BY <1>1, <1>7, <1>8, <1>9, <1>10, <1>11 DEF IInv

LEMMA NoCacheIInv ==
  ASSUME IInv, NEW u \in Uris, NEW h \in Headers, NoCache(u, h)
  PROVE  IInv'
<1>1. TypeOK' /\ now \in Nat
  BY NoCacheType DEF IInv, TypeOK
<1>2. UNCHANGED <<now, since, cached_pages, call>> /\ cache_only(u, parse_cache_hdrs(h))
  BY DEF NoCache
<1>3. /\ last'.src = "none" /\ last'.hdrs = parse_cache_hdrs(h) /\ last'.at = now
      /\ last'.began = now /\ last'.uri = u
  BY DEF NoCache
<1>4. StalenessBounded' /\ RevalidationIsCurrent' /\ Answers'
  BY <1>1, <1>2, <1>3 DEF StalenessBounded, RevalidationIsCurrent, Answers, cache_only
<1>5. History' /\ Transfer' /\ PagesAreGenuine'
  BY <1>2, SameUpstream DEF IInv, History, Transfer, PagesAreGenuine, Present
<1>6. Forgotten' /\ NoStoreForgets'
  BY <1>2, <1>3 DEF IInv, Forgotten, NoStoreForgets, Present, cache_only
<1> QED BY <1>1, <1>4, <1>5, <1>6 DEF IInv

LEMMA StartFetchIInv ==
  ASSUME IInv, NEW u \in Uris, NEW h \in Headers, StartFetch(u, h)
  PROVE  IInv'
<1>1. TypeOK /\ TypeOK' /\ call' \in Call
  BY StartFetchType DEF IInv
<1>2. /\ UNCHANGED <<now, since, last>>
      /\ call'.uri = u /\ call'.began = now /\ call'.oldest = Current(u)
      /\ \A w \in Uris : cached_pages'[w] # NoPage => cached_pages'[w] = cached_pages[w]
  BY <1>1 DEF StartFetch, TypeOK
<1>3. Transfer'
  <2>1. now \in Nat /\ Timeout \in Nat /\ Current(u) \in Nat /\ Current(u) >= 1
    BY <1>1, CurrentType, TimesAssumption DEF IInv, History, TypeOK, Current
  <2>2. CurrentAfter(u, Current(u), now)
    BY <2>1 DEF CurrentAfter
  <2> QED BY <1>2, <2>1, <2>2, SameUpstream DEF Transfer
<1>4. PagesAreGenuine'
  BY <1>2, SameUpstream DEF IInv, PagesAreGenuine, Present
<1>5. History' /\ Answers' /\ StalenessBounded' /\ RevalidationIsCurrent'
  BY <1>2, SameUpstream DEF IInv, History, Answers, StalenessBounded, RevalidationIsCurrent
<1>6. Forgotten'
  <2>1. /\ call'.hdrs = parse_cache_hdrs(h)
        /\ cached_pages' = IF erases(u, parse_cache_hdrs(h)) THEN [cached_pages EXCEPT ![u] = NoPage]
                                                             ELSE cached_pages
    BY DEF StartFetch
  <2>2. ASSUME parse_cache_hdrs(h).no_store, ~parse_cache_hdrs(h).no_cache
        PROVE  cached_pages'[u] = NoPage
    BY <1>1, <2>1, <2>2 DEF erases, Present, TypeOK
  <2> QED BY <1>2, <2>1, <2>2 DEF Forgotten, Present
<1>7. NoStoreForgets'
  <2>1. last # NoAnswer => last.uri \in Uris
    BY <1>1 DEF TypeOK, Answer
  <2> QED BY <1>2, <2>1 DEF IInv, NoStoreForgets, Present
<1> QED BY <1>1, <1>3, <1>4, <1>5, <1>6, <1>7 DEF IInv

\* The page that a transfer brings is stamped when it has ended: its content was
\* current at some moment after the call began, at most a timeout before.
LEMMA FetchDoneIInv ==
  ASSUME IInv, NEW version \in Nat, NEW code \in Nat, FetchDone(version, code)
  PROVE  IInv'
<1> DEFINE u == call.uri
           page == [version |-> version, code |-> code, time_start |-> now]
<1>1. TypeOK /\ TypeOK' /\ History /\ Transfer /\ PagesAreGenuine
  BY FetchDoneType DEF IInv
<1>2. /\ call # NoCall /\ call \in Call /\ u \in Uris
      /\ now \in Nat /\ Timeout \in Nat /\ call.began \in Nat
  BY <1>1, TimesAssumption DEF FetchDone, TypeOK, Call
<1>3. /\ UNCHANGED <<now, since>>
      /\ version \in call.oldest..Current(u)
      /\ call' = NoCall
  BY DEF FetchDone, Answered
<1>4. /\ last'.src = "upstream" /\ last'.uri = u /\ last'.at = now
      /\ last'.began = call.began /\ last'.version = version /\ last'.hdrs = call.hdrs
  BY DEF FetchDone, Answered
<1>5. /\ call.began <= now /\ now <= call.began + Timeout
      /\ CurrentAfter(u, call.oldest, call.began)
  BY <1>1, <1>2 DEF Transfer
<1>6. \A w \in Uris : cached_pages'[w] # cached_pages[w] =>
                        w = u /\ code = 200 /\ cached_pages'[w] = page
  BY <1>1, <1>2 DEF FetchDone, Keeps, NewPage, store_cache, TypeOK
<1> HIDE DEF u
<1>7. CurrentAfter(u, version, call.began)
  BY <1>1, <1>2, <1>3, <1>5, CurrentAfterLater
<1>8. CurrentAfter(u, version, now - Timeout)
  <2>1. now - Timeout \in Int /\ now - Timeout <= call.began /\ call.began \in Int
    BY <1>2, <1>5
  <2> QED BY <1>1, <1>2, <1>7, <2>1, CurrentAfterWeaker
<1>9. PublishedBy(u, version, now)
  BY <1>1, <1>2, <1>7 DEF History, PublishedBy, CurrentAfter, Current
<1>10. PagesAreGenuine'
  <2> SUFFICES ASSUME NEW w \in Uris, cached_pages'[w] # NoPage
               PROVE  /\ cached_pages'[w].code = 200
                      /\ cached_pages'[w].time_start <= now
                      /\ PublishedBy(w, cached_pages'[w].version, cached_pages'[w].time_start)
                      /\ CurrentAfter(w, cached_pages'[w].version,
                                      cached_pages'[w].time_start - Timeout)
    BY <1>3, SameUpstream DEF PagesAreGenuine, Present
  <2>1. CASE cached_pages'[w] = cached_pages[w]
    BY <1>1, <2>1 DEF PagesAreGenuine, Present
  <2>2. CASE cached_pages'[w] # cached_pages[w]
    <3>1. w = u /\ code = 200 /\ cached_pages'[w] = page
      BY <1>6, <2>2
    <3>2. page.version = version /\ page.code = code /\ page.time_start = now
      OBVIOUS
    <3> HIDE DEF page
    <3> QED BY <1>2, <1>8, <1>9, <3>1, <3>2
  <2> QED BY <2>1, <2>2
<1>11. RevalidationIsCurrent'
  BY <1>3, <1>4, <1>7, SameUpstream DEF RevalidationIsCurrent
<1>12. StalenessBounded' /\ Answers'
  BY <1>2, <1>3, <1>4, <1>5 DEF StalenessBounded, Answers
<1>13. History' /\ Transfer'
  BY <1>1, <1>3 DEF History, Transfer
<1>14. Forgotten'
  BY <1>3 DEF Forgotten
<1>15. NoStoreForgets'
  <2> SUFFICES ASSUME call.hdrs.no_store, ~call.hdrs.no_cache, cached_pages'[u] # NoPage
               PROVE  cached_pages'[u].time_start >= call.began
    BY <1>4 DEF NoStoreForgets, Present
  <2>1. cached_pages[u] = NoPage
    BY <1>2 DEF IInv, Forgotten, Present, u
  <2>2. cached_pages'[u] = page
    BY <1>2, <1>6, <2>1
  <2>3. page.time_start = now
    OBVIOUS
  <2> HIDE DEF page
  <2> QED BY <1>2, <1>5, <2>2, <2>3
<1> QED BY <1>1, <1>10, <1>11, <1>12, <1>13, <1>14, <1>15 DEF IInv

LEMMA FetchFailsIInv ==
  ASSUME IInv, FetchFails \/ FetchTimesOut
  PROVE  IInv'
<1>1. TypeOK /\ TypeOK'
  BY FetchFailsType DEF IInv
<1>2. call # NoCall /\ Answered("error", 0, 500) /\ UNCHANGED <<now, since, cached_pages>>
  BY DEF FetchFails, FetchTimesOut
<1>3. /\ call' = NoCall /\ last'.src = "error" /\ last'.at = now /\ last'.began = call.began
      /\ last'.uri = call.uri /\ last'.hdrs = call.hdrs
  BY <1>2 DEF Answered
<1>4. call.began <= now /\ now' = now
  BY <1>2 DEF IInv, Transfer
<1>5. now \in Nat
  BY <1>1 DEF TypeOK
<1>6. Answers'
  BY <1>3, <1>4, <1>5 DEF Answers
<1>7. StalenessBounded' /\ RevalidationIsCurrent'
  BY <1>3 DEF StalenessBounded, RevalidationIsCurrent
<1>8. History' /\ Transfer' /\ PagesAreGenuine'
  BY <1>2, <1>3, SameUpstream DEF IInv, History, Transfer, PagesAreGenuine, Present
<1>9. Forgotten' /\ NoStoreForgets'
  BY <1>2, <1>3 DEF IInv, Forgotten, NoStoreForgets, Present
<1> QED BY <1>1, <1>6, <1>7, <1>8, <1>9 DEF IInv

-----------------------------------------------------------------------------
(* The environment                                                         *)

LEMMA TickIInv ==
  ASSUME IInv, Tick
  PROVE  IInv'
<1>1. TypeOK /\ TypeOK'
  BY NextType DEF IInv, Next
<1>2. now \in Nat /\ Timeout \in Nat /\ now' = now + 1 /\ UNCHANGED <<since, cached_pages, call, last>>
  BY <1>1, TimesAssumption DEF Tick, TypeOK
<1>3. History'
  <2> SUFFICES ASSUME NEW u \in Uris, NEW i \in 1..Len(since[u])
               PROVE  since[u][i] <= now + 1
    BY <1>2 DEF IInv, History
  <2>1. since[u][i] \in Nat /\ since[u][i] <= now
    BY <1>1, CurrentType DEF Current, IInv, History
  <2> QED BY <1>2, <2>1
<1>4. Transfer'
  <2> SUFFICES ASSUME call # NoCall
               PROVE  /\ call.began <= now + 1 /\ now + 1 <= call.began + Timeout
                      /\ CurrentAfter(call.uri, call.oldest, call.began)
    BY <1>2, SameUpstream DEF Transfer
  <2>1. call.began \in Nat /\ call.began <= now /\ now < call.began + Timeout
        /\ CurrentAfter(call.uri, call.oldest, call.began)
    BY <1>1 DEF Tick, IInv, Transfer, TypeOK, Call
  <2> QED BY <1>2, <2>1
<1>5. Answers'
  <2> SUFFICES ASSUME last # NoAnswer PROVE last.at <= now + 1 /\ last.began <= last.at
    BY <1>2 DEF Answers
  <2>1. last.at \in Nat /\ last.at <= now /\ last.began <= last.at
    BY <1>1 DEF IInv, Answers, TypeOK, Answer
  <2> QED BY <1>2, <2>1
<1>6. PagesAreGenuine'
  <2> SUFFICES ASSUME NEW u \in Uris, Present(u)
               PROVE  cached_pages[u].time_start <= now + 1
    BY <1>2, SameUpstream DEF IInv, PagesAreGenuine, Present
  <2>1. cached_pages[u].time_start \in Nat /\ cached_pages[u].time_start <= now
    BY <1>1, PageType DEF IInv, PagesAreGenuine, Page
  <2> QED BY <1>2, <2>1
<1>7. StalenessBounded' /\ RevalidationIsCurrent'
  BY <1>2, SameUpstream DEF IInv, StalenessBounded, RevalidationIsCurrent
<1>8. Forgotten' /\ NoStoreForgets'
  BY <1>2 DEF IInv, Forgotten, NoStoreForgets, Present
<1> QED BY <1>1, <1>3, <1>4, <1>5, <1>6, <1>7, <1>8 DEF IInv

LEMMA PublishHistory ==
  ASSUME TypeOK, History, NEW w \in Uris, Publish(w)
  PROVE  History'
<1>1. since' = [since EXCEPT ![w] = Append(since[w], now)] /\ now' = now /\ now \in Nat
  BY DEF Publish, TypeOK
<1> SUFFICES ASSUME NEW u \in Uris
             PROVE  /\ Len(since'[u]) >= 1
                    /\ \A i \in 1..Len(since'[u]) : since'[u][i] <= now
                    /\ \A i, j \in 1..Len(since'[u]) : i <= j => since'[u][i] <= since'[u][j]
  BY <1>1 DEF History
<1>2. CASE u # w
  <2>1. since'[u] = since[u]
    BY <1>1, <1>2 DEF TypeOK
  <2> QED BY <2>1 DEF History
<1>3. CASE u = w
  <2> DEFINE n == Len(since[u])
  <2>1. since[u] \in Seq(Nat) /\ n \in Nat
    BY DEF TypeOK
  <2>2. since'[u] = Append(since[u], now)
    BY <1>1, <1>3 DEF TypeOK
  <2>3. /\ Len(since'[u]) = n + 1 /\ since'[u][n + 1] = now
        /\ \A i \in 1..n : since'[u][i] = since[u][i]
    BY <2>1, <2>2
  <2>4. /\ \A i \in 1..n : since[u][i] <= now
        /\ \A i, j \in 1..n : i <= j => since[u][i] <= since[u][j]
    BY DEF History
  <2> HIDE DEF n
  <2>5. \A i \in 1..(n + 1) : i \in 1..n \/ i = n + 1
    BY <2>1
  <2>6. \A i \in 1..(n + 1) : since'[u][i] <= now
    BY <1>1, <2>3, <2>4, <2>5
  <2>7. ASSUME NEW i \in 1..(n + 1), NEW j \in 1..(n + 1), i <= j
        PROVE  since'[u][i] <= since'[u][j]
    <3>1. CASE j = n + 1
      BY <2>3, <2>6, <3>1
    <3>2. CASE j \in 1..n
      <4>1. i \in 1..n
        BY <2>1, <2>7, <3>2
      <4> QED BY <2>3, <2>4, <2>7, <3>2, <4>1
    <3> QED BY <2>5, <3>1, <3>2
  <2> QED BY <2>1, <2>3, <2>6, <2>7
<1> QED BY <1>2, <1>3

LEMMA PublishIInv ==
  ASSUME IInv, NEW w \in Uris, Publish(w)
  PROVE  IInv'
<1>1. TypeOK /\ TypeOK' /\ History /\ History'
  BY PublishType, PublishHistory DEF IInv
<1>2. now \in Nat /\ Timeout \in Nat /\ UNCHANGED <<now, cached_pages, call, last>>
  BY <1>1, TimesAssumption DEF Publish, TypeOK
<1>3. \A u \in Uris : \A v : \A t \in Int :
          /\ CurrentAfter(u, v, t) /\ t <= now => CurrentAfter(u, v, t)'
          /\ PublishedBy(u, v, t) => PublishedBy(u, v, t)'
  BY <1>1, PublishKeeps
<1>4. Transfer'
  <2>1. CASE call = NoCall
    BY <1>2, <2>1 DEF Transfer
  <2>2. CASE call # NoCall
    <3>1. call.uri \in Uris /\ call.began \in Int
      BY <1>1, <2>2 DEF TypeOK, Call
    <3>2. /\ call.began <= now /\ now <= call.began + Timeout
          /\ CurrentAfter(call.uri, call.oldest, call.began)
      BY <2>2 DEF IInv, Transfer
    <3> QED BY <1>2, <1>3, <3>1, <3>2 DEF Transfer
  <2> QED BY <2>1, <2>2
<1>5. PagesAreGenuine'
  <2>1. ASSUME NEW u \in Uris, Present(u)
        PROVE  LET page == cached_pages[u]
               IN  /\ page.code = 200
                   /\ page.time_start <= now
                   /\ page.time_start \in Int /\ page.time_start - Timeout \in Int
                   /\ page.time_start - Timeout <= now
                   /\ PublishedBy(u, page.version, page.time_start)
                   /\ CurrentAfter(u, page.version, page.time_start - Timeout)
    <3>1. cached_pages[u].time_start \in Nat /\ cached_pages[u].time_start <= now
      BY <1>1, <2>1, PageType DEF Page, IInv, PagesAreGenuine
    <3>2. /\ cached_pages[u].time_start - Timeout \in Int
          /\ cached_pages[u].time_start - Timeout <= now
      BY <1>2, <3>1
    <3> QED BY <2>1, <3>1, <3>2 DEF IInv, PagesAreGenuine
  <2> QED BY <1>2, <1>3, <2>1 DEF PagesAreGenuine, Present
<1>6. Forgotten' /\ NoStoreForgets'
  BY <1>2 DEF IInv, Forgotten, NoStoreForgets, Present
<1>7. CASE last = NoAnswer
  <2>1. StalenessBounded' /\ RevalidationIsCurrent' /\ Answers'
    BY <1>2, <1>7 DEF StalenessBounded, RevalidationIsCurrent, Answers
  <2> QED BY <1>1, <1>4, <1>5, <1>6, <2>1 DEF IInv
<1>8. CASE last # NoAnswer
  <2>1. /\ last.uri \in Uris /\ last.at \in Nat /\ last.began \in Nat /\ last.hdrs.max_age \in Int
        /\ last.at <= now /\ last.began <= last.at
    BY <1>1, <1>8 DEF TypeOK, Answer, Directives, IInv, Answers
  <2>2. last.began \in Int /\ last.began <= now
    BY <1>2, <2>1
  <2>3. RevalidationIsCurrent'
    BY <1>2, <1>3, <2>1, <2>2 DEF IInv, RevalidationIsCurrent
  <2>4. StalenessBounded'
    <3> DEFINE t == last.at - last.hdrs.max_age - Timeout
    <3>1. t \in Int /\ (last.hdrs.max_age > 0 => t <= now)
      BY <1>2, <2>1
    <3>2. ASSUME last.src = "cache", last.hdrs.max_age > 0, last.hdrs.min_fresh = 0
          PROVE  CurrentAfter(last.uri, last.version, t)'
      <4>1. CurrentAfter(last.uri, last.version, t)
        BY <1>8, <3>2 DEF IInv, StalenessBounded
      <4>2. t' = t
        BY <1>2
      <4> HIDE DEF t
      <4> QED BY <1>2, <1>3, <2>1, <3>1, <3>2, <4>1, <4>2
    <3> QED BY <1>2, <3>2 DEF StalenessBounded
  <2>5. Answers'
    BY <1>2 DEF IInv, Answers
  <2> QED BY <1>1, <1>4, <1>5, <1>6, <2>3, <2>4, <2>5 DEF IInv
<1> QED BY <1>7, <1>8

-----------------------------------------------------------------------------

LEMMA StutterIInv ==
  ASSUME IInv, UNCHANGED <<now, since, cached_pages, call, last>>, TypeOK'
  PROVE  IInv'
  BY SameUpstream DEF IInv, History, Transfer, Answers, PagesAreGenuine, Present,
     StalenessBounded, RevalidationIsCurrent, Forgotten, NoStoreForgets

LEMMA NextIInv == IInv /\ [Next]_vars => IInv'
<1> SUFFICES ASSUME IInv, [Next]_vars PROVE IInv'
  OBVIOUS
<1>1. TypeOK'
  BY NextType DEF IInv
<1>2. ASSUME NEW u \in Uris, NEW h \in Headers, UseCache(u, h) \/ NoCache(u, h) \/ StartFetch(u, h)
      PROVE  IInv'
  BY <1>2, UseCacheIInv, NoCacheIInv, StartFetchIInv
<1>3. ASSUME NEW h \in Headers, HandleRequestThrows(h) PROVE IInv'
  BY <1>1, <1>3, StutterIInv DEF HandleRequestThrows
<1>4. ASSUME NEW version \in 1..MaxVersion, NEW code \in {200, 404}, FetchDone(version, code)
      PROVE  IInv'
  <2>1. version \in Nat /\ code \in Nat
    BY BoundsAssumption
  <2> QED BY <1>4, <2>1, FetchDoneIInv
<1>5. CASE FetchFails \/ FetchTimesOut
  BY <1>5, FetchFailsIInv
<1>6. CASE Tick
  BY <1>6, TickIInv
<1>7. ASSUME NEW u \in Uris, Publish(u) PROVE IInv'
  BY <1>7, PublishIInv
<1>8. CASE UNCHANGED vars
  BY <1>1, <1>8, StutterIInv DEF vars
<1> QED BY <1>2, <1>3, <1>4, <1>5, <1>6, <1>7, <1>8 DEF Next

LEMMA CacheInvariant == Spec => []IInv
  BY InitIInv, NextIInv, PTL DEF Spec

\* The state of the proxy keeps its types.
THEOREM CacheTyped == Spec => []TypeOK
<1>1. IInv => TypeOK
  BY DEF IInv
<1> QED BY <1>1, CacheInvariant, PTL

\* Whatever the upstream publishes during a transfer, a page in the cache is a
\* successful answer that was current within a timeout of its time stamp.
THEOREM CachedPagesAreGenuine == Spec => []PagesAreGenuine
<1>1. IInv => PagesAreGenuine
  BY DEF IInv
<1> QED BY <1>1, CacheInvariant, PTL

\* A positive max-age bounds how long ago the content that is served from the
\* cache was replaced upstream.
THEOREM MaxAgeBoundsStaleness == Spec => []StalenessBounded
<1>1. IInv => StalenessBounded
  BY DEF IInv
<1> QED BY <1>1, CacheInvariant, PTL

\* A client that sends no-cache is never answered with content that was replaced
\* before its request arrived.
THEOREM NoCacheIsCurrent == Spec => []RevalidationIsCurrent
<1>1. IInv => RevalidationIsCurrent
  BY DEF IInv
<1> QED BY <1>1, CacheInvariant, PTL

\* After a no-store request of a URI no page of it that is older than the request
\* is in the cache, as long as its answer is the last one.
THEOREM NoStoreIsForgotten == Spec => []NoStoreForgets
<1>1. IInv => NoStoreForgets
  BY DEF IInv
<1> QED BY <1>1, CacheInvariant, PTL
=============================================================================
