----------------------------- MODULE ProxyCache -----------------------------
(***************************************************************************)
(* class ProxyHandler with its static cache, and class cached_page         *)
(* (src/src/proxy_handler.cc, src/src/cached_page.cc).                     *)
(*                                                                         *)
(* handleRequest runs in a handler thread for which the io thread waits, so*)
(* one call is in progress at a time; but it lasts as long as the transfer *)
(* from the upstream, and meanwhile the clock runs and the upstream may    *)
(* change its content.  The content of a URI is its version number.  The   *)
(* status records are counted in module Session.                           *)
(***************************************************************************)
EXTENDS Integers, Sequences

CONSTANTS
    Uris,         \* request URIs, the keys of the cache
    Headers,      \* Cache-Control headers a client may send
    OneMin,       \* one_min, the age a page is given by default
    Timeout,      \* CURLOPT_TIMEOUT
    MaxTime,      \* bound: the clock of a run
    MaxVersion,   \* bound: versions of a URI's content
    NoPage,       \* no entry in the cache
    NoCall,       \* no handleRequest in progress
    NoAnswer      \* no answer yet

\* The value after = in max-age, max-stale and min-fresh: none given, a number,
\* something whose last character is no digit, or something std::stoi throws at.
Given == [kind : {"none", "number", "word", "broken"}, n : Int]

Header == [max_age : Given, max_stale : Given, min_fresh : Given,
           no_cache : BOOLEAN, no_store : BOOLEAN, only_if_cached : BOOLEAN]

\* What parse_cache_hdrs makes of it.
Directives == [max_age : Int, max_stale : Int, min_fresh : Int,
               no_cache : BOOLEAN, no_store : BOOLEAN, only_if_cached : BOOLEAN]

Page == [version : Nat, code : Nat, time_start : Nat]

Call == [uri : Uris, hdrs : Directives, store : BOOLEAN, began : Nat, oldest : Nat]

Answer == [src : {"cache", "upstream", "error", "none"}, uri : Uris, hdrs : Directives,
           at : Nat, began : Nat, code : Nat, version : Nat, age : Int]

ASSUME HeadersAssumption == Headers \subseteq Header
ASSUME TimesAssumption == OneMin \in Nat /\ Timeout \in Nat
ASSUME BoundsAssumption == MaxTime \in Nat /\ MaxVersion \in Nat
ASSUME NothingAssumption == NoPage \notin Page /\ NoCall \notin Call /\ NoAnswer \notin Answer

VARIABLES
    up,            \* FALSE once an exception has left the handler thread
    now,           \* time(0)
    since,         \* upstream: for each URI, when each version became current
    cached_pages,  \* ProxyHandler::cached_pages
    call,          \* the handleRequest whose transfer is going on
    last           \* history: the last answer

vars == <<up, now, since, cached_pages, call, last>>

Current(u) == Len(since[u])

-----------------------------------------------------------------------------
(* parse_cache_hdrs: a directive that is absent counts as 0, so does the   *)
(* number 0; what is no number counts as -1.                               *)

ValueOf(given) == CASE given.kind = "number" -> given.n
                    [] given.kind = "word" -> -1
                    [] OTHER -> 0

parse_cache_hdrs(h) ==
    [max_age |-> ValueOf(h.max_age), max_stale |-> ValueOf(h.max_stale),
     min_fresh |-> ValueOf(h.min_fresh), no_cache |-> h.no_cache,
     no_store |-> h.no_store, only_if_cached |-> h.only_if_cached]

Throws(h) == "broken" \in {h.max_age.kind, h.max_stale.kind, h.min_fresh.kind}

-----------------------------------------------------------------------------
(* class cached_page                                                       *)

\* (Faulty: the default minute is granted on top of max-age.)
isExpiredLate(page, max) == now - page.time_start > max + OneMin

isExpired(page, max)       == now - page.time_start > max
isFresh(page, min_fresh)   == now > page.time_start + min_fresh
couldStale(page, max_stale) == (now - page.time_start) - OneMin < max_stale

(* cache_control                                                           *)

Present(u) == cached_pages[u] # NoPage

\* The decision on a page that is there; a later directive overrules.
WithinAge(page, d) ==
    IF d.max_age # 0 /\ d.max_stale # 0
    THEN d.max_age <= d.max_stale /\ couldStale(page, d.max_stale) /\ ~isExpired(page, d.max_age)
    ELSE IF d.max_age # 0 THEN ~isExpired(page, d.max_age)
    ELSE IF d.max_stale # 0 THEN couldStale(page, d.max_stale)
    ELSE TRUE

Acceptable(page, d) ==
    /\ IF d.min_fresh # 0 THEN isFresh(page, d.min_fresh) ELSE WithinAge(page, d)
    /\ ~d.no_store

\* (Faulty: no-cache is not looked at.)
can_useAnyway(u, d) == Present(u) /\ Acceptable(cached_pages[u], d)

\* (Faulty: a page that can be used no more is left where it is.)
erasesNever(u, d) == FALSE

can_use(u, d)      == ~d.no_cache /\ Present(u) /\ Acceptable(cached_pages[u], d)
cache_only(u, d)   == ~d.no_cache /\ ~Present(u) /\ d.only_if_cached
erases(u, d)       == ~d.no_cache /\ Present(u) /\ d.no_store
should_cache(u, d) == (~d.no_cache /\ Present(u)) \/ ~d.no_store

-----------------------------------------------------------------------------

Init ==
    /\ up = TRUE
    /\ now = 0
    /\ since = [u \in Uris |-> <<0>>]
    /\ cached_pages = [u \in Uris |-> NoPage]
    /\ call = NoCall
    /\ last = NoAnswer

\* A new call; the bound leaves time for its transfer.
Called == up /\ call = NoCall /\ now + Timeout <= MaxTime

\* std::stoi throws, the exception leaves the thread: std::terminate.
HandleRequestThrows(h) ==
    /\ Called /\ Throws(h)
    /\ up' = FALSE
    /\ UNCHANGED <<now, since, cached_pages, call, last>>

\* use_cache
UseCache(u, h) ==
    /\ Called /\ ~Throws(h)
    /\ LET d == parse_cache_hdrs(h)
       IN  /\ can_use(u, d)
           /\ last' = [src |-> "cache", uri |-> u, hdrs |-> d, at |-> now, began |-> now,
                       code |-> 200, version |-> cached_pages[u].version,
                       age |-> now - cached_pages[u].time_start]
    /\ UNCHANGED <<up, now, since, cached_pages, call>>

\* no_cache
NoCache(u, h) ==
    /\ Called /\ ~Throws(h)
    /\ LET d == parse_cache_hdrs(h)
       IN  /\ ~can_use(u, d) /\ cache_only(u, d)
           /\ last' = [src |-> "none", uri |-> u, hdrs |-> d, at |-> now, began |-> now,
                       code |-> 504, version |-> 0, age |-> 0]
    /\ UNCHANGED <<up, now, since, cached_pages, call>>

\* handleRequest up to curl_easy_perform
StartFetch(u, h) ==
    /\ Called /\ ~Throws(h)
    /\ LET d == parse_cache_hdrs(h)
       IN  /\ ~can_use(u, d) /\ ~cache_only(u, d)
           /\ cached_pages' = IF erases(u, d) THEN [cached_pages EXCEPT ![u] = NoPage]
                                              ELSE cached_pages
           /\ call' = [uri |-> u, hdrs |-> d, store |-> should_cache(u, d),
                       began |-> now, oldest |-> Current(u)]
    /\ UNCHANGED <<up, now, since, last>>

\* (Faulty: the stamp goes back to where the transfer may have begun.)
NewPageBackdated(version, code) ==
    [version |-> version, code |-> code, time_start |-> now - Timeout]

\* The constructor of cached_page takes the time at which the answer is complete.
NewPage(version, code) == [version |-> version, code |-> code, time_start |-> now]

\* (Faulty: an error page is kept too.)
KeepsAny(code) == call.store

\* Only a successful answer to a call that allows it is kept.
Keeps(code) == call.store /\ code = 200

\* store_cache: map::insert does not replace an entry.
store_cache(u, page) ==
    IF Present(u) THEN cached_pages ELSE [cached_pages EXCEPT ![u] = page]

Answered(src, version, code) ==
    /\ last' = [src |-> src, uri |-> call.uri, hdrs |-> call.hdrs, at |-> now,
                began |-> call.began, code |-> code, version |-> version, age |-> 0]
    /\ call' = NoCall

\* The transfer succeeds: the upstream has answered with what was its content
\* at some moment since the call began, or with an error code of its own.
FetchDone(version, code) ==
    /\ up /\ call # NoCall
    /\ version \in call.oldest..Current(call.uri)
    /\ cached_pages' =
          IF Keeps(code) THEN store_cache(call.uri, NewPage(version, code)) ELSE cached_pages
    /\ Answered("upstream", version, code)
    /\ UNCHANGED <<up, now, since>>

\* The transfer fails: refused, reset, cut short.
FetchFails ==
    /\ up /\ call # NoCall
    /\ Answered("error", 0, 500)
    /\ UNCHANGED <<up, now, since, cached_pages>>

\* (Faulty: CURLOPT_TIMEOUT is not set.)
FetchWaitsForEver == FALSE /\ UNCHANGED vars

\* libcurl gives up after CURLOPT_TIMEOUT.
FetchTimesOut ==
    /\ up /\ call # NoCall /\ now = call.began + Timeout
    /\ Answered("error", 0, 500)
    /\ UNCHANGED <<up, now, since, cached_pages>>

-----------------------------------------------------------------------------
(* The environment                                                         *)

\* A transfer never lasts longer than the timeout.
Tick ==
    /\ up /\ now < MaxTime
    /\ call # NoCall => now < call.began + Timeout
    /\ now' = now + 1
    /\ UNCHANGED <<up, since, cached_pages, call, last>>

Publish(u) ==
    /\ up /\ Current(u) < MaxVersion
    /\ since' = [since EXCEPT ![u] = Append(@, now)]
    /\ UNCHANGED <<up, now, cached_pages, call, last>>

Next ==
    \/ \E u \in Uris, h \in Headers : UseCache(u, h) \/ NoCache(u, h) \/ StartFetch(u, h)
    \/ \E h \in Headers : HandleRequestThrows(h)
    \/ \E version \in 1..MaxVersion, code \in {200, 404} : FetchDone(version, code)
    \/ FetchFails
    \/ FetchTimesOut
    \/ Tick
    \/ \E u \in Uris : Publish(u)

Spec == Init /\ [][Next]_vars

\* The clock runs and libcurl keeps its timeout; nothing is assumed of the
\* upstream, which may never answer.
FairSpec == Spec /\ WF_vars(Tick) /\ WF_vars(FetchTimesOut)

-----------------------------------------------------------------------------
(* Properties                                                              *)

\* Every variable keeps its type through handleRequest: pages, the call in
\* progress and the last answer are whole, and no time is negative.
TypeOK ==
    /\ up \in BOOLEAN
    /\ now \in Nat
    /\ since \in [Uris -> Seq(Nat)]
    /\ cached_pages \in [Uris -> Page \cup {NoPage}]
    /\ call \in Call \cup {NoCall}
    /\ last \in Answer \cup {NoAnswer}

\* Version v of u was current at time t or later.
CurrentAfter(u, v, t) ==
    /\ v \in 1..Current(u)
    /\ v < Current(u) => since[u][v + 1] >= t

\* Version v of u had become current by time t.
PublishedBy(u, v, t) == v \in 1..Current(u) /\ since[u][v] <= t

\* A cached page is a successful answer, and its content was the upstream's at
\* some moment of the transfer that ended at time_start, although the upstream
\* may publish between request and answer and the page is stamped afterwards.
PagesAreGenuine ==
    \A u \in Uris : Present(u) =>
        LET page == cached_pages[u]
        IN  /\ page.code = 200
            /\ page.time_start <= now
            /\ PublishedBy(u, page.version, page.time_start)
            /\ CurrentAfter(u, page.version, page.time_start - Timeout)

\* A client that sets a positive max-age (and no min-fresh, which overrules it)
\* never gets content out of the cache that the upstream had replaced longer ago
\* than max-age and one transfer.
StalenessBounded ==
    last # NoAnswer /\ last.src = "cache" /\ last.hdrs.max_age > 0 /\ last.hdrs.min_fresh = 0 =>
        CurrentAfter(last.uri, last.version, last.at - last.hdrs.max_age - Timeout)

\* A client that sends no-cache gets what was the upstream's content at some
\* moment after its request arrived, or an error: never an older page.
RevalidationIsCurrent ==
    last # NoAnswer /\ last.hdrs.no_cache =>
        /\ last.src \in {"upstream", "error"}
        /\ last.src = "upstream" => CurrentAfter(last.uri, last.version, last.began)

\* no-store makes the server forget: once such a request is answered, by the
\* upstream or by an error, no page from before it is left to be served to others,
\* although the answer may have been stored again, map::insert never replaces a
\* page, and other answers of the same URI came before.  (With no-cache as well
\* the cache is not looked at.)
NoStoreForgets ==
    last # NoAnswer /\ last.hdrs.no_store /\ ~last.hdrs.no_cache =>
        (Present(last.uri) => cached_pages[last.uri].time_start >= last.began)

\* Every call ends, even if the upstream never answers.
CallEnds == (call # NoCall) ~> (call = NoCall)

\* Without directives of the client a page is not used beyond the minute that
\* it is given by default.
DefaultExpiry ==
    last # NoAnswer /\ last.src = "cache"
        /\ last.hdrs.max_age = 0 /\ last.hdrs.max_stale = 0 /\ last.hdrs.min_fresh = 0 =>
        last.age <= OneMin
=============================================================================
