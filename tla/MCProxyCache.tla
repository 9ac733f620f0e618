---------------------------- MODULE MCProxyCache ----------------------------
(* Small instances of ProxyCache: the headers clients send.                *)
EXTENDS ProxyCache

None      == [kind |-> "none", n |-> 0]
Number(n) == [kind |-> "number", n |-> n]
Word      == [kind |-> "word", n |-> 0]
Broken    == [kind |-> "broken", n |-> 0]

Plain == [max_age |-> None, max_stale |-> None, min_fresh |-> None,
          no_cache |-> FALSE, no_store |-> FALSE, only_if_cached |-> FALSE]

MCHeaders ==
    {Plain,
     [Plain EXCEPT !.max_age = Number(0)],
     [Plain EXCEPT !.max_age = Number(1)],
     [Plain EXCEPT !.max_age = Number(2), !.max_stale = Number(3)],
     [Plain EXCEPT !.max_stale = Word],
     [Plain EXCEPT !.max_age = Number(1), !.min_fresh = Number(1)],
     [Plain EXCEPT !.max_age = Broken],
     [Plain EXCEPT !.no_cache = TRUE],
     [Plain EXCEPT !.no_store = TRUE],
     [Plain EXCEPT !.no_cache = TRUE, !.no_store = TRUE],
     [Plain EXCEPT !.only_if_cached = TRUE, !.max_age = Number(1)]}
=============================================================================
