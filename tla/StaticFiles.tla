----------------------------- MODULE StaticFiles -----------------------------
(***************************************************************************)
(* class StaticFileHandler (src/src/static_file_handler.cc): which file a  *)
(* request is for, and what is answered.                                   *)
(*                                                                         *)
(* A path is the sequence of its names: "/a/f" is <<"a", "f">>, "" is <<>>, *)
(* and a path that ends in "/" ends in the name "".  A file's path is its  *)
(* root's text followed by names.                                          *)
(***************************************************************************)
EXTENDS ConfigParser

CONSTANTS
    FromSlash,    \* the words with a slash in them: the part from there on
    SegmentsOf,   \* the words that are paths: their names
    KindsOf,      \* which patterns of configParser "/name" begins with
    Disk          \* what there is under the working directory: "file" or "dir"

\* A text that lost some of its characters.
CUT == "cut"

ASSUME FilesAssumption ==
    /\ DOMAIN FromSlash \subseteq Words /\ DOMAIN SegmentsOf \subseteq Words
    /\ SegmentsOf \in [DOMAIN SegmentsOf -> Seq(STRING)]
    /\ \A v, w \in DOMAIN SegmentsOf : SegmentsOf[v] = SegmentsOf[w] => v = w
    /\ <<>> \in DOMAIN Disk /\ Disk[<<>>] = "dir"    \* the working directory itself

-----------------------------------------------------------------------------
(* Init                                                                    *)

\* Without its first and its last character: the quotes, if it has any.
Unquoted(value) ==
    IF Len(value) >= 2 /\ value[1] \in Punctuation /\ value[Len(value)] \in Punctuation
    THEN SubSeq(value, 2, Len(value) - 1) ELSE <<CUT>>

\* path.find("/") finds nothing, and substr throws.
HasNoRoot(content) == \A i \in DOMAIN content : content[i] \notin DOMAIN FromSlash

\* From the first slash on, without the last three characters: right for a
\* block of one statement that ends with a quote.  Without quotes the last
\* character of the path is lost, and of "/" nothing is left.
Root(content) ==
    LET pos  == First(content, 1, DOMAIN FromSlash)
        last == Len(content) - 2
    IN  IF last = pos /\ FromSlash[content[pos]] = "/" THEN <<>>
        ELSE IF content[last] \in Words THEN <<CUT>>
        ELSE <<FromSlash[content[pos]]>> \o SubSeq(content, pos + 1, last - 1)

\* The key that locationToRoot gets for a location.
LocationKey(location_path) ==
    LET inner == Unquoted(location_path)
    IN  IF inner = <<>> THEN <<>>
        ELSE IF Len(inner) = 1 /\ inner[1] \in DOMAIN SegmentsOf THEN SegmentsOf[inner[1]]
        ELSE <<CUT>>

-----------------------------------------------------------------------------
(* replace_path.  operator[] of the map adds an empty entry for every key  *)
(* it is asked for.                                                        *)

Directory(uri, n) == SubSeq(uri, 1, n)

RootAt(roots, dir) == IF dir \in DOMAIN roots THEN roots[dir] ELSE <<>>

Deepest(levels) ==
    IF levels = {} THEN -1 ELSE CHOOSE n \in levels : \A m \in levels : m <= n

\* How many names of the URI's directory belong to the location found; -1: none.
Match(roots, uri) ==
    Deepest({n \in 0..(Len(uri) - 1) : RootAt(roots, Directory(uri, n)) # <<>>})

\* (Faulty: the names between the location and the file are left out.)
replace_pathFlat(roots, uri) ==
    LET n == Match(roots, uri)
    IN  IF n = -1 THEN <<>> ELSE RootAt(roots, Directory(uri, n)) \o <<uri[Len(uri)]>>

replace_path(roots, uri) ==
    LET n == Match(roots, uri)
    IN  IF n = -1 THEN <<>>
        ELSE RootAt(roots, Directory(uri, n)) \o SubSeq(uri, n + 1, Len(uri))

\* The directories looked up, the deepest first.
Probed(roots, uri) ==
    LET n == Match(roots, uri)
    IN  {Directory(uri, k) : k \in (IF n = -1 THEN 0 ELSE n)..(Len(uri) - 1)}

\* (Faulty: the entries that operator[] adds get the root of their parent.)
AfterSearchCaching(roots, uri) ==
    [dir \in DOMAIN roots \cup Probed(roots, uri) |->
        IF RootAt(roots, dir) # <<>> \/ Match(roots, uri) = -1 THEN RootAt(roots, dir)
        ELSE RootAt(roots, Directory(uri, Match(roots, uri)))]

AfterSearch(roots, uri) ==
    [dir \in DOMAIN roots \cup Probed(roots, uri) |-> RootAt(roots, dir)]

-----------------------------------------------------------------------------
(* handleRequest                                                           *)

\* configParser: the first pattern that some part of the URI matches.
src_type(uri) ==
    LET matches(kind) == \E i \in 1..Len(uri) : kind \in KindsOf[uri[i]]
    IN  CASE uri[Len(uri)] = "" -> -1
          [] OTHER -> IF matches("ico") THEN 0
                      ELSE IF matches("txt") THEN 1
                      ELSE IF matches("png") THEN 2
                      ELSE IF matches("jpg") THEN 3
                      ELSE IF matches("letters") THEN 4 ELSE 0

NotFound == [code |-> 404, src_type |-> 0]
Thrown   == [code |-> 0, src_type |-> 0]

\* getBinaryContent: a directory has no size that a vector could have, or an
\* empty one, as the file system likes.
getBinaryContent(path, type) ==
    IF path \notin DOMAIN Disk THEN {NotFound}
    ELSE {[code |-> 200, src_type |-> type]} \cup (IF Disk[path] = "dir" THEN {Thrown} ELSE {})

\* formResponse: the index page, or the lines of a text; a directory has none.
formResponse(type, path) ==
    IF type = 0 \/ path \in DOMAIN Disk THEN {[code |-> 200, src_type |-> type]} ELSE {NotFound}

\* The answers that handleRequest may give.
handleRequest(roots, uri) ==
    LET type == src_type(uri)
        path == replace_path(roots, uri)
    IN  CASE type = -1 -> {NotFound}
          [] type \in 2..4 -> getBinaryContent(path, type)
          [] OTHER -> IF path = <<>> THEN {NotFound} ELSE formResponse(type, path)

\* replace_path is called unless the URI is a directory's.
Searches(uri) == src_type(uri) # -1
=============================================================================
