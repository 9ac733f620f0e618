----------------------------- MODULE MCStartup -----------------------------
(***************************************************************************)
(* Small config files: every sequence of up to three locations of six, on  *)
(* two ports; every text of a few lexemes behind a port; and texts that    *)
(* setConfigBlocks takes in other ways than they were meant.               *)
(***************************************************************************)
EXTENDS Startup

CONSTANTS MaxLocations, MaxPieces     \* bounds

MCFromSlash  == [w \in {"./r", "./q", "/a", "/a/b", "/e", "/p", "/"} |->
                    CASE w = "./r" -> "/r" [] w = "./q" -> "/q" [] OTHER -> w]
MCSegmentsOf == [w \in {"/a", "/a/b", "/e", "/p", "/"} |->
                    CASE w = "/a" -> <<"a">> [] w = "/a/b" -> <<"a", "b">> [] w = "/e" -> <<"e">>
                      [] w = "/p" -> <<"p">> [] w = "/" -> <<"">>]
MCNumberOf   == [w \in {"0", "80", "40000", "65536", "9999999999"} |->
                    CASE w = "0" -> 0 [] w = "80" -> 80 [] w = "40000" -> 40000
                      [] w = "65536" -> 65536 [] w = "9999999999" -> IntMax + 1]

MCWords == {"port", "location", "root", "proxy_pass", "x", "host:1", "Other"}
               \cup HandlerTypes \cup DOMAIN MCFromSlash \cup DOMAIN MCNumberOf

MCKindsOf == [name \in {"a", "b", "c", "d.txt", "e.png", "f.jpg", "i.ico", "1", ""} |->
                CASE name = "d.txt" -> {"txt", "letters"} [] name = "e.png" -> {"png", "letters"}
                  [] name = "f.jpg" -> {"jpg", "letters"} [] name = "i.ico" -> {"ico", "letters"}
                  [] name \in {"1", ""} -> {} [] OTHER -> {"letters"}]

MCDisk == [path \in {<<>>, <<"/r", "d.txt">>, <<"/r", "c">>, <<"/q", "e.png">>} |->
              IF path \in {<<>>, <<"/r", "c">>} THEN "dir" ELSE "file"]

MCUris == {<<"a", "d.txt">>, <<"a", "b", "e.png">>, <<"a", "b">>, <<"a", "c">>,
           <<"a", "1">>, <<"a", "">>, <<"a", "c", "f.jpg">>}

-----------------------------------------------------------------------------

L(prefix, type, arg) == [prefix |-> prefix, type |-> type, arg |-> arg]

MCLocations == {L("/a", "StaticHandler", "./r"), L("/a/b", "StaticHandler", "./q"),
                L("/e", "EchoHandler", "x"), L("/p", "ProxyHandler", "host:1"),
                L("/a", "ErrorHandler", "x"), L("/", "ErrorHandler", "x")}

UpTo(S, n) == UNION {[1..m -> S] : m \in 0..n}

\* A static location for all paths
MCRootLayouts == [port : {"80"}, locations : {<<L("/", "StaticHandler", "./q")>>}]

MCLayouts == [port : {"80", "40000"}, locations : UpTo(MCLocations, MaxLocations)]

\* No static one of theirs ends in a slash, as the theorem about roots asks.
ASSUME RootsCanBeFound == Layouts = MCLayouts => NoTrailingSlash

-----------------------------------------------------------------------------

Port == <<"port", SP, "80", SC, NL>>

\* Word, semicolon, braces, comment, a quote: in any order
Pieces == {<<"x", SP>>, <<SC>>, <<LB>>, <<RB>>, <<HASH, RB, NL>>, <<DQ>>}

Concat(pieces) ==
    LET upto[i \in 0..Len(pieces)] == IF i = 0 THEN <<>> ELSE upto[i - 1] \o pieces[i]
    IN  upto[Len(pieces)]

Texts == {Port \o Concat(p) : p \in UpTo(Pieces, MaxPieces)}

\* ports that are refused, or too large for an int; a comment for a port
BadPorts == {<<"port", SP, p, SC>> : p \in {"0", "65536", "9999999999", "x"}}
                \cup {<<>>, <<"port", SP, HASH, "x", NL, "80", SC>>, <<"port">>}

Loc(type) == <<"location", SP, DQ, "/a", DQ, SP, type, SP>>

\* headers without a block, without an end or without a type, an unknown type, a
\* root without quotes, of a slash alone or without one, nested blocks, another block first
Odd == {Port \o t : t \in
           {Loc("EchoHandler"), Loc("StaticHandler"), Loc("StaticHandler") \o <<LB, RB>>,
            Loc("Other") \o <<LB, "x", SC, RB>>, Loc("x") \o <<SC, "x", SC>>,
            Loc("StaticHandler") \o <<LB, "root", SP, "./r", SC, RB>>,
            Loc("StaticHandler") \o <<LB, "root", SP, "/", SC, RB>>,
            Loc("StaticHandler") \o <<LB, "root", SP, "x", SC, RB>>,
            Loc("ProxyHandler") \o <<LB, "x", SC, RB>>,
            <<"location", SP, "/a", SP, LB, "root", SP, "/a", SC, RB>>,
            <<"x", LB, "x", SC, RB>> \o Loc("StaticHandler") \o <<LB, "root", SP, "./r", SC, RB>>,
            <<"x", LB, "x", SC, RB>> \o Loc("StaticHandler")
                \o <<LB, "root", SP, DQ, "./r", DQ, SC, RB>>,
            Loc("EchoHandler") \o <<LB, "x", LB, "x", SC, RB, RB>>,
            <<"location", SP, "x">>}}

MCOtherFiles == Texts \cup BadPorts \cup Odd
=============================================================================
