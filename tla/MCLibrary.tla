------------------------------- MODULE MCLibrary -------------------------------
(***************************************************************************)
(* The parts of libwebsockets that take bytes apart, one of which is       *)
(* chosen in the initial state: WsReceive, with bytes of two values and    *)
(* lengths up to five, HttpClient, Deflate, HeaderParser, Forms and Json.  *)
(* The last four share their variables.                                    *)
(***************************************************************************)
EXTENDS HttpClient, WsReceive

VARIABLES
    part,
    subject,            \* what is sent, asked, posted or parsed
    input,              \* what of it has not been read
    parser,
    got,                \* what the user got of it
    next, tx, pings, checkPing      \* of Deflate

UpTo(S, n) == UNION {[1..k -> S] : k \in 0..n}

-----------------------------------------------------------------------------
(* WsReceive *)

Of(op, len, fin) == [op |-> op, len |-> len, fin |-> fin, zero |-> FALSE, bad |-> FALSE]
BadClose(len)    == [Of("close", len, TRUE) EXCEPT !.bad = TRUE]

MCScripts ==
    {[role |-> r, closes |-> FALSE, frames |-> s] : r \in {"server", "client"}, s \in {
        <<Of("text", 1, TRUE), Of("binary", 3, TRUE)>>,
        <<Of("binary", 5, TRUE), [Of("text", 3, TRUE) EXCEPT !.zero = TRUE]>>,
        <<Of("binary", 1, FALSE), Of("ping", 1, TRUE), Of("cont", 2, TRUE)>>,
        <<Of("ping", 1, TRUE), Of("text", 0, TRUE), Of("text", 1, TRUE),
          Of("ping", 1, TRUE), Of("binary", 1, TRUE)>>,
        <<Of("ping", 1, TRUE), Of("close", 2, TRUE), Of("text", 1, TRUE)>>,
        <<Of("pong", 0, TRUE), Of("text", 1, FALSE), Of("text", 1, TRUE)>>,
        <<Of("text", 1, TRUE), Of("ping", 4, TRUE)>>,
        <<Of("ping", 1, TRUE), BadClose(2)>>}}
    \cup {[role |-> "server", closes |-> TRUE,
           frames |-> <<Of("text", 2, TRUE), Of("close", 0, TRUE)>>]}

-----------------------------------------------------------------------------
(* Deflate: fragments that leave the window, the held trailer and the two    *)
(* buffers empty, part full and exactly full; receivers whose parser spills  *)
(* a frame at once, and piece by piece.                                      *)

DeflateScripts ==
    {[receiver |-> r[1], rxBuffer |-> r[2], fresh |-> f, messages |-> <<first, second>>] :
        r \in {"client", "server"} \X {3, 30}, f \in BOOLEAN,
        second \in {<<3>>, <<1, 0>>, <<8>>},
        first \in {<<1>>, <<3>>, <<4>>, <<7>>, <<8>>, <<10>>, <<14>>, <<16>>, <<1, 0>>,
                   <<3, 0>>, <<8, 0>>, <<7, 2>>, <<1, 1>>, <<8, 3>>, <<9, 9>>, <<1, 1, 1>>}}

D == INSTANCE Deflate WITH
        Ratio <- 2, TxRoom <- 8, RxRoom <- 4, Scripts <- DeflateScripts, MaxPings <- 1,
        script <- subject, wire <- input, rx <- parser, delivered <- got

-----------------------------------------------------------------------------
(* HttpClient: WebSocket and HTTP, and bodies of every sizing.               *)

Body(n) == [i \in 1..n |-> CASE i % 4 = 0 -> 16 [] i % 4 = 1 -> 17 [] OTHER -> i % 4]

Call == [doWs |-> FALSE, proxy |-> FALSE, posts |-> FALSE, status |-> 200, http11 |-> TRUE,
         headers |-> "good", sizing |-> "none", data |-> <<>>, chunks |-> <<>>]

Hex(n) == <<n \div 16, n % 16>>
Chunks(m, n) ==
    <<[digits |-> Hex(m), end |-> m], [digits |-> Hex(n), end |-> m + n],
      [digits |-> <<0>>, end |-> m + n]>>

MCCalls ==
    {[Call EXCEPT !.doWs = d, !.proxy = p, !.posts = b, !.status = s, !.http11 = v,
                  !.headers = h] :
        d \in BOOLEAN, p \in BOOLEAN, b \in BOOLEAN, s \in {200, 101, 302}, v \in BOOLEAN,
        h \in {"good", "noUpgrade", "badExtension", "ssl"}}
    \cup {[Call EXCEPT !.http11 = v, !.sizing = "length", !.data = Body(n)] :
            v \in BOOLEAN, n \in {0, 1, 5, 6}}
    \cup {[Call EXCEPT !.data = Body(n)] : n \in {0, 1, 3}}
    \cup {[Call EXCEPT !.http11 = v, !.sizing = "chunked", !.chunks = Chunks(c[1], c[2]),
                       !.data = Body(c[1] + c[2])] :
            v \in BOOLEAN, c \in {<<1, 2>>, <<3, 3>>, <<17, 1>>, <<4, 5>>}}

-----------------------------------------------------------------------------
(* HeaderParser: every path of slashes, dots and a letter; encoded ones; what *)
(* is special in arguments, or ends a line, in a path; arguments; and header *)
(* lines in every order.                                                     *)

Asks(path, hasArgs, args, headers) ==
    [path |-> path, hasArgs |-> hasArgs, args |-> args, headers |-> headers]
Line(name, value) == [name |-> name, value |-> <<value>>]

MCRequests ==
    {Asks(<<"/">> \o p, FALSE, <<>>, <<>>) : p \in UpTo({"/", ".", "a"}, 7)}
    \cup {Asks(<<"/", "a", "/">> \o FlattenSeq(p) \o <<"b">>, TRUE, <<"a", "/", ".", ".">>, <<>>) :
            p \in UpTo({<<"%", "2", "e">>, <<"%", "2", "f">>, <<"%", "3", "f">>, <<"/">>,
                        <<".">>, <<"%", "2">>, <<"%", "2", "%">>}, 3)}
    \cup {Asks(<<"/">> \o FlattenSeq(p), h, <<"a">>, <<Line("host", "a")>>) :
            h \in BOOLEAN,
            p \in UpTo({<<"a">>, <<"/">>, <<".">>, <<"&">>, <<";">>, <<"+">>, <<"=">>,
                        <<"%", "2", "6">>, <<"%", "3", "b">>, <<"%", "2", "b">>, <<"%", "2", "0">>,
                        <<"%", "0", "d">>, <<"%", "0", "0">>}, 3)}
    \cup {Asks(<<"/">>, TRUE, FlattenSeq(p), <<>>) :
            p \in UpTo({<<"&">>, <<"=">>, <<"+">>, <<"a">>, <<"?">>, <<"%", "2", "6">>,
                        <<"%", "3", "d">>}, 4)}
    \cup {Asks(<<"/">>, TRUE, <<"a">> \o FlattenSeq(p), <<>>) :
            p \in UpTo({<<"a">>, <<";">>, <<"%", "0", "d">>, <<"%", "0", "0">>}, 2)}
    \cup {Asks(<<"/">>, FALSE, <<>>, l) :
            l \in UpTo({Line("host", "a"), Line("cookie", "a"), Line("cookie", "b"),
                        Line("what", "c"), Line("get", "a")}, 4)}

P == INSTANCE HeaderParser WITH
        Requests <- MCRequests, TableSize <- 14, MaxFrags <- 8,
        request <- subject, hdr <- parser

-----------------------------------------------------------------------------
(* Forms: storages from too short to ample, and files that begin like a      *)
(* boundary.                                                                 *)

Value(name, value) == [name |-> name, file |-> "none", value |-> value]
File(name, file, value) == [name |-> name, file |-> file, value |-> value]

Tricky == UpTo({"cr", "lf", "-"}, 4) \cup {v \o <<"x">> : v \in UpTo({"cr", "lf", "-"}, 4)}

MCBodies ==
    {[multipart |-> FALSE, storage |-> n, parts |-> <<Value("a", v), Value("u", w), Value("b", x)>>] :
        n \in {3, 4, 5, 6, 8}, v \in UpTo({"x", "&", " "}, 2), w \in {<<>>, <<"x", "y", "+">>},
        x \in {<<>>, <<"x", "y">>}}
    \cup {[multipart |-> TRUE, storage |-> n, parts |->
            <<Value("a", <<"x">>), File("f", "F", v), File("g", "G", <<"x", "y">>)>>] :
            n \in {8, 12}, v \in Tricky}
    \cup {[multipart |-> TRUE, storage |-> 40, parts |->
            <<File("f", "F", <<"x">>), Value("a", v), Value("b", <<"y">>)>>] : v \in Tricky}

F == INSTANCE Forms WITH
        Bodies <- MCBodies, Params <- {"a", "b"},
        posted <- subject, body <- input, s <- parser

-----------------------------------------------------------------------------
(* Json: documents that nest objects and arrays in each other up to the      *)
(* limits and beyond, strings of every kind, refusals at every callback,     *)
(* and what may be in memory before the stack.                              *)

Leaf(kind, chars) == [kind |-> kind, name |-> <<>>, text |-> chars, items |-> <<>>]
Holds(kind, items) == [kind |-> kind, name |-> <<>>, text |-> <<>>, items |-> items]
Named(name, tree) == [tree EXCEPT !.name = <<name>>]

Nr   == Leaf("number", <<"1", "0">>)
Str  == Leaf("string", <<"x", " ", "#", "y">>)
Obj(members)  == Holds("object", members)
Arr(elements) == Holds("array", elements)

Leaves == {Nr, Leaf("number", <<"1", "e", "-", "2">>), Str}
    \cup {Leaf("word", w) : w \in {<<"t", "r", "u", "e">>, <<"f", "a", "l", "s", "e">>,
                                   <<"n", "u", "l", "l">>}}
    \cup {Leaf("string", c) : c \in {<<>>, <<"x", "y", "z">>, <<"\\", "n", "\\", "quote">>,
            <<"\\", "u", "0", "0", "4", "1">>, <<"\\", "u", "0", "0", "e", "9", "x">>,
            <<"\\", "u", "4", "0", "2", "7">>, <<"\\", "u", "e", "0", "2", "7">>}}

\* Trees of two levels, and members and elements of every kind beside each other
Low  == {Nr, Str}
Mid  == Low \cup {Obj(<<Named("b", Nr)>>), Arr(<<Nr, Str>>)}
High == {Obj(<<Named("a", v), Named("b", w)>>) : v \in Mid, w \in Mid}
        \cup {Arr(<<v, w>>) : v \in Mid, w \in Mid}
Deep == {Arr(<<Arr(<<Arr(<<Nr>>)>>)>>), Obj(<<Named("a", Obj(<<Named("b", Obj(<<Named("a", Nr)>>))>>))>>)}

Doc == [tree |-> Obj(<<Named("a", Nr)>>), malformed |-> <<>>, blank |-> <<>>, after |-> <<>>,
        changes |-> FALSE, refuses |-> [at |-> 0, with |-> 0], beneath |-> [p |-> 0, i |-> 0]]
Mixed == Obj(<<Named("b", Arr(<<Str, Obj(<<Named("a", Nr)>>), Nr>>)), Named("a", Obj(<<Named("b", Str)>>))>>)

Spoiled == {
    <<"[">>, <<"{", "}">>, <<"{", "a">>, <<"{", "quote", "a", "quote", "1">>}
    \cup {<<"{", "quote", "a", "quote", ":">> \o v : v \in {
        <<"-", "1", "}">>, <<"1", ".", "5", "}">>, <<"1", "e", "e", "}">>, <<"1", "e", "1", "e">>,
        <<"1", "e", "}">>, <<"1", ",", "}">>, <<"1", "]">>, <<"1", ":">>, <<"[", "]">>,
        <<"t", "r", "y">>, <<"t", "r", " ", "u", "e">>, <<"quote", "ctrl">>, <<"quote", "nl">>,
        <<"quote", "\\", "x">>, <<"quote", "\\", "u", "x">>, <<"1", "1", "1", "1", "1">>,
        <<"{", "quote", "b", "quote", ":", "1", "]">>}}

MCDocuments ==
    {[Doc EXCEPT !.tree = Obj(<<Named("a", v), Named("b", Nr)>>), !.blank = b, !.after = <<" ">>] :
        v \in Leaves, b \in {<<>>, <<" ">>, <<"#", "quote", "nl">>, <<"nl", "#", "#", "nl">>}}
    \cup {[Doc EXCEPT !.tree = Obj(<<Named("a", v), Named("c", Nr)>>)] : v \in High}
    \cup {[Doc EXCEPT !.tree = Obj(<<Named("a", v)>>)] : v \in Deep}
    \cup {[Doc EXCEPT !.tree = Mixed, !.changes = TRUE, !.beneath = [p |-> n, i |-> i]] :
            n \in {0, 2, 127, 255}, i \in {0, 1}}
    \cup {[Doc EXCEPT !.tree = Obj(<<Named("a", v), Named("b", Arr(<<Nr>>)), Named("c", Nr)>>),
                      !.beneath = [p |-> n, i |-> i]] : v \in Mid, n \in {1, 127}, i \in {0, 1}}
    \cup {[Doc EXCEPT !.tree = Mixed, !.refuses = [at |-> n, with |-> r]] :
            n \in 3..21, r \in {1, -1}}
    \cup {[Doc EXCEPT !.malformed = m] : m \in Spoiled}

J == INSTANCE Json WITH
        Documents <- MCDocuments,
        Paths <- <<<<"a", ".", "b">>, <<"a", "[", "]">>, <<"*", ".", "a">>, <<"c">>, <<"a", ".", "*">>, <<"*">>>>,
        Depth <- 5, IndexDepth <- 2, Chunk <- 4, WildRoom <- 3,
        document <- subject, text <- input, ctx <- parser

-----------------------------------------------------------------------------

ofDeflate == <<next, tx, pings, checkPing>>
others    == <<subject, input, parser, got, ofDeflate>>

\* No client is called, nothing is received, nothing else is taken apart.
NoCall    == call = Call /\ wsi = NewWsi /\ arriving = <<>> /\ delivered = <<>>
NoScript  == script = [role |-> "server", closes |-> FALSE, frames |-> <<>>] /\ AtStart
NoDeflate == next = "" /\ tx = "" /\ pings = "" /\ checkPing = ""
NoOther   == subject = "" /\ input = "" /\ parser = "" /\ got = "" /\ NoDeflate

MCInit ==
    \/ part = "client"  /\ Init /\ NoScript /\ NoOther
    \/ part = "receive" /\ WsInit /\ NoCall /\ NoOther
    \/ /\ NoCall /\ NoScript
       /\ \/ part = "deflate" /\ D!Init
          \/ part = "headers" /\ P!Init /\ NoDeflate /\ got = ""
          \/ part = "forms"   /\ F!Init /\ NoDeflate
          \/ part = "json"    /\ J!Init /\ NoDeflate /\ got = ""

MCNext ==
    /\ UNCHANGED part
    /\ \/ part = "client"  /\ Next /\ UNCHANGED <<wsVars, others>>
       \/ part = "receive" /\ WsNext /\ UNCHANGED <<vars, others>>
       \/ /\ UNCHANGED <<vars, wsVars>>
          /\ \/ part = "deflate" /\ D!Next
             \/ part = "headers" /\ P!Next /\ UNCHANGED <<ofDeflate, got>>
             \/ part = "forms"   /\ F!Next /\ UNCHANGED ofDeflate
             \/ part = "json"    /\ J!Next /\ UNCHANGED <<ofDeflate, got>>

MCSpec == MCInit /\ [][MCNext]_<<part, vars, wsVars, others>> /\ WsFairness

-----------------------------------------------------------------------------
(* The properties of the parts, beside those of HttpClient and WsReceive *)

RoundTrip       == part = "deflate" => D!RoundTrip
HeadersRead     == part = "headers" => P!HeadersRead
FormsRead       == part = "forms"   => F!FormsRead
JsonRead        == part = "json"    => J!JsonRead
AnyCut          == part = "forms"   => F!AnyCut
=============================================================================
