----------------------------- MODULE HeaderParser -----------------------------
(***************************************************************************)
(* lws_parse (parsers.c) reads the request of a client byte by byte, as    *)
(* the server does for every connection: the URI, which it decodes and     *)
(* normalises on the way into the header table, its arguments, one         *)
(* fragment each, and the header lines, a fragment per line.               *)
(*                                                                         *)
(* A byte is a string of one character or its name ("cr", "nul").  The     *)
(* name of a method or a header, which lextable_decode recognises with a   *)
(* table that is generated, is one byte here, and so is the end of the     *)
(* headers.  The server sets no token limits, and the limit of a token is  *)
(* then that of the table.                                                 *)
(***************************************************************************)
EXTENDS Naturals, Sequences, SequencesExt, FiniteSets

CONSTANTS
    Requests,   \* [path, hasArgs, args, headers]: what clients send
    TableSize,  \* max_http_header_data
    MaxFrags    \* ARRAY_SIZE(ah->frags) - 1: the first is not used

VARIABLES
    request,    \* the request
    input,      \* its bytes that were not parsed yet
    hdr         \* wsi->u.hdr and its header table

vars == <<request, input, hdr>>

Methods == {"get", "post"}
Known == Methods \cup {"http", "host", "cookie", "origin", "sworigin", "end"}

Bytes(r) ==
    <<"get", " ">> \o r.path \o (IF r.hasArgs THEN <<"?">> \o r.args ELSE <<>>)
    \o <<" ", "1", "cr", "lf">>
    \o FlattenSeq([i \in DOMAIN r.headers |->
            <<r.headers[i].name, " ">> \o r.headers[i].value \o <<"cr", "lf">>])
    \o <<"end">>

\* char_to_hex for two digits
HexDigits == {"0", "2", "3", "5", "6", "a", "b", "d", "e", "f"}
Char(h1, h2) ==
    CASE h1 = "2" /\ h2 = "e" -> "."  [] h1 = "2" /\ h2 = "f" -> "/"
      [] h1 = "2" /\ h2 = "6" -> "&"  [] h1 = "3" /\ h2 = "d" -> "="
      [] h1 = "3" /\ h2 = "f" -> "?"  [] h1 = "2" /\ h2 = "5" -> "%"
      [] h1 = "3" /\ h2 = "b" -> ";"  [] h1 = "2" /\ h2 = "b" -> "+"
      [] h1 = "2" /\ h2 = "0" -> " "  [] h1 = "0" /\ h2 = "d" -> "cr"
      [] h1 = "0" /\ h2 = "0" -> "nul" [] OTHER -> "other"

NewHdr == [state |-> "NAME_PART", ups |-> "IDLE", ues |-> "IDLE", stash |-> "",
           equal |-> FALSE, used |-> 0, frags |-> <<>>,
           index |-> [t \in Known \cup {"args"} |-> 0]]

Init == request \in Requests /\ input = Bytes(request) /\ hdr = NewHdr

Refuse(h) == [h EXCEPT !.state = "refused"]
Refused(h) == h.state = "refused"

-----------------------------------------------------------------------------
(* The table *)

\* A fragment: the bytes stored since its offset, how many of them count, and
\* the fragment that follows.
NewFragment == [data |-> <<>>, len |-> 0, next |-> 0]
Current(h)  == Last(h.frags)

\* lws_pos_in_bounds, and a byte in the table
Store(h, c, counts) ==
    IF Refused(h) \/ h.used >= TableSize THEN Refuse(h)
    ELSE [h EXCEPT !.used = @ + 1, !.frags[Len(h.frags)].data = Append(@, c),
                   !.frags[Len(h.frags)].len = IF counts THEN @ + 1 ELSE @]

\* issue_char: a NUL does not count.
Issue(h, c) == Store(h, c, c # "nul")

\* The next fragment; none may be left.
Fragment(h) ==
    IF Refused(h) \/ Len(h.frags) = MaxFrags THEN Refuse(h)
    ELSE [h EXCEPT !.frags = Append(@, NewFragment)]

Chain(h, token) ==      \* the fragments of a token
    LET from[n \in 0..Len(h.frags)] ==
            IF n = 0 THEN <<>> ELSE <<n>> \o from[h.frags[n].next]
    IN  from[h.index[token]]

LinkToFirst(h, token) ==        \* the third line takes the place of the second
    LET f == Fragment(h)
        n == Len(f.frags)
        chain == Chain(h, token)
    IN  IF Refused(f) THEN f
        ELSE IF chain = <<>> THEN [f EXCEPT !.index[token] = n, !.state = token]
        ELSE Issue([f EXCEPT !.frags[Head(chain)].next = n, !.state = token], " ")

\* start_fragment: the first of its token, or linked to the last one.
StartFragment(h, token) ==
    LET f == Fragment(h)
        n == Len(f.frags)
        chain == Chain(h, token)
    IN  IF Refused(f) THEN f
        ELSE IF chain = <<>> THEN [f EXCEPT !.index[token] = n, !.state = token]
        ELSE Issue([f EXCEPT !.frags[Last(chain)].next = n, !.state = token], " ")

-----------------------------------------------------------------------------
(* The URI *)

\* Back up one directory level: the last slash and what is before it, down to
\* the next, which goes too unless it is the first character.
BackUp(h) ==
    LET data == Current(h).data
        len  == Current(h).len
        ends == {k \in 2..len - 1 : k = len - 1 \/ data[Len(data) - k + 1] = "/"}
        back == IF len > 2 THEN CHOOSE k \in ends : \A j \in ends : k <= j ELSE 0
    IN  [h EXCEPT !.frags[Len(h.frags)].data = SubSeq(@, 1, Len(@) - back),
                  !.frags[Len(h.frags)].len = @ - back, !.used = @ - back]

\* check_eol: the end of a line, or a byte of the token
Collect(h, c) ==
    IF c # "cr" THEN Issue(h, c)
    ELSE IF h.ues # "IDLE" THEN Refuse(h)
    ELSE [Issue(h, "nul") EXCEPT !.state = IF @ = "refused" THEN @ ELSE "SAW_CR"]

\* A question mark begins the arguments.
StartArgs(h) ==
    IF h.ues # "IDLE" THEN Refuse(h)
    ELSE LET f == Fragment(Issue(h, "nul"))
         IN  [f EXCEPT !.index["args"] = Len(f.frags), !.equal = FALSE, !.ups = "IDLE"]

UriByte(h, c, enc) ==
    IF c = "?" /\ ~enc /\ h.index["args"] = 0 THEN StartArgs(h) ELSE Collect(h, c)

\* URIPS_IDLE: a terminator is stored but does not count, and what follows is
\* another fragment, in the path as in the arguments.
Plain(h, c, enc) ==
    LET f == Fragment([Store(h, c, FALSE) EXCEPT !.frags[Len(h.frags)].next = Len(h.frags) + 1,
                                                 !.equal = FALSE])
        d == IF c = "=" /\ enc /\ h.index["args"] # 0 /\ ~h.equal THEN "_"
             ELSE IF c = "+" /\ ~enc THEN " " ELSE c
    IN  IF c = "nul" THEN Refuse(h)
        ELSE IF c \in {"&", ";"} /\ ~enc THEN f
        ELSE UriByte([h EXCEPT !.equal = @ \/ (c = "=" /\ ~enc),
                               !.ups = IF c = "/" /\ h.index["args"] = 0 THEN "SLASH" ELSE @],
                     d, enc)

\* Runs of slashes, /./ and /../ become one slash, however they are encoded.
Sanitised(h, c, enc) ==
    LET idle == [h EXCEPT !.ups = "IDLE"]
        up   == [BackUp(h) EXCEPT !.ups = "SLASH"]
    IN  CASE h.ups = "IDLE" -> Plain(h, c, enc)
          [] h.ups = "SLASH" /\ c = "/" -> h
          [] h.ups = "SLASH" /\ c = "." -> [h EXCEPT !.ups = "SLASH_DOT"]
          [] h.ups = "SLASH" -> UriByte(idle, c, enc)
          [] h.ups = "SLASH_DOT" /\ c = "." -> [h EXCEPT !.ups = "SLASH_DOT_DOT"]
          [] h.ups = "SLASH_DOT" /\ c = "/" -> [h EXCEPT !.ups = "SLASH"]
          [] h.ups = "SLASH_DOT" -> UriByte(Issue(idle, "."), c, enc)
          [] c \in {"/", "?"} ->
                IF Current(up).len > 1 THEN UriByte(up, c, enc) ELSE up
          [] OTHER -> UriByte(Issue(Issue(idle, "."), "."), c, enc)

\* A space ends the URI, and the version begins.
EndUri(h) ==
    LET slash == IF Current(h).len = 0 THEN Issue(h, "/") ELSE h
    IN  StartFragment(Issue(IF h.ups = "SLASH_DOT_DOT" THEN BackUp(slash) ELSE slash, "nul"),
                      "http")

Uri(h, c) ==
    CASE c = " " -> EndUri(h)
      [] h.ues = "IDLE" /\ c = "%" -> [h EXCEPT !.ues = "PERCENT"]
      [] h.ues = "IDLE" -> Sanitised(h, c, FALSE)
      [] c \notin HexDigits -> Refuse(h)
      [] h.ues = "PERCENT" -> [h EXCEPT !.ues = "PERCENT_H1", !.stash = c]
      [] OTHER -> Sanitised([h EXCEPT !.ues = "IDLE"], Char(h.stash, c), TRUE)

-----------------------------------------------------------------------------
(* The header lines *)

\* WSI_TOKEN_NAME_PART: the server drops an unknown method, and a second one,
\* and skips an unknown header.
NamePart(h, name) ==
    LET method == \E m \in Methods : h.index[m] # 0
    IN  CASE name \notin Known -> IF method THEN [h EXCEPT !.state = "SKIPPING"] ELSE Refuse(h)
          [] name \in Methods /\ h.index[name] # 0 -> Refuse(h)
          [] name = "end" -> IF h.ues # "IDLE" THEN Refuse(h)
                             ELSE [h EXCEPT !.state = "COMPLETE"]
          [] OTHER -> StartFragment(h, IF name = "sworigin" THEN "origin" ELSE name)

\* Spaces before the first byte are swallowed, as long as the first fragment of
\* the token is empty.
Token(h, c) ==
    IF c = " " /\ h.frags[h.index[h.state]].len = 0 THEN h
    ELSE IF h.state \in Methods THEN Uri(h, c) ELSE Collect(h, c)

Skipping(h, c) == IF c = "cr" THEN [h EXCEPT !.state = "SAW_CR"] ELSE h

SawCr(h, c) ==
    IF h.ues # "IDLE" THEN Refuse(h)
    ELSE [h EXCEPT !.state = IF c = "lf" THEN "NAME_PART" ELSE "SKIPPING"]

\* lws_parse
Parse ==
    /\ input # <<>> /\ hdr.state \notin {"refused", "COMPLETE"}
    /\ hdr' = CASE hdr.state = "NAME_PART" -> NamePart(hdr, Head(input))
                [] hdr.state = "SKIPPING"  -> Skipping(hdr, Head(input))
                [] hdr.state = "SAW_CR"    -> SawCr(hdr, Head(input))
                [] OTHER                   -> Token(hdr, Head(input))
    /\ input' = Tail(input) /\ UNCHANGED request

Next == Parse

Spec == Init /\ [][Next]_vars

-----------------------------------------------------------------------------
(* What the program asks of the table *)

Counted(fragment) == SubSeq(fragment.data, 1, fragment.len)

\* lws_hdr_copy_fragment, for each fragment
Fragments(token) == [i \in DOMAIN Chain(hdr, token) |-> Counted(hdr.frags[Chain(hdr, token)[i]])]

\* lws_hdr_copy
HdrCopy(token) == FlattenSeq(Fragments(token))

-----------------------------------------------------------------------------
(* Properties *)

\* The reference: the characters of a path or of an argument, and if they were
\* encoded; the parts between separators; the path without its empty and dot
\* segments; an argument.
Decode(s) ==
    LET at[i \in 1..Len(s) + 1] ==
            IF i > Len(s) THEN <<>>
            ELSE IF s[i] # "%" THEN <<<<s[i], FALSE>>>> \o at[i + 1]
            ELSE IF i + 2 <= Len(s) /\ s[i + 1] \in HexDigits /\ s[i + 2] \in HexDigits
                 THEN <<<<Char(s[i + 1], s[i + 2]), TRUE>>>> \o at[i + 3]
                 ELSE <<<<"illegal", FALSE>>>>
    IN  at[1]

Legal(s) == \A i \in DOMAIN Decode(s) : Decode(s)[i][1] # "illegal"

Split(s, separators) ==
    FoldLeft(LAMBDA parts, c : IF c \in separators THEN Append(parts, <<>>)
                               ELSE Append(Front(parts), Append(Last(parts), c)),
             <<<<>>>>, s)

Chars(s) == [i \in DOMAIN s |-> s[i][1]]

Normalised(path) ==
    LET segments == Split(Chars(Decode(path)), {"/"})
        kept == FoldLeft(LAMBDA stack, seg :
                    IF seg \in {<<>>, <<".">>} THEN stack
                    ELSE IF seg = <<".", ".">>
                         THEN IF stack = <<>> THEN stack ELSE Front(stack)
                    ELSE Append(stack, seg), <<>>, segments)
        trailing == Last(segments) \in {<<>>, <<".">>} \/ kept = <<>>
    IN  FlattenSeq([i \in DOMAIN kept |-> <<"/">> \o kept[i]])
        \o (IF trailing THEN <<"/">> ELSE <<>>)

Argument(arg) ==
    [i \in DOMAIN arg |->
        IF arg[i] = <<"=", TRUE>> /\ \A j \in 1..i - 1 : arg[j] # <<"=", FALSE>> THEN "_"
        ELSE IF arg[i] = <<"+", FALSE>> THEN " " ELSE arg[i][1]]

Arguments(args) ==
    LET parts == Split(Decode(args), {<<"&", FALSE>>, <<";", FALSE>>})
    IN  [i \in DOMAIN parts |-> Argument(parts[i])]

Lines(name) ==
    LET these == SelectSeq(request.headers, LAMBDA l : l.name = name)
    IN  [i \in DOMAIN these |-> these[i].value]

Stripped(s) == SelectSeq(s, LAMBDA c : c # " ")

\* A dot segment that ends at a question mark, which it swallows or stays in front
\* of (parsers.c:705): see QueryIsArguments.
DotsBeforeMark ==
    LET uri == Chars(Decode(request.path)) \o (IF request.hasArgs THEN <<"?">> ELSE <<>>)
    IN  \E i \in DOMAIN uri :
            \E dots \in {<<"/", ".", "?">>, <<"/", ".", ".", "?">>} :
                IsSuffix(dots, SubSeq(uri, 1, i))

\* The path holds none of what the parser treats as it does the arguments: a
\* separator is dropped (parsers.c:641), a plus becomes a blank (:669).
PlainPath ==
    \A c \in ToSet(Decode(request.path)) : c \notin {"&", ";", "+"} \X {FALSE}

\* An encoded CR ends the line, as one that is not encoded does (parsers.c:762);
\* an encoded NUL drops the request (:638), or stands where it does not count.
EndsEarly(s) == \E c \in ToSet(Decode(s)) : c[1] \in {"cr", "nul"}
EncodedEnd   == EndsEarly(request.path) \/ (request.hasArgs /\ EndsEarly(request.args))

PathRead     == HdrCopy("get") = Normalised(request.path)
ArgumentsRead ==
    /\ ~request.hasArgs => Fragments("args") = <<>>
    /\ request.hasArgs /\ Last(Arguments(request.args)) # <<>> =>
          Fragments("args") = Arguments(request.args)

\* The path of a request that is not PlainPath, or has an EncodedEnd, is that of
\* the request as well (parsers.c:627).  It is false for each of them.
PathIsAsked == hdr.state = "COMPLETE" /\ ~DotsBeforeMark => PathRead

\* The path of a request that has none of the above is its path: runs of slashes,
\* dots and their encodings lead where they should (parsers.c:627).  Whatever
\* the path is, an argument is not split or joined by an encoded separator,
\* unless there is an encoded end of line; and the lines of a header keep their
\* order.  A request is refused only if it is illegal, has an encoded end or
\* does not fit.  An empty last argument is read as a slash (parsers.c:565) and
\* left aside.
HeadersRead ==
    /\ hdr.state = "COMPLETE" =>
        /\ ~DotsBeforeMark /\ PlainPath /\ ~EncodedEnd => PathRead
        /\ ~DotsBeforeMark /\ ~EncodedEnd => ArgumentsRead
        /\ \A name \in {"host", "cookie"} :
             [i \in DOMAIN Fragments(name) |-> Stripped(Fragments(name)[i])] = Lines(name)
    /\ Refused(hdr) => \/ ~Legal(request.path) \/ ~Legal(request.args) \/ EncodedEnd
                       \/ \E i \in DOMAIN request.headers : request.headers[i].name = "get"
                       \/ hdr.used >= TableSize \/ Len(hdr.frags) = MaxFrags

\* "/../ or /..[End of URI] --> backup to last /" (parsers.c:705): what follows
\* the question mark are the arguments, whatever the path before it is.
QueryIsArguments ==
    hdr.state = "COMPLETE" /\ request.hasArgs /\ Last(Arguments(request.args)) # <<>> =>
        Fragments("args") = Arguments(request.args)
=============================================================================
