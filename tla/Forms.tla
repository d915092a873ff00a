--------------------------------- MODULE Forms ---------------------------------
(***************************************************************************)
(* The forms a client posts: lws_spa_process (server.c) takes the body as  *)
(* it comes, urlencoded or multipart, and puts the value of each parameter *)
(* into one storage, which it fills from the front, and each file into the *)
(* user's callback, as much at a time as the rest of the storage holds.    *)
(*                                                                         *)
(* A byte is a string of one character or its name ("cr", "lf"); a byte of *)
(* a buffer that was not written is "stale".  The names of headers, of     *)
(* their arguments and of parameters are one byte each, the blank after    *)
(* them included.  The multipart parser counts what it has matched in mp   *)
(* and compares the room with it in every state; here it is not 0 only     *)
(* while a boundary is matched, which is where something is written: what  *)
(* is left of the storage is taken to be longer than a boundary.  A write  *)
(* past the storage may do anything, and the form is not followed further. *)
(***************************************************************************)
EXTENDS Naturals, Sequences, SequencesExt, FiniteSets

CONSTANTS
    Bodies,     \* what is posted: [multipart, parts, storage], and of a part
                \* [name, file, value], where file is "none" for a parameter
    Params      \* param_names: what the user asks for

VARIABLES
    posted,     \* the form
    body,       \* its bytes that did not arrive yet
    s,          \* the parser, and its end of the storage
    got         \* param_names with their values, and the calls of opt_cb

vars == <<posted, body, s, got>>

-----------------------------------------------------------------------------
(* What a browser posts *)

Boundary == <<"cr", "lf", "-", "-", "B">>

UrlEncode(c) ==
    CASE c = " " -> <<"+">>  [] c = "&" -> <<"%", "2", "6">>  [] c = "+" -> <<"%", "2", "b">>
      [] OTHER -> <<c>>

UrlEncoded(parts) ==
    FlattenSeq([i \in DOMAIN parts |->
        (IF i = 1 THEN <<>> ELSE <<"&">>) \o <<parts[i].name, "=">>
        \o FlattenSeq([j \in DOMAIN parts[i].value |-> UrlEncode(parts[i].value[j])])])

Quoted(c) == <<"\"", c, "\"">>

Multipart(parts) ==
    Tail(Tail(FlattenSeq([i \in DOMAIN parts |->
        Boundary \o <<"cr", "lf", "disposition", "form-data", ";", " ", "name", "=">>
        \o Quoted(parts[i].name)
        \o (IF parts[i].file = "none" THEN <<>>
            ELSE <<";", " ", "filename", "=">> \o Quoted(parts[i].file)
                 \o <<"cr", "lf", "type", "x">>)
        \o <<"cr", "lf", "cr", "lf">> \o parts[i].value])
    \o Boundary \o <<"-", "-", "cr", "lf">>))

\* char_to_hex for two digits
HexDigits == {"0", "2", "6", "b"}
Char(h1, h2) == CASE h1 = "2" /\ h2 = "6" -> "&"  [] h1 = "2" /\ h2 = "b" -> "+"
                  [] OTHER -> "other"

-----------------------------------------------------------------------------
(* The storage *)

\* lws_urldecode_s_create.  room is out_len, text what was written of it.
NewS(form) ==
    [state |-> IF form.multipart THEN "LOOK_BOUND_IN" ELSE "NAME", text |-> <<>>,
     room |-> form.storage, name |-> <<>>, file |-> <<>>, temp |-> <<>>, subname |-> FALSE,
     quote |-> FALSE, mp |-> IF form.multipart THEN 2 ELSE 0, realCrlf |-> FALSE,
     sum |-> "0", split |-> FALSE, refused |-> FALSE, overrun |-> FALSE]

\* lws_spa_create
Init ==
    /\ posted \in Bodies /\ s = NewS(posted) /\ got = [params |-> [p \in Params |-> <<>>],
                                                       files |-> <<>>]
    /\ body = IF posted.multipart THEN Multipart(posted.parts) ELSE UrlEncoded(posted.parts)

\* What the callbacks change: the parser and what was got.
At(h, g) == [h |-> h, g |-> g]

\* lws_urldecode_spa_cb.  The end of the storage is that of its last byte.
Output(h, g, len, final) ==
    LET name == IF h.name = <<>> THEN "" ELSE Head(h.name)
        text == h.text \o [i \in 1..len |-> "stale"]
    IN  IF h.file # <<>>
        THEN At([h EXCEPT !.text = <<>>],
                [g EXCEPT !.files = Append(@, [name |-> name, file |-> h.file,
                                               data |-> text, final |-> final])])
        ELSE IF name \notin Params \/ Len(h.name) # 1 \/ text = <<>>
        THEN At([h EXCEPT !.text = <<>>], g)
        ELSE IF Len(text) >= h.room - 1 THEN At([h EXCEPT !.refused = TRUE], g)
        ELSE At([h EXCEPT !.text = <<>>, !.room = @ - (Len(text) + 1)],
                [g EXCEPT !.params[name] = Append(@, text)])

\* There is no room for another byte, and for the boundary if it is none.  What
\* is past that already, as a byte is where a value has left room for one, does
\* not make room, and writes on.
MakeRoom(h, g) ==
    IF Len(h.text) = h.room - h.mp - 1 THEN Output(h, g, 0, "content") ELSE At(h, g)

\* n bytes are written behind the text.
Overruns(h, n) == n > 0 /\ Len(h.text) + n > h.room
Write(h, bytes) == [h EXCEPT !.text = @ \o bytes, !.overrun = @ \/ Overruns(h, Len(bytes))]

Put(h, c) == Write(h, <<c>>)

-----------------------------------------------------------------------------
(* urlencoded *)

\* US_NAME: the name is written where the value will be counted.
Name(h, g, c) ==
    IF c \notin {"=", "&"}
    THEN At([h EXCEPT !.text = Append(@, "stale"), !.name = SubSeq(@, 1, Len(h.text)) \o <<c>>], g)
    ELSE LET named == [h EXCEPT !.name = SubSeq(@, 1, Len(h.text)), !.state = "IDLE"]
         IN  IF c = "=" THEN At([named EXCEPT !.text = <<>>], g)
             ELSE Output(named, g, 0, "final")

\* US_IDLE
Value(h, g, c) ==
    IF c = "&" THEN IF Overruns(h, 1) THEN At([h EXCEPT !.overrun = TRUE], g)
                    ELSE Output([h EXCEPT !.state = "NAME"], g, 0, "final")
    ELSE IF c = "%" THEN At([h EXCEPT !.state = "PC1"], g)
    ELSE At(Put(h, IF c = "+" THEN " " ELSE c), g)

\* US_PC1 and US_PC2
Percent(h, g, c) ==
    IF c \notin HexDigits THEN At([h EXCEPT !.refused = TRUE], g)
    ELSE IF h.state = "PC1" THEN At([h EXCEPT !.state = "PC2", !.sum = c], g)
    ELSE At([Put(h, Char(h.sum, c)) EXCEPT !.state = "IDLE"], g)

-----------------------------------------------------------------------------
(* multipart *)

\* The boundary was matched: the part before it is over.  There is no last call
\* for a file of which nothing is left to tell.
Found(h, g) ==
    LET o == IF h.text = <<>> THEN At(h, g) ELSE Output(h, g, 0, "final")
    IN  At([o.h EXCEPT !.mp = 0, !.state = "IGNORE1", !.name = <<>>, !.file = <<>>,
                       !.realCrlf = TRUE], o.g)

\* The byte is the first of a boundary, or not.
AsFirst(h, c) == IF c = Boundary[1] THEN [h EXCEPT !.mp = 1] ELSE Put(h, c)

ForgetMatched(h) == [h EXCEPT !.mp = 0]     \* what was no boundary is lost

\* What was taken for a boundary and is none; the first line end is not there.
GiveBack(h) ==
    LET n == IF h.realCrlf THEN 0 ELSE 2
        w == Write([h EXCEPT !.mp = 0], SubSeq(Boundary, n + 1, h.mp))
    IN  [w EXCEPT !.text = @ \o [i \in 1..n |-> "stale"]]

\* MT_LOOK_BOUND_IN
LookBoundIn(h, g, c) ==
    IF c # Boundary[h.mp + 1]
    THEN At(AsFirst(IF h.mp = 0 THEN h ELSE GiveBack(h), c), g)
    ELSE IF h.mp + 1 < Len(Boundary) THEN At([h EXCEPT !.mp = @ + 1], g)
    ELSE Found(h, g)

\* MT_HNAME.  The end of any line that is not known ends the headers.
HName(h, c) ==
    CASE c = "disposition" -> [h EXCEPT !.state = "DISP", !.temp = <<>>, !.subname = FALSE]
      [] c = "type" -> [h EXCEPT !.state = "TYPE", !.temp = <<>>, !.subname = FALSE]
      [] c = "lf" -> [h EXCEPT !.state = "LOOK_BOUND_IN"]
      [] OTHER -> h

\* MT_DISP: form-data; name="file"; filename="t.txt"
Disposition(h, g, c) ==
    CASE c = "cr" -> LET i == [h EXCEPT !.state = "IGNORE2"]
                     IN  IF h.file = <<>> THEN At(i, g) ELSE Output(i, g, 0, "open")
      [] c = ";" -> At([h EXCEPT !.subname = TRUE, !.temp = <<>>], g)
      [] c = "\"" -> At([h EXCEPT !.quote = ~@], g)
      [] h.subname /\ c = "=" -> At([h EXCEPT !.subname = FALSE], g)
      [] h.subname -> At([h EXCEPT !.temp = IF c # " " \/ h.quote THEN Append(@, c) ELSE @], g)
      [] h.temp = <<"name">> -> At([h EXCEPT !.name = Append(@, c)], g)
      [] h.temp = <<"filename">> -> At([h EXCEPT !.file = Append(@, c)], g)
      [] OTHER -> At(h, g)

\* MT_TYPE and MT_IGNORE1, MT_IGNORE2
Skip(h, c) ==
    CASE h.state # "IGNORE2" /\ c = "cr" -> [h EXCEPT !.state = "IGNORE2"]
      [] h.state = "IGNORE2" /\ c = "lf" -> [h EXCEPT !.state = "HNAME"]
      [] OTHER -> h

-----------------------------------------------------------------------------
(* lws_urldecode_s_process takes a byte, the first of a call or not: what it had
   of an escape is a local of the call. *)

StepIn(h, g, c) ==
    CASE h.state = "NAME" -> Name([h EXCEPT !.quote = FALSE], g, c)
      [] h.state = "IDLE" -> Value(h, g, c)
      [] h.state \in {"PC1", "PC2"} -> Percent(h, g, c)
      [] h.state = "LOOK_BOUND_IN" -> LookBoundIn(h, g, c)
      [] h.state = "HNAME" -> At(HName(h, c), g)
      [] h.state = "DISP" -> Disposition(h, g, c)
      [] OTHER -> At(Skip(h, c), g)

Process == \E newCall \in BOOLEAN :
    /\ body # <<>> /\ ~s.refused /\ ~s.overrun
    /\ LET h == IF ~newCall THEN s
                ELSE [s EXCEPT !.sum = "0", !.split = @ \/ s.state = "PC2"]
           room == MakeRoom(h, got)
           step == IF room.h.refused THEN room ELSE StepIn(room.h, room.g, Head(body))
       IN  s' = step.h /\ got' = step.g
    /\ body' = Tail(body) /\ UNCHANGED posted

\* lws_urldecode_s_destroy: the last urlencoded value; multipart has had it.
Finalize ==
    /\ body = <<>> /\ ~s.refused /\ ~s.overrun /\ s.state # "done"
    /\ LET o == IF s.state = "IDLE" THEN Output(s, got, 0, "final") ELSE At(s, got)
       IN  s' = [o.h EXCEPT !.state = "done"] /\ got' = o.g
    /\ UNCHANGED <<posted, body>>

Next == Process \/ Finalize

Spec == Init /\ [][Next]_vars

-----------------------------------------------------------------------------
(* Properties *)

Parts == posted.parts
Sent(p) == \E i \in DOMAIN Parts : Parts[i].name = p /\ Parts[i].file = "none"
                                   /\ Parts[i].value # <<>>
ValueOf(p) == (CHOOSE i \in DOMAIN Parts : Parts[i].name = p)

Of(calls, file) == SelectSeq(calls, LAMBDA f : f.file = <<file>>)
Data(calls) == FlattenSeq([i \in DOMAIN calls |-> calls[i].data])

\* The parts that are files, and the calls of opt_cb for one
Files == {i \in DOMAIN Parts : Parts[i].file # "none"}
CallsFor(i) == Of(got.files, Parts[i].file)

\* Bytes the values take, with their ends
Needed == FoldLeft(LAMBDA n, p : IF p.file = "none" THEN n + Len(p.value) + 1 ELSE n, 0, Parts)

\* However the body is cut and however little of the storage is left, a
\* parameter has the value that was sent, in one piece, and a file comes to the
\* user's callback complete and in order, after its opening and up to its last
\* call if there is one, also when it holds what looks like a boundary at first
\* (server.c:2288).  A form is refused, or the storage overrun, only if its
\* values do not fit.
Read ==
    /\ s.state = "done" /\ ~s.refused =>
        /\ \A p \in Params : got.params[p] = IF Sent(p) THEN <<Parts[ValueOf(p)].value>> ELSE <<>>
        /\ \A i \in Files : CallsFor(i) # <<>> /\ Data(CallsFor(i)) = Parts[i].value
    /\ \A i \in Files : \A j \in DOMAIN CallsFor(i) :
        /\ (CallsFor(i)[j].final = "open") <=> (j = 1)
        /\ CallsFor(i)[j].final = "final" => j = Len(CallsFor(i))
    /\ s.refused \/ s.overrun => Needed >= posted.storage - 2

\* "the last chunk (possibly zero length) of file content has arrived"
\* (libwebsockets.h:2825): a file is told to be over.  It is false of a file
\* whose last piece is empty (server.c:2298).
FilesEnd ==
    s.state = "done" => \A i \in Files : CallsFor(i) # <<>> /\ Last(CallsFor(i)).final = "final"

\* What does not fit the storage is refused, never written behind it.  It is
\* false where a value leaves one byte of room (server.c:2209).
NoOverrun == ~s.overrun

\* ... where no call ends within an escape.
FormsRead == ~s.split => Read

\* "Since it's stateful, it handles the incoming data needing more than one
\* POST_BODY callback" (libwebsockets.h:2815).
AnyCut == Read
=============================================================================
