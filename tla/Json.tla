--------------------------------- MODULE Json ---------------------------------
(***************************************************************************)
(* The streaming JSON parser of libwebsockets (lejp.c): a state machine    *)
(* that is fed one character at a time, calls the user back with what it   *)
(* recognises, and keeps the path of the names it is in.  The text comes   *)
(* in segments, each a call of lejp_parse; how it is cut is open.          *)
(*                                                                         *)
(* Characters are strings; a byte that a \u escape makes is its number.    *)
(* The line counter is left out, and so are upper case hexadecimal digits. *)
(***************************************************************************)
EXTENDS Integers, Sequences, SequencesExt, FiniteSets, FiniteSetsExt, TLC

CONSTANTS
    Documents,      \* what is parsed, see Text
    Paths,          \* the paths the user is interested in, in order
    Depth,          \* LEJP_MAX_DEPTH
    IndexDepth,     \* LEJP_MAX_INDEX_DEPTH
    Chunk,          \* LEJP_STRING_CHUNK
    WildRoom        \* the length given to lejp_get_wildcard

VARIABLES
    document,       \* the document, when the user's callback refuses, and what is
                    \* in memory before the stack (beneath)
    text,           \* what has not been parsed yet
    ctx             \* struct lejp_ctx, with the callbacks made (heard)

Quote  == "quote"
Blank  == {" ", "nl", "#"}
Digits == {"0", "1", "2", "3", "4", "5", "6", "7", "8", "9"}
Hex    == <<"0", "1", "2", "3", "4", "5", "6", "7", "8", "9", "a", "b", "c", "d", "e", "f">>
HexValue(c) == CHOOSE n \in 0..15 : Hex[n + 1] = c

EscChar == <<Quote, "\\", "/", "b", "f", "n", "r", "t">>
EscTran == <<Quote, "\\", "/", "8", "12", "10", "13", "9">>
Tokens  == <<"r", "u", "e", " ", "a", "l", "s", "e", " ", "u", "l", "l", " ">>

Continue == "continue"

\* The states in which blanks and comments count (LEJP_FLAG_WS_KEEP)
Keeps == {"string", "esc", "u1", "u2", "u3", "u4", "num_int", "num_exp", "tok"}

-----------------------------------------------------------------------------
(* The stack and the callbacks *)

sp(c)  == Len(c.st) - 1
Top(c) == Last(c.st)

\* st[sp - 1].  At the bottom it is not in the array: it is read from the pointer
\* before it, paths, whose bytes can be anything (of a 64-bit address, bits 40-47 for
\* p and 48-55 for i; of a 32-bit one, bits 8-15 and 16-23).  Nobody looks at s there.
Under(c) ==
    IF sp(c) = 0 THEN [s |-> "", p |-> document.beneath.p, i |-> document.beneath.i]
    ELSE c.st[sp(c)]

Enter(c, s) == [c EXCEPT !.st[Len(c.st)].s = s]
Pop(c) == [c EXCEPT !.st = Front(@)]

\* The part of the path a wildcard stands for, as far as its next dot and as far
\* as dest is long
lejp_get_wildcard(c, n) ==
    LET first == c.wild[n]
        stops == {k \in first..Len(c.path) : k > first /\ c.path[k] = "."}
        end   == IF stops = {} THEN Len(c.path) ELSE (CHOOSE k \in stops : \A m \in stops : k <= m) - 1
    IN  SubSeq(c.path, first, IF end - first + 1 < WildRoom THEN end ELSE first + WildRoom - 2)

Tell(c, reason) ==
    [c EXCEPT !.heard = Append(@,
        [reason |-> reason, path |-> c.path, index |-> c.i, match |-> c.match,
         wild |-> [n \in DOMAIN c.wild |-> lejp_get_wildcard(c, n)],
         buf |-> IF reason \in {"num_int", "str_chunk", "str_end"} THEN c.buf ELSE <<>>])]

Reject(c, why) == [Tell(c, "failed") EXCEPT !.ret = why]

\* What the callback returns: at one call of it, what the user chose
Returned(c) ==
    IF Len(c.heard) = document.refuses.at THEN document.refuses.with ELSE 0
Ask(c, reason, Go(_)) ==
    LET d == Tell(c, reason)
    IN  IF Returned(d) # 0 THEN Reject(d, "callback") ELSE Go(d)

-----------------------------------------------------------------------------
(* Paths *)

\* The text of a path against a pattern: a wildcard with something after it takes
\* what is before the next dot, one at the end all there is.
RECURSIVE Scan(_, _, _, _, _)
Scan(path, pattern, p, q, wild) ==
    IF p > Len(path) \/ q > Len(pattern)
    THEN [fits |-> p > Len(path) /\ q > Len(pattern), wild |-> wild]
    ELSE IF pattern[q] # "*"
    THEN IF path[p] = pattern[q] THEN Scan(path, pattern, p + 1, q + 1, wild)
         ELSE [fits |-> FALSE, wild |-> wild]
    ELSE LET dots == {k \in p..Len(path) : path[k] = "."}
             next == IF q = Len(pattern) \/ dots = {} THEN Len(path) + 1
                     ELSE CHOOSE k \in dots : \A m \in dots : k <= m
         IN  Scan(path, pattern, next, q + 1, Append(wild, p))

\* The first path that fits; while one matches no other is looked for.
lejp_check_path_match(c) ==
    LET found == {n \in DOMAIN Paths : Scan(c.path, Paths[n], 1, 1, <<>>).fits}
        best  == CHOOSE n \in found : \A m \in found : n <= m
    IN  IF c.match # 0 THEN c
        ELSE IF found = {} THEN [c EXCEPT !.wild = <<>>]
        ELSE [c EXCEPT !.match = best, !.matchLen = Len(c.path),
                       !.wild = Scan(c.path, Paths[best], 1, 1, <<>>).wild]

\* Back to the path of the level below; a match that was longer ends.  A length from
\* beneath the stack may be beyond the end of the path, which is then not cut.
Shrink(c) ==
    LET p == Under(c).p
    IN  [c EXCEPT !.path = SubSeq(@, 1, IF p < Len(@) THEN p ELSE Len(@)),
                  !.match = IF p <= c.matchLen THEN 0 ELSE @]

-----------------------------------------------------------------------------
(* What a character does in each state *)

\* add_stack_level
Push(c, s) ==
    LET path == IF c.path # <<>> /\ Top(c).s \notin {"comma_or_end", "array_end"}
                THEN Append(c.path, ".") ELSE c.path
        d == [c EXCEPT !.path = path,
                       !.st[Len(c.st)].p = Len(path), !.st[Len(c.st)].i = Len(c.i)]
    IN  IF Len(c.st) = Depth THEN Reject(d, "stack_overflow")
        ELSE [d EXCEPT !.st = Append(@, [s |-> s, p |-> 0, i |-> 0])]

\* emit_string_char: of a name to the path, of a value to the buffer
EmitStringChar(c, ch) ==
    IF Under(c).s = "delim" THEN [c EXCEPT !.path = Append(@, ch)]
    ELSE LET d == [c EXCEPT !.buf = Append(@, ch)]
         IN  IF Len(d.buf) = Chunk - 1
             THEN Ask(d, "str_chunk", LAMBDA e : [e EXCEPT !.buf = <<>>])
             ELSE d

\* append_npos
AppendNpos(c, ch) ==
    IF Len(c.buf) >= Chunk THEN Reject(c, "num_too_long")
    ELSE [c EXCEPT !.buf = Append(@, ch)]

Byte(n) == ToString(n)

InString(c, ch) ==
    CASE ch = Quote /\ Under(c).s # "delim" ->
            LET d == Tell(c, "str_end")
            IN  IF Returned(d) < 0 THEN Reject(d, "callback") ELSE Pop(d)
      [] ch = Quote  -> Pop(c)
      [] ch = "\\"   -> Enter(c, "esc")
      [] ch = "ctrl" \/ ch = "nl" -> Reject(c, "illegal_ctrl")
      [] OTHER       -> EmitStringChar(c, ch)

InEscape(c, ch) ==
    IF ch = "u" THEN [Enter(c, "u1") EXCEPT !.uni = 0]
    ELSE IF Contains(EscChar, ch)
    THEN EmitStringChar(Enter(c, "string"), EscTran[CHOOSE n \in 1..8 : EscChar[n] = ch])
    ELSE Reject(c, "illegal_esc")

\* A letter takes the place of the digits before it.
InHex(c, ch) ==
    LET u == IF ch \in Digits THEN c.uni * 16 + HexValue(ch) ELSE HexValue(ch)
        s == Top(c).s
        d == [Enter(c, CASE s = "u1" -> "u2" [] s = "u2" -> "u3" [] s = "u3" -> "u4"
                         [] s = "u4" -> "string") EXCEPT !.uni = u]
    IN  CASE ~Contains(Hex, ch) -> Reject(c, "illegal_hex")
          [] s = "u2" /\ u >= 8 -> EmitStringChar(d, Byte(224 + ((u \div 16) % 16)))
          [] s = "u3" /\ u >= 128 -> EmitStringChar(d, Byte(128 + ((u \div 4) % 64)))
          [] s = "u3" /\ u >= 8 /\ u < 128 -> EmitStringChar(d, Byte(192 + (u \div 4)))
          [] s = "u4" -> EmitStringChar(d, IF u >= 128 THEN Byte(128 + (u % 64)) ELSE Byte(u))
          [] OTHER -> d

AtName(c) ==
    LET d == lejp_check_path_match(Enter(c, "value"))
    IN  Ask(d, "pair_name", LAMBDA e : e)

StartObject(c) ==
    Ask(lejp_check_path_match(Enter(c, "comma_or_end")), "object_start",
        LAMBDA d : Push([d EXCEPT !.match = 0], "members"))

StartArray(c) ==
    Ask([Enter(c, "array_end") EXCEPT !.path = @ \o <<"[", "]">>], "array_start",
        LAMBDA d : LET e == [d EXCEPT !.i = Append(@, 0)]
                   IN  IF Len(e.i) > IndexDepth THEN Reject(e, "istack") ELSE Push(e, "value"))

StartString(c) ==
    Ask([Enter(c, "comma_or_end") EXCEPT !.buf = <<>>], "str_start",
        LAMBDA d : Push(d, "string"))

InToken(c, ch) ==
    LET d == [c EXCEPT !.uni = @ + 1]
        value == CASE d.uni = 3 -> "true" [] d.uni = 8 -> "false" [] d.uni = 12 -> "null"
    IN  IF ch # Tokens[c.uni + 1] THEN Reject(c, "tok_unknown")
        ELSE IF Tokens[d.uni + 1] # " " THEN d
        ELSE Ask(d, value, LAMBDA e : Enter(e, "comma_or_end"))

\* goto redo_character: the state that follows takes the character again.
RECURSIVE Take(_, _)

\* Numbers begin with a digit, so that no minus and no point gets this far.
InNumber(c, ch) ==
    CASE ch \in Digits /\ c.dcount < 10 ->
            LET d == [c EXCEPT !.dcount = @ + 1] IN AppendNpos(d, ch)
      [] ch = "."             -> Reject(c, "num_format")
      [] ch = "e" /\ c.exp    -> Reject(c, "num_format")
      [] ch = "e" /\ ~c.exp   -> AppendNpos([Enter(c, "num_exp") EXCEPT !.exp = TRUE], ch)
      [] OTHER -> Ask(c, "num_int", LAMBDA d : Take(Enter(d, "comma_or_end"), ch))

InExponent(c, ch) ==
    LET d == Enter(c, "num_int")
    IN  IF ch \in Digits THEN Take(d, ch)
        ELSE IF ch \in {"+", "-"} THEN AppendNpos(d, ch) ELSE Reject(d, "bad_exp")

AtValue(c, ch) ==
    CASE ch \in Digits -> Take([Enter(c, "num_int") EXCEPT
                                   !.buf = <<>>, !.dcount = 0, !.exp = FALSE], ch)
      [] ch = Quote -> StartString(c)
      [] ch = "{"   -> StartObject(c)
      [] ch = "["   -> StartArray(c)
      [] ch = "t"   -> [Enter(c, "tok") EXCEPT !.uni = 0]
      [] ch = "f"   -> [Enter(c, "tok") EXCEPT !.uni = 4]
      [] ch = "n"   -> [Enter(c, "tok") EXCEPT !.uni = 9]
      [] OTHER      -> Reject(c, "bad_value_start")

\* The next member of an object, or element of an array
AfterComma(c) ==
    LET d == IF sp(c) = 0 THEN [c EXCEPT !.path = <<>>, !.match = 0] ELSE Shrink(c)
    IN  IF Under(c).s = "array_end"
        THEN [Enter(d, "value") EXCEPT !.i = IF @ = <<>> THEN @ ELSE [@ EXCEPT ![Len(@)] = @ + 1]]
        ELSE Enter(d, "m_p")

\* Back at the level that an object or an array was opened in.  Indices from beneath
\* the stack that are no index of an array are those of nothing (Stale).
Stale == -2
LeaveKeepingIndex(c) == Shrink(Pop(c))    \* ipos is not put back
Leave(c) ==
    LET d == Shrink(Pop(c))
    IN  [d EXCEPT !.i = [n \in 1..Under(d).i |-> IF n <= Len(@) THEN @[n] ELSE Stale]]

EndArray(c) ==
    IF sp(c) = 0 THEN Reject(c, "c_or_e_underf")
    ELSE IF Under(c).s # "array_end" THEN Reject(Pop(c), "c_or_e_notarray")
    ELSE Tell(Enter(Leave(c), "comma_or_end"), "array_end")

\* At the bottom the whole is complete, and the rest of the text unused.
EndObject(c) ==
    IF sp(c) = 0
    THEN Ask(lejp_check_path_match(c), "object_end",
             LAMBDA d : [Tell(d, "complete") EXCEPT !.ret = "complete"])
    ELSE Ask(lejp_check_path_match(Leave(c)), "object_end", LAMBDA d : d)

AtEnd(c, ch) ==
    CASE ch = "," -> AfterComma(c)
      [] ch = "]" -> EndArray(c)
      [] ch = "}" -> EndObject(c)
      [] OTHER    -> Reject(c, "c_or_e_neither")

\* A character that blanks and comments do not swallow
Char(c, ch) ==
    CASE Top(c).s = "idle" ->
            IF ch = "{" THEN Ask(c, "object_start", LAMBDA d : Enter(d, "members"))
            ELSE Reject(c, "idle_no_brace")
      [] Top(c).s = "members" ->
            IF ch = "}" THEN Reject(Enter(c, "idle"), "members_no_close")
            ELSE Take(Enter(c, "m_p"), ch)
      [] Top(c).s = "m_p" ->
            IF ch = Quote THEN Push(Enter(c, "delim"), "string")
            ELSE Reject(c, "mp_no_open_quote")
      [] Top(c).s = "string"  -> InString(c, ch)
      [] Top(c).s = "esc"     -> InEscape(c, ch)
      [] Top(c).s \in {"u1", "u2", "u3", "u4"} -> InHex(c, ch)
      [] Top(c).s = "delim"   -> IF ch = ":" THEN AtName(c) ELSE Reject(c, "missing_colon")
      [] Top(c).s = "value"   -> AtValue(c, ch)
      [] Top(c).s = "num_int" -> InNumber(c, ch)
      [] Top(c).s = "num_exp" -> InExponent(c, ch)
      [] Top(c).s = "tok"     -> InToken(c, ch)
      [] Top(c).s = "comma_or_end" -> AtEnd(c, ch)

\* lejp_parse, for one character
Take(c, ch) ==
    LET keep == Top(c).s \in Keeps
        d == IF ch = "nl" THEN [c EXCEPT !.comment = FALSE] ELSE c
    IN  IF ch \in Blank /\ ~keep THEN [d EXCEPT !.comment = @ \/ ch = "#"]
        ELSE IF d.comment THEN d ELSE Char(d, ch)

-----------------------------------------------------------------------------
(* Parsing *)

lejp_construct ==
    [st |-> <<[s |-> "idle", p |-> 0, i |-> 0]>>, path |-> <<>>, i |-> <<>>,
     match |-> 0, matchLen |-> 0, wild |-> <<>>, buf |-> <<>>, uni |-> 0, dcount |-> 0,
     exp |-> FALSE, comment |-> FALSE, ret |-> Continue, called |-> FALSE, heard |-> <<>>]

\* lejp_parse is called (again) with the next segment.
Called(c) ==
    [(IF sp(c) = 0 /\ c.path = <<>> THEN Tell(c, "start") ELSE c) EXCEPT !.called = TRUE]

\* A document is a tree: an object, an array or a value, with its name if it is a
\* member of an object, the characters of a value, and the items of the others.
\* It is written with something blank, or a comment, after every token.
RECURSIVE Written(_)
Written(t) ==
    (IF t.name = <<>> THEN <<>> ELSE << <<Quote>> \o t.name \o <<Quote>>, <<":">> >>) \o
    LET between(k) == IF k = 1 THEN <<>> ELSE << <<",">> >>
        items == FlattenSeq([k \in DOMAIN t.items |-> between(k) \o Written(t.items[k])])
    IN  CASE t.kind = "object" -> << <<"{">> >> \o items \o << <<"}">> >>
          [] t.kind = "array"  -> << <<"[">> >> \o items \o << <<"]">> >>
          [] t.kind = "string" -> << <<Quote>> \o t.text \o <<Quote>> >>
          [] OTHER             -> <<t.text>>

\* The malformed documents are given as they are written.
Text(doc) ==
    IF doc.malformed # <<>> THEN doc.malformed
    ELSE LET tokens == Written(doc.tree)
         IN  FlattenSeq([k \in DOMAIN tokens |->
                tokens[k] \o IF k < Len(tokens) THEN doc.blank ELSE doc.after])

Init ==
    /\ document \in Documents
    /\ text = Text(document)
    /\ ctx = Tell(lejp_construct, "constructed")

Parse ==
    /\ text # <<>> /\ ctx.ret = Continue
    /\ \E again \in BOOLEAN :
         /\ ctx.called \/ again
         /\ ctx' = Take(IF again THEN Called(ctx) ELSE ctx, Head(text))
    /\ text' = Tail(text)
    /\ UNCHANGED document

\* The user changes the callback between two segments: the old one is told that
\* it is over, the new one that it begins.
lejp_change_callback ==
    /\ document.changes /\ ctx.called /\ ctx.ret = Continue
    /\ ~\E n \in DOMAIN ctx.heard : ctx.heard[n].reason = "destructed"
    /\ ctx' = Tell(Tell(Tell(ctx, "destructed"), "constructed"), "start")
    /\ UNCHANGED <<document, text>>

lejp_destruct ==
    /\ ctx.ret # Continue /\ Last(ctx.heard).reason # "destructed"
    /\ ctx' = Tell(ctx, "destructed")
    /\ UNCHANGED <<document, text>>

Next == Parse \/ lejp_change_callback \/ lejp_destruct

-----------------------------------------------------------------------------
(* What a document means *)

Unsaid == -1       \* not said

Heard(reason, comps, index, match, wild, buf) ==
    [reason |-> reason, comps |-> comps, index |-> index, match |-> match,
     wild |-> wild, buf |-> buf]

\* A path is the names on the way, those of arrays with [] behind.
Joined(comps) ==
    FlattenSeq([k \in DOMAIN comps |-> IF k = 1 THEN comps[k] ELSE <<".">> \o comps[k]])

Names(pattern) ==
    LET dots == {0, Len(pattern) + 1} \cup {k \in DOMAIN pattern : pattern[k] = "."}
        at   == SetToSortSeq(dots, LAMBDA a, b : a < b)
    IN  [n \in 1..(Len(at) - 1) |-> SubSeq(pattern, at[n] + 1, at[n + 1] - 1)]

\* A wildcard is one name, or at the end of the pattern one or more.
Fits(comps, names) ==
    LET open == names # <<>> /\ Last(names) = <<"*">>
    IN  /\ Len(comps) = Len(names) \/ (open /\ Len(comps) > Len(names))
        /\ \A k \in DOMAIN names : names[k] \in {<<"*">>, comps[k]}

FirstMatch(comps) ==
    LET found == {n \in DOMAIN Paths : Fits(comps, Names(Paths[n]))}
    IN  IF found = {} THEN 0 ELSE CHOOSE n \in found : \A m \in found : n <= m

Wild(comps, match) ==
    IF match = 0 THEN <<>>
    ELSE LET names == Names(Paths[match])
             stars == SelectSeq([k \in DOMAIN names |-> k], LAMBDA k : names[k] = <<"*">>)
         IN  [n \in DOMAIN stars |->
                LET name == comps[stars[n]]
                IN  SubSeq(name, 1, IF Len(name) < WildRoom THEN Len(name) ELSE WildRoom - 1)]

\* What the characters of a string stand for: escapes are decoded, \u ones to
\* UTF-8.  No document has a letter behind a digit other than 0 in a \u escape:
\* the code makes something else of those (see InHex).
RECURSIVE Decoded(_)
Decoded(chars) ==
    IF chars = <<>> THEN <<>>
    ELSE IF Head(chars) # "\\" THEN <<Head(chars)>> \o Decoded(Tail(chars))
    ELSE IF chars[2] # "u"
    THEN <<EscTran[CHOOSE n \in 1..8 : EscChar[n] = chars[2]]>> \o Decoded(SubSeq(chars, 3, Len(chars)))
    ELSE LET d(k) == HexValue(chars[k])
             unit == d(3) * 4096 + d(4) * 256 + d(5) * 16 + d(6)
         IN  (CASE unit < 128  -> <<Byte(unit)>>
                [] unit >= 128 /\ unit < 2048 -> <<Byte(192 + (unit \div 64)), Byte(128 + (unit % 64))>>
                [] unit >= 2048 -> <<Byte(224 + (unit \div 4096)),
                                     Byte(128 + ((unit \div 64) % 64)), Byte(128 + (unit % 64))>>)
             \o Decoded(SubSeq(chars, 7, Len(chars)))

\* A value string comes in pieces of Chunk - 1, the rest at its end.
Pieces(chars) ==
    LET n == Chunk - 1
    IN  [k \in 1..(1 + (Len(chars) \div n)) |->
            SubSeq(chars, n * (k - 1) + 1, IF n * k <= Len(chars) THEN n * k ELSE Len(chars))]

\* The callbacks for a value.  Inside an array the match is that of whatever was
\* matched before, and nothing is said of it.
RECURSIVE Story(_, _, _, _)
Story(t, outer, index, inArray) ==
    LET comps == IF t.name = <<>> THEN outer ELSE Append(outer, t.name)
        match == IF comps = <<>> THEN 0 ELSE IF inArray THEN Unsaid ELSE FirstMatch(comps)
        wild  == IF inArray THEN <<>> ELSE Wild(comps, match)
        H(reason, buf) == Heard(reason, comps, index, match, wild, buf)
        Ends(reason)   == <<Heard(reason, << <<"*">> >>, <<>>, Unsaid, <<>>, <<>>)>>
        pieces == Pieces(Decoded(t.text))
    IN  (IF t.name = <<>> THEN <<>> ELSE <<H("pair_name", <<>>)>>) \o
        CASE t.kind = "object" ->
                <<H("object_start", <<>>)>> \o
                FlattenSeq([k \in DOMAIN t.items |-> Story(t.items[k], comps, index, FALSE)])
                \o Ends("object_end")
          [] t.kind = "array" ->
                LET inside == Append(Front(comps), Last(comps) \o <<"[", "]">>)
                IN  <<[H("array_start", <<>>) EXCEPT
                          !.comps = inside, !.wild = IF inArray THEN <<>> ELSE Wild(inside, match)]>> \o
                    FlattenSeq([k \in DOMAIN t.items |->
                        Story(t.items[k], inside, Append(index, k - 1), TRUE)])
                    \o Ends("array_end")
          [] t.kind = "string" ->
                <<H("str_start", <<>>)>>
                \o [k \in DOMAIN pieces |->
                     H(IF k < Len(pieces) THEN "str_chunk" ELSE "str_end", pieces[k])]
          [] t.kind = "number" -> <<H("num_int", t.text)>>
          [] t.kind = "word"   ->
                <<H(CASE t.text[1] = "t" -> "true" [] t.text[1] = "f" -> "false"
                      [] t.text[1] = "n" -> "null", <<>>)>>

\* How deep the stack gets, and the array indices
RECURSIVE Levels(_)
Levels(t) ==
    CASE t.items # <<>> -> 1 + Max({Levels(t.items[k]) : k \in DOMAIN t.items}
                                   \cup IF t.kind = "object" THEN {1} ELSE {})
      [] t.kind = "string" -> 1
      [] OTHER -> 0
RECURSIVE Arrays(_)
Arrays(t) ==
    (IF t.kind = "array" THEN 1 ELSE 0) + Max({0} \cup {Arrays(t.items[k]) : k \in DOMAIN t.items})

TooDeep == Levels(document.tree) > Depth \/ Arrays(document.tree) > IndexDepth

-----------------------------------------------------------------------------
(* Properties *)

LifeReasons == {"constructed", "destructed", "start", "failed", "complete"}

Agrees(e, h) ==
    /\ e.reason = h.reason /\ e.buf = h.buf
    /\ h.comps # << <<"*">> >> => e.path = Joined(h.comps) /\ e.index = h.index
    /\ h.match # Unsaid => e.match = h.match
    /\ h.match > 0 => e.wild = h.wild

Count(reason) == Cardinality({n \in DOMAIN ctx.heard : ctx.heard[n].reason = reason})

\* However a text is cut into segments, with whatever blanks and comments in it,
\* the user hears the story of the document and no more: paths, indices, the first
\* path that matches and its wildcards, strings in pieces.  It is told to the end,
\* and what follows the document is left alone, unless the user refused, or the
\* document is malformed or too deep; then the user is told that, once.  Each
\* callback that is told of its beginning is told of its end.
\*
\* Not true of every memory (lejp.c:586 and 613 read the number of indices from beneath
\* the stack when the first object or array in the root ends): no run checks it.
JsonReadAnywhere ==
    LET said  == SelectSeq(ctx.heard, LAMBDA e : e.reason \notin LifeReasons)
        story == Story(document.tree, <<>>, <<>>, FALSE)
        over  == ctx.ret # Continue
    IN  /\ document.malformed = <<>> =>
             /\ Len(said) <= Len(story)
             /\ \A n \in DOMAIN said : Agrees(said[n], story[n])
             /\ ctx.ret = "complete" => Len(said) = Len(story)
             /\ over /\ ctx.ret # "complete" =>
                  TooDeep \/ ctx.ret = "callback"
             /\ text = <<>> => over
        /\ ctx.ret = "callback" <=>
             /\ document.refuses.at \in DOMAIN ctx.heard
             /\ ctx.heard[document.refuses.at].reason \notin LifeReasons \cup {"array_end"}
             /\ ctx.heard[document.refuses.at].reason = "str_end" => document.refuses.with < 0
        /\ document.malformed # <<>> => ctx.ret # "complete"
        /\ ctx.ret = "complete" => text = document.after /\ Count("complete") = 1
        /\ Count("failed") = IF over /\ ctx.ret # "complete" THEN 1 ELSE 0
        /\ Count("constructed") - Count("destructed") =
             IF over /\ Last(ctx.heard).reason = "destructed" THEN 0 ELSE 1

\* So it is where bits 48-55 of the pointer are zero, as they are in the 64-bit
\* addresses of programs; then it matters not what the byte that is read as the length
\* of the path is.
JsonRead == document.beneath.i = 0 => JsonReadAnywhere
=============================================================================
