---------------------------- MODULE LambdaGuest -----------------------------
(***************************************************************************)
(* The JSON tokenizer examples/lambda/jsmn.h as examples/lambda builds it: *)
(* without JSMN_STRICT and without JSMN_PARENT_LINKS.  One step of the     *)
(* model is one turn of the loop of `jsmn_parse`; a string or a primitive  *)
(* is read in one turn, as in the code.                                    *)
(*                                                                         *)
(* A character stands for all those the tokenizer cannot tell apart.       *)
(***************************************************************************)
EXTENDS Integers, Sequences, SequencesExt, FiniteSets

CONSTANTS Texts,      \* the texts to parse
          NumTokens   \* num_tokens: the size of the token array

Hex     == {"hex", "bf"}               \* 0-9 a-f A-F; b and f are escapes, too
Escapes == {"quote", "bs", "esc", "bf"}   \* " \ and / r n t, b f
Spaces  == {"space"}
Chars   == {"{", "}", "[", "]", ":", ",", "u", "x", "ctl", "nul"} \cup Hex \cup Escapes \cup Spaces

Nomem == -1
Inval == -2
Part  == -3
Running == -10   \* not returned yet

VARIABLES
    js,        \* the text; `len` is its length
    pos,       \* parser->pos
    toksuper,  \* parser->toksuper
    tokens,    \* the tokens in use: parser->toknext is their number
    count,     \* count
    ret        \* what jsmn_parse returns, or Running

jsmnVars == <<js, pos, toksuper, tokens, count, ret>>

toknext == Len(tokens)
At(p) == js[p + 1]
Ended(p) == IF p < Len(js) THEN At(p) = "nul" ELSE TRUE
Open(t) == t.start # -1 /\ t.end = -1
Types == {"object", "array", "string", "primitive"}
Container(t) == t.type \in {"object", "array"}

\* The last token of these types that is open; -1 if there is none.
LastOpen(types) ==
    LET I == {i \in DOMAIN tokens : Open(tokens[i]) /\ tokens[i].type \in types}
    IN  IF I = {} THEN -1 ELSE Max(I) - 1

\* tokens[toksuper].size++, if there is a superior token
Counted(toks) ==
    IF toksuper = -1 THEN toks ELSE [toks EXCEPT ![toksuper + 1].size = @ + 1]

\* Where the loop of `jsmn_parse_string` stops from p on: at the closing quote,
\* or with an error.
StringEnd ==
    LET hexEnd(p) == CHOOSE q \in p..(p + 4) :
            /\ q = p + 4 \/ Ended(q) \/ At(q) \notin Hex
            /\ \A r \in p..(q - 1) : ~Ended(r) /\ At(r) \in Hex
        scan[p \in Nat] ==
            IF Ended(p) THEN Part
            ELSE IF At(p) = "quote" THEN p
            ELSE IF At(p) = "bs" /\ p + 1 < Len(js) THEN
                IF At(p + 1) \in Escapes THEN scan[p + 2]
                ELSE IF At(p + 1) # "u" THEN Inval
                ELSE LET q == hexEnd(p + 2)
                     IN  IF q < p + 6 /\ ~Ended(q) THEN Inval ELSE scan[q]
            ELSE scan[p + 1]
    IN  scan[pos + 1]

\* Where the loop of `jsmn_parse_primitive` stops.
PrimitiveEnd ==
    LET stop == {"space", ":", ",", "]", "}"}
        q == CHOOSE q \in pos..Len(js) :
                /\ Ended(q) \/ At(q) \in stop \cup {"ctl"}
                /\ \A r \in pos..(q - 1) : ~Ended(r) /\ At(r) \notin stop \cup {"ctl"}
    IN  IF ~Ended(q) /\ At(q) = "ctl" THEN Inval ELSE q

JsmnTypeOK ==
    /\ js \in Seq(Chars)
    /\ pos \in 0..Len(js)
    /\ toksuper \in -1..(toknext - 1)
    /\ tokens \in Seq([type : Types,
                       start : Int, end : Int, size : Nat])
    /\ toknext <= NumTokens
    /\ ret \in Int
-----------------------------------------------------------------------------
\* `jsmn_init`
JsmnInit ==
    /\ js \in Texts
    /\ pos = 0
    /\ toksuper = -1
    /\ tokens = <<>>
    /\ count = 0
    /\ ret = Running

Return(r) ==
    /\ ret' = r
    /\ UNCHANGED <<js, pos, toksuper, tokens, count>>

\* The loop goes on behind the character at p.
Continue(p) == pos' = p + 1 /\ UNCHANGED <<js, ret>>

At_(cs) == ret = Running /\ ~Ended(pos) /\ At(pos) \in cs

\* `jsmn_alloc_token` and `jsmn_fill_token`, with the count of the superior
\* token; <<>> when the array is full.
NewToken(type, start, end) ==
    IF toknext >= NumTokens THEN <<>>
    ELSE Counted(tokens) \o <<[type |-> type, start |-> start, end |-> end, size |-> 0]>>

\* { and [
OpenBracket ==
    /\ At_({"{", "["})
    /\ LET type == IF At(pos) = "{" THEN "object" ELSE "array"
           toks == NewToken(type, pos, -1)
       IN  IF toks = <<>>
           THEN /\ count' = count + 1
                /\ ret' = Nomem
                /\ UNCHANGED <<js, pos, toksuper, tokens>>
           ELSE /\ tokens' = toks
                /\ toksuper' = toknext
                /\ count' = count + 1
                /\ Continue(pos)

\* } and ]: the last open token is closed, the one that is open before it
\* becomes the superior one.
CloseBracket ==
    /\ At_({"}", "]"})
    /\ LET type == IF At(pos) = "}" THEN "object" ELSE "array"
           i == LastOpen(Types)
           before == {j \in 0..(i - 1) : Open(tokens[j + 1])}
       IN  IF i = -1 \/ tokens[i + 1].type # type
           THEN Return(Inval)
           ELSE /\ tokens' = [tokens EXCEPT ![i + 1].end = pos + 1]
                /\ toksuper' = IF before = {} THEN -1 ELSE Max(before)
                /\ Continue(pos)
                /\ UNCHANGED count

\* A string or a primitive that ends at q: its token, and where the loop goes on.
Leaf(type, start, q, last) ==
    LET toks == NewToken(type, start, q)
    IN  IF q < 0 THEN Return(q)
        ELSE IF toks = <<>> THEN Return(Nomem)
        ELSE /\ tokens' = toks
             /\ count' = count + 1
             /\ Continue(last)
             /\ UNCHANGED toksuper

String == At_({"quote"}) /\ Leaf("string", pos + 1, StringEnd, StringEnd)

Primitive ==
    /\ At_(Chars \ ({"{", "}", "[", "]", "quote", ":", ",", "nul"} \cup Spaces))
    /\ Leaf("primitive", pos, PrimitiveEnd, PrimitiveEnd - 1)

Space ==
    /\ At_(Spaces)
    /\ Continue(pos)
    /\ UNCHANGED <<toksuper, tokens, count>>

\* The last token becomes the superior one: it is a key.
Colon ==
    /\ At_({":"})
    /\ toksuper' = toknext - 1
    /\ Continue(pos)
    /\ UNCHANGED <<tokens, count>>

\* Behind the value of a key, the enclosing bracket is the superior token again.
Comma ==
    /\ At_({","})
    /\ toksuper' = IF toksuper # -1 /\ ~Container(tokens[toksuper + 1])
                   THEN LET i == LastOpen({"object", "array"})
                        IN  IF i = -1 THEN toksuper ELSE i
                   ELSE toksuper
    /\ Continue(pos)
    /\ UNCHANGED <<tokens, count>>

\* The end of the text: an error if a bracket is still open.
Finish ==
    /\ ret = Running /\ Ended(pos)
    /\ Return(IF LastOpen(Types) # -1 THEN Part ELSE count)

JsmnNext ==
    \/ OpenBracket \/ CloseBracket \/ String \/ Primitive
    \/ Space \/ Colon \/ Comma \/ Finish

JsmnSpec == JsmnInit /\ [][JsmnNext]_jsmnVars
-----------------------------------------------------------------------------
(***************************************************************************)
(* The tokens of any text, well formed or not, and at every moment of the  *)
(* parse: they lie inside the part of the text that was read, begin in the *)
(* order of the array, and of any two, one lies inside the other or behind *)
(* it; the open ones enclose each other.  A result that is not an error is *)
(* the number of tokens in use, so a caller's loop over r tokens reads no  *)
(* token that was not filled.                                              *)
(***************************************************************************)
TokensNest ==
    /\ \A i \in DOMAIN tokens :
        /\ 0 <= tokens[i].start /\ tokens[i].start <= pos
        /\ ~Open(tokens[i]) => tokens[i].start <= tokens[i].end /\ tokens[i].end <= pos
        /\ \A j \in (i + 1)..toknext :
            /\ tokens[i].start <= tokens[j].start
            /\ \/ Open(tokens[i])
               \/ ~Open(tokens[j]) /\ tokens[j].end <= tokens[i].end
               \/ tokens[i].end <= tokens[j].start
    /\ ret # Running /\ ret >= 0 => ret = toknext
-----------------------------------------------------------------------------
(***************************************************************************)
(* The C guest examples/lambda/lambda.c: it copies the event into a buffer *)
(* of fixed size, parses it with jsmn into a token array of fixed size and *)
(* prints the strings and the primitives.  It sends no response, so that   *)
(* the handler's `response.unwrap()` panics in any case (AnswerPanics of   *)
(* LambdaHandler with nothing sent); what is of interest here is what the  *)
(* guest makes of its event.                                               *)
(***************************************************************************)

CONSTANTS Objects,  \* the JSON objects whose texts the host may hand over
          BufSize   \* sizeof(buf)
-----------------------------------------------------------------------------
(***************************************************************************)
(* JSON values as trees, their texts, and what a tokenizer that follows    *)
(* the grammar makes of them: the reference for jsmn.                      *)
(***************************************************************************)
Str(s) == [kind |-> "string", text |-> s]
Prim(s) == [kind |-> "primitive", text |-> s]
Arr(vs) == [kind |-> "array", items |-> vs]
\* An object: pairs of a key's text and a value.
Obj(ms) == [kind |-> "object", items |-> ms]

Tok(type, start, end, size) == [type |-> type, start |-> start, end |-> end, size |-> size]

\* The text of a value that begins at offset p, and its tokens.
RECURSIVE Render(_, _)
Render(v, p) ==
    LET sep(i, s) == IF i = 1 THEN <<>> ELSE <<s, "space">>
        member(acc, i) ==
            IF v.kind = "array"
            THEN LET start == p + Len(acc.text) + Len(sep(i, ","))
                     r == Render(v.items[i], start)
                 IN  [text |-> acc.text \o sep(i, ",") \o r.text, toks |-> acc.toks \o r.toks]
            ELSE LET key == v.items[i][1]
                     before == acc.text \o sep(i, ",") \o <<"quote">> \o key \o <<"quote", ":">>
                     k == p + Len(acc.text) + Len(sep(i, ",")) + 1
                     r == Render(v.items[i][2], p + Len(before))
                 IN  [text |-> before \o r.text,
                      toks |-> acc.toks \o <<Tok("string", k, k + Len(key), 1)>> \o r.toks]
        open == IF v.kind = "array" THEN "[" ELSE "{"
        close == IF v.kind = "array" THEN "]" ELSE "}"
    IN  IF v.kind = "string"
        THEN [text |-> <<"quote">> \o v.text \o <<"quote">>,
              toks |-> <<Tok("string", p + 1, p + 1 + Len(v.text), 0)>>]
        ELSE IF v.kind = "primitive"
        THEN [text |-> v.text, toks |-> <<Tok("primitive", p, p + Len(v.text), 0)>>]
        ELSE LET inner == FoldLeftDomain(LAMBDA acc, i : member(acc, i),
                                         [text |-> <<open>>, toks |-> <<>>], v.items)
             IN  [text |-> Append(inner.text, close),
                  toks |-> <<Tok(v.kind, p, p + Len(inner.text) + 1, Len(v.items))>> \o inner.toks]

\* The strings and primitives of a value, keys included, in order.
RECURSIVE LeavesOf(_)
LeavesOf(v) ==
    IF v.kind \in {"string", "primitive"} THEN <<v.text>>
    ELSE IF v.kind = "array" THEN FlattenSeq([i \in DOMAIN v.items |-> LeavesOf(v.items[i])])
    ELSE FlattenSeq([i \in DOMAIN v.items |-> <<v.items[i][1]>> \o LeavesOf(v.items[i][2])])

TextOf(v) == Render(v, 0).text
TokensOf(v) == Render(v, 0).toks
-----------------------------------------------------------------------------
VARIABLES
    event,    \* the event
    at,       \* "parse", "loop", "end"
    printed,  \* the texts printed by the loop
    says      \* the message printed before it: "", "No memory", "Object expected"

mainVars == <<event, at, printed, says>>
guestVars == <<jsmnVars, mainVars>>

\* `lambda_event`: as much of the event as the buffer takes.
LambdaEvent(e) == SubSeq(e, 1, IF Len(e) < BufSize THEN Len(e) ELSE BufSize)

MainInit ==
    /\ event \in {TextOf(v) : v \in Objects}
    /\ js = LambdaEvent(event)
    /\ pos = 0 /\ toksuper = -1 /\ tokens = <<>> /\ count = 0 /\ ret = Running
    /\ at = "parse" /\ printed = <<>> /\ says = ""

\* jsmn alone, on any text.
TextsInit == JsmnInit /\ event = <<>> /\ at = "parse" /\ printed = <<>> /\ says = ""

Parse == at = "parse" /\ JsmnNext /\ UNCHANGED mainVars


\* The checks of the result: out of tokens the program goes on, and the loop
\* has nothing to do.
Check ==
    /\ at = "parse" /\ ret # Running
    /\ IF ret = Nomem THEN says' = "No memory" /\ at' = "loop"
       ELSE IF ret < 1 \/ tokens[1].type # "object"
            THEN says' = "Object expected" /\ at' = "end"
            ELSE at' = "loop" /\ UNCHANGED says
    /\ UNCHANGED <<jsmnVars, event, printed>>

Shown(t) == t.type \in {"string", "primitive"}

\* for (i = 1; i < r; i++)
Loop ==
    /\ at = "loop"
    /\ printed' = LET shown == SelectSeq(SubSeq(tokens, 2, ret), Shown)
                  IN  [i \in DOMAIN shown |-> SubSeq(js, shown[i].start + 1, shown[i].end)]
    /\ at' = "end"
    /\ UNCHANGED <<jsmnVars, event, says>>

MainNext == Parse \/ Check \/ Loop

MainSpec == MainInit /\ [][MainNext]_guestVars
-----------------------------------------------------------------------------
ValueOf(e) == CHOOSE v \in Objects : TextOf(v) = e

(***************************************************************************)
(* jsmn reads a well-formed object as the grammar does: when the tokens    *)
(* suffice its tokens are those of the reference, with the types, the      *)
(* bounds and the numbers of members; and it never finds an error in it    *)
(* but that of too few tokens.                                             *)
(***************************************************************************)
ReadsWellFormed ==
    at # "parse" /\ Len(event) <= BufSize =>
        LET toks == TokensOf(ValueOf(event))
        IN  IF Len(toks) <= NumTokens THEN tokens = toks /\ ret = Len(toks)
            ELSE ret = Nomem

=============================================================================
