------------------------------ MODULE MCLambda ------------------------------
(***************************************************************************)
(* Lambda mode for TLC, in four parts.  "any" and "js": whole requests to  *)
(* two scripts, served by an arbitrary guest or by the JavaScript guest;   *)
(* bodies of up to MaxBody bytes, queries with a repeated and with an      *)
(* escaped key.  "texts": jsmn alone, on every text of up to MaxText       *)
(* characters of two small alphabets (brackets and separators; strings and *)
(* escapes).  "program": lambda.c on the texts of objects of up to two     *)
(* members whose values nest to depth two.                                 *)
(***************************************************************************)
EXTENDS JsLambda

CONSTANTS a, b, MaxBody, MaxText

VARIABLES part, js, pos, toksuper, tokens, count, ret, doc, step, printed, says

jsonVars == <<js, pos, toksuper, tokens, count, ret, doc, step, printed, says>>

MCSymbols == {a, b, Slash}
MCFiles == {<<a>>, <<b, a>>}
MCPaths == {<<Slash, a, Slash, b>>, <<Slash, b, Slash, a>>, <<Slash, b>>}
MCTrees == {[n \in NamesIn(MCPaths) |-> Opens(MCFiles, Slash, Dir, NoFile, n)]}

MCQueries == {<<>>, <<<<"k", 1>>, <<"k", 2>>>>, <<<<"k", 1>>, <<"l", 2>>>>, <<<<Escaped, 1>>>>}

MCRequests ==
    {r \in [visible : BOOLEAN, query : MCQueries, length : 0..MaxBody, utf8 : BOOLEAN] :
        r.visible \/ r.query = <<>>}

Structure == {"{", "}", "[", "]", "quote", ":", ",", "x"}
Quoting == {"quote", "bs", "u", "bf", "x", "nul"}
UpTo(S, n) == UNION {[1..k -> S] : k \in 0..n}

Json == INSTANCE LambdaGuest
            WITH Texts <- UpTo(Structure, MaxText) \cup UpTo(Quoting, MaxText),
                 NumTokens <- 3, Objects <- {}, BufSize <- 0, event <- doc, at <- step

Leaves == {Json!Str(<<>>), Json!Str(<<"x", "bs", "quote">>), Json!Prim(<<"hex">>)}
Level1 == Leaves \cup {Json!Arr(<<>>), Json!Obj(<<>>)}
          \cup {Json!Arr(<<x, y>>) : x \in Leaves, y \in Leaves}
          \cup {Json!Obj(<<<<<<"x">>, x>>>>) : x \in Leaves}
MCObjects == {Json!Obj(<<>>)} \cup {Json!Obj(<<<<<<"u">>, x>>>>) : x \in Level1}
             \cup {Json!Obj(<<<<<<"u">>, x>>, <<<<>>, y>>>>) : x \in Level1, y \in Level1}

Program == INSTANCE LambdaGuest
               WITH Texts <- {}, NumTokens <- 7, Objects <- MCObjects, BufSize <- 20,
                    event <- doc, at <- step

MCInit ==
    /\ part \in {"any", "js", "texts", "program"}
    /\ JsInit
    /\ part \in {"texts", "program"} =>
           /\ request = CHOOSE r \in MCRequests : TRUE
           /\ target = CHOOSE p \in MCPaths : TRUE
    /\ CASE part = "texts" -> Json!TextsInit
         [] part = "program" -> Program!MainInit
         [] OTHER -> /\ js = <<>> /\ pos = 0 /\ toksuper = 0 /\ tokens = <<>> /\ count = 0
                     /\ ret = 0 /\ doc = <<>> /\ step = "" /\ printed = <<>> /\ says = ""

AnyGuestSteps ==
    part = "any" /\ LambdaNext /\ UNCHANGED <<part, at, bufLen, nbytes, jsonVars>>

JsSteps == part = "js" /\ JsNext /\ UNCHANGED <<part, jsonVars>>

TextsSteps ==
    /\ part = "texts"
    /\ Json!JsmnNext
    /\ UNCHANGED <<part, doc, step, printed, says, jsVars>>

ProgramSteps == part = "program" /\ Program!MainNext /\ UNCHANGED <<part, jsVars>>

MCSpec ==
    MCInit /\ [][AnyGuestSteps \/ JsSteps \/ TextsSteps \/ ProgramSteps]_<<part, jsVars, jsonVars>>
-----------------------------------------------------------------------------

(***************************************************************************)
(* An answer of the JavaScript guest is what its handler made of the       *)
(* event.  See AnswerComesFromHandler of JsLambda.                         *)
(***************************************************************************)
JsGuestAnswers == part = "js" => AnswerComesFromHandler
=============================================================================
