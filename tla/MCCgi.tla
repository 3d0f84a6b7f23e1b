------------------------------- MODULE MCCgi -------------------------------
(***************************************************************************)
(* CGI mode for TLC, in three parts.  "lookup": the search alone, for      *)
(* every path of up to MaxPath symbols over two names in every tree made   *)
(* of the files a, b, a/a and a/b.  "any": whole requests to the           *)
(* arbitrary guests a and b/a.  "shipped": whole requests to the           *)
(* repository's own guests hello.wasm, js.wasm, bin/md.wasm, bin/js.wasm.  *)
(***************************************************************************)
EXTENDS CgiGuests, TLC

CONSTANTS a, b, MaxPath, MaxBody

VARIABLE part

ScriptNames == {"a.js", "b.js", "c.js", "d.js", "e.js"}
MCSymbols == {"hello.wasm", "bin", "md.wasm", "js.wasm", "hello", "goodbye", a, b, Slash}
             \cup ScriptNames

MCHello == <<"hello.wasm">>
MCMarkdown == <<"bin", "md.wasm">>
MCJs == {<<"js.wasm">>, <<"bin", "js.wasm">>}
Directory == {MCHello, MCMarkdown} \cup MCJs
SmallFiles == {<<a>>, <<b>>, <<a, a>>, <<a, b>>}
AnyGuests == {<<a>>, <<b, a>>}
MCFiles == Directory \cup SmallFiles \cup AnyGuests

SmallPaths == PathsOver({a, b}, Slash, MaxPath)
JsPaths ==
    {<<Slash, "js.wasm", Slash, n>> : n \in ScriptNames}
    \cup {<<Slash, "bin", Slash, "js.wasm", Slash, n>> : n \in ScriptNames}
    \cup {<<Slash, "js.wasm">>}
OtherPaths == {
    <<Slash, "hello.wasm", Slash, "hello">>,
    <<Slash, "hello.wasm", Slash, "goodbye">>,
    <<Slash, "hello.wasm", Slash, "hello", Slash>>,
    <<Slash, "hello.wasm">>,
    <<Slash, "bin", Slash, "md.wasm">>,
    <<Slash, "bin">>}
MCPaths == SmallPaths \cup JsPaths \cup OtherPaths

TreeOf(files) == [n \in NamesIn(MCPaths) |-> Opens(files, Slash, Dir, NoFile, n)]
SmallTrees == {TreeOf(S) : S \in Layouts(SmallFiles)}
MCTrees == SmallTrees \cup {TreeOf(AnyGuests), TreeOf(Directory)}

Agents == {<<>>, <<<<"user_agent", "x">>>>,
           <<<<"user_agent", "x">>, <<"user_agent", "y">>>>,
           <<<<"user_agent", Opaque>>>>}

Plain == [method |-> "GET", headers |-> <<>>, length |-> 0, framing |-> "none", utf8 |-> TRUE]
MCRequests ==
    {[Plain EXCEPT !.headers = h] : h \in Agents}
    \cup {[method |-> "POST", headers |-> <<<<"content_type", "md">>, <<"content_length", n>>>>,
           length |-> n, framing |-> "length", utf8 |-> u] : n \in 0..MaxBody, u \in BOOLEAN}
    \cup {[method |-> "POST", headers |-> <<>>,
           length |-> n, framing |-> "chunked", utf8 |-> TRUE] : n \in 0..MaxBody}

MCTexts ==
    {<<"Method Not Allowed">>, <<"Not Found">>, <<"one">>, <<"two">>}
    \cup {<<g, w>> : g \in {"Hello", "Goodbye"}, w \in {"User", "x", "y"}}
    \cup {<<"html", n>> : n \in 0..MaxBody}

MCGuestLines == {Blank, TextLine(<<"Not Found">>), StatusLine(404), StatusLine(Bad), NotUtf8}

P(l) == [kind |-> "print", line |-> l]
Q(l) == [kind |-> "queue", line |-> l]
Throw == [kind |-> "throw"]
Exit == [kind |-> "exit"]
One == TextLine(<<"one">>)
Two == TextLine(<<"two">>)

\* Programs that print, queue, throw and exit in different orders.
MCScripts ==
    [n \in {<<Slash, "a.js">>, <<Slash, "bin", Slash, "a.js">>} |->
        <<P(StatusLine(404)), P(Blank), Q(Two), P(One)>>]
    @@ [n \in {<<Slash, "b.js">>, <<Slash, "bin", Slash, "b.js">>} |-> <<P(One), Throw, P(Two)>>]
    @@ [n \in {<<Slash, "c.js">>} |-> <<P(One), Q(Two), Exit>>]
    @@ [n \in {<<Slash, "bin", Slash, "d.js">>} |-> <<Q(One), P(StatusLine(Bad)), P(Blank)>>]

MCInit ==
    /\ part \in {"lookup", "any", "shipped"}
    /\ GuestsInit
    /\ CASE part = "lookup" -> target \in SmallPaths /\ tree \in SmallTrees /\ request = Plain
         [] part = "any" ->
                /\ target \in {<<Slash, a, Slash, b>>, <<Slash, b, Slash, a>>, <<Slash, b>>}
                /\ tree = TreeOf(AnyGuests)
         [] part = "shipped" ->
                /\ target \in OtherPaths \cup JsPaths
                /\ tree = TreeOf(Directory)
                /\ target \in JsPaths => request.length <= 1

LookupSteps ==
    /\ part = "lookup"
    /\ LookupStep
    /\ UNCHANGED <<part, pc, request, vars, runVars, response, trapped, jsVars>>

AnyGuestSteps == part = "any" /\ CgiNext /\ UNCHANGED <<part, trapped, jsVars>>

ShippedSteps == part = "shipped" /\ GuestsNext /\ UNCHANGED part

MCSpec == MCInit /\ [][LookupSteps \/ AnyGuestSteps \/ ShippedSteps]_<<part, guestVars>>
=============================================================================
