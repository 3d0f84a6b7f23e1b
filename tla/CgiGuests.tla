----------------------------- MODULE CgiGuests -----------------------------
(***************************************************************************)
(* The CGI handler with the guests the repository ships: the C program     *)
(* examples/hello_world, the Rust program examples/markdown, and the       *)
(* JavaScript engine examples/js/js.c.  Each takes the place of the        *)
(* arbitrary guest of CgiHandler.                                          *)
(*                                                                         *)
(* js.c changes to the directory of the script it was asked for, evaluates *)
(* the file that PATH_INFO names there as a module, and tears its runtime  *)
(* down.  The file's program is a list of effects: it prints, it queues    *)
(* jobs (what stands behind an `await` or a `then`), it throws or exits.   *)
(***************************************************************************)
EXTENDS CgiHandler, Integers

CONSTANTS HelloFile,     \* hello_world.wasm
          MarkdownFile,  \* markdown.wasm
          JsFiles,       \* the copies of js.wasm
          Scripts        \* the JavaScript files: their paths, and their programs

\* The guests are three programs.  A file is opened by a path that ends in its
\* name, which is one symbol.  No header is set to what stands for an unset
\* variable.
ASSUME GuestsAssumption ==
    /\ HelloFile # MarkdownFile /\ HelloFile \notin JsFiles /\ MarkdownFile \notin JsFiles
    /\ \A t \in Trees : \A n \in DOMAIN t : t[n] \in JsFiles =>
           /\ Len(n) > 0 /\ n[Len(n)] # Slash
           /\ Len(n) > 1 => n[Len(n) - 1] = Slash
    /\ \A r \in Requests : \A i \in DOMAIN r.headers : r.headers[i][2] # Null
    /\ \A f \in DOMAIN Scripts :
           /\ Scripts[f] \in Seq({Scripts[f][i] : i \in DOMAIN Scripts[f]})
           /\ \A i \in DOMAIN Scripts[f] : Scripts[f][i].kind \in {"print", "queue", "throw", "exit"}

VARIABLES
    trapped,  \* history: the guest's run ended in a trap
    cwd,      \* the JavaScript guest's working directory
    program,  \* what is left of the program; NotLoaded before it is loaded
    jobs,     \* the lines that queued jobs would print
    ret       \* what its main returns

jsVars == <<cwd, program, jobs, ret>>

guestVars == <<cgiVars, trapped, jsVars>>

Runs(f) == pc = "guest" /\ wasm = Content(f, NumBlocks)

RunsJs == \E f \in JsFiles : Runs(f)

NotLoaded == <<[kind |-> "none"]>>

GuestsInit ==
    /\ CgiInit
    /\ trapped = FALSE
    /\ cwd = <<>> /\ program = NotLoaded /\ jobs = <<>> /\ ret = 0

\* The handler's steps, StartGuest for the shipped guests included.
Host == HostNext /\ UNCHANGED <<trapped, jsVars>>

Prints(lines) ==
    /\ stdout' = lines
    /\ pc' = "output"
    /\ UNCHANGED <<lookupVars, request, vars, response, trapped, jsVars>>

Greeting(greeting) ==
    LET agent == Getenv("HTTP_USER_AGENT")
    IN  <<TextLine(<<greeting, IF agent = Null THEN "User" ELSE agent>>)>>

\* What hello_world prints for a method and a PATH_INFO.
HelloLines(method, info) ==
    IF method # "GET" THEN <<StatusLine(405), Blank, TextLine(<<"Method Not Allowed">>)>>
    ELSE IF info = <<Slash, "hello">> THEN Greeting("Hello")
    ELSE IF info = <<Slash, "goodbye">> THEN Greeting("Goodbye")
    ELSE <<StatusLine(404), Blank, TextLine(<<"Not Found">>)>>

\* `main` of hello_world.c
HelloWorld ==
    /\ Runs(HelloFile)
    /\ Prints(HelloLines(Getenv("REQUEST_METHOD"), Getenv("PATH_INFO")))
    /\ UNCHANGED <<stdin, consumed>>

\* CONTENT_LENGTH, or 0
MarkdownLength ==
    IF Getenv("CONTENT_LENGTH") = Null THEN 0 ELSE Getenv("CONTENT_LENGTH")

HtmlOf(n) == TextLine(<<"html", n>>)

\* Mutation: `read` in place of `read_exact`: what is there is converted.
MarkdownReadsSome ==
    /\ Runs(MarkdownFile)
    /\ MarkdownLength > 0 /\ request.utf8
    /\ stdin' = 0
    /\ consumed' = consumed + stdin
    /\ Prints(<<HeaderLine("content_type", "html"),
                HeaderLine("content_length", "size"), Blank, HtmlOf(stdin)>>)

\* `_start` of the markdown guest: `read_exact` gets the whole document.
MarkdownConvert ==
    /\ Runs(MarkdownFile)
    /\ MarkdownLength > 0
    /\ MarkdownLength <= stdin /\ request.utf8
    /\ stdin' = stdin - MarkdownLength
    /\ consumed' = consumed + MarkdownLength
    /\ Prints(<<HeaderLine("content_type", "html"),
                HeaderLine("content_length", "size"), Blank, HtmlOf(MarkdownLength)>>)

\* It has no document to convert and prints nothing.
MarkdownNothing ==
    /\ Runs(MarkdownFile)
    /\ MarkdownLength = 0
    /\ Prints(<<>>)
    /\ UNCHANGED <<stdin, consumed>>

\* One of its `unwrap` calls panics: stdin ends too early, or is not UTF-8.
MarkdownTraps ==
    /\ Runs(MarkdownFile)
    /\ MarkdownLength > stdin \/ (MarkdownLength > 0 /\ ~request.utf8)
    /\ trapped' = TRUE
    /\ GuestFails
    /\ UNCHANGED jsVars

\* `path_parent`: what is in front of the last slash; nothing for a script in
\* the root, where `chdir` then fails and the directory stays.
PathParent(p) ==
    LET seps == {i \in DOMAIN p : p[i] = Slash}
        last == CHOOSE i \in seps : \A j \in seps : j <= i
    IN  IF seps = {} THEN <<>> ELSE SubSeq(p, 1, last - 1)

\* main up to `eval_file`: the directory, and the file of PATH_INFO.
Load ==
    /\ RunsJs /\ program = NotLoaded
    /\ cwd' = PathParent(Getenv("SCRIPT_NAME"))
    /\ Getenv("PATH_INFO") # <<>>
    /\ (cwd' \o Getenv("PATH_INFO")) \in DOMAIN Scripts
    /\ program' = Scripts[cwd' \o Getenv("PATH_INFO")]
    /\ UNCHANGED <<cgiVars, trapped, jobs, ret>>

\* No PATH_INFO: main returns 1.  No such file: `exit(1)`.  Either way the
\* guest's run ends in `proc_exit`.
LoadFails ==
    /\ RunsJs /\ program = NotLoaded
    /\ \/ Getenv("PATH_INFO") = <<>>
       \/ (PathParent(Getenv("SCRIPT_NAME")) \o Getenv("PATH_INFO")) \notin DOMAIN Scripts
    /\ GuestFails
    /\ UNCHANGED <<trapped, jsVars>>

Effect(kind) == RunsJs /\ program \notin {NotLoaded, <<>>} /\ Head(program).kind = kind

\* `js_print`
JsPrint ==
    /\ Effect("print")
    /\ program' = Tail(program)
    /\ stdout' = Append(stdout, Head(program).line)
    /\ UNCHANGED <<lookupVars, pc, request, vars, stdin, consumed, response, trapped, cwd, jobs, ret>>

\* A job is queued; nothing runs it.
JsQueue ==
    /\ Effect("queue")
    /\ program' = Tail(program)
    /\ jobs' = Append(jobs, Head(program).line)
    /\ UNCHANGED <<cgiVars, trapped, cwd, ret>>

\* Mutation: the exception is printed, and the result is 0.
JsThrowIgnored ==
    /\ Effect("throw")
    /\ program' = <<>>
    /\ UNCHANGED <<cgiVars, trapped, cwd, jobs, ret>>

\* An exception: `eval_buf` prints it and returns -1.
JsThrow ==
    /\ Effect("throw")
    /\ program' = <<>>
    /\ ret' = -1
    /\ UNCHANGED <<cgiVars, trapped, cwd, jobs>>

\* `std.exit(n)`: whatever n is, the host's call of `_start` is an error.
JsExit ==
    /\ Effect("exit")
    /\ GuestFails
    /\ UNCHANGED <<trapped, jsVars>>

\* main frees the runtime, with the jobs that are still queued, and returns 0.
JsReturns ==
    /\ RunsJs /\ program = <<>> /\ ret = 0
    /\ GuestReturns
    /\ UNCHANGED <<trapped, jsVars>>

\* main returns -1, which libc turns into `proc_exit`.
JsReturnsError ==
    /\ RunsJs /\ program = <<>> /\ ret # 0
    /\ GuestFails
    /\ UNCHANGED <<trapped, jsVars>>

GuestsNext ==
    \/ Host
    \/ HelloWorld
    \/ MarkdownConvert \/ MarkdownNothing \/ MarkdownTraps
    \/ Load \/ LoadFails
    \/ JsPrint \/ JsQueue \/ JsThrow \/ JsExit \/ JsReturns \/ JsReturnsError

GuestsSpec == GuestsInit /\ [][GuestsNext]_guestVars
-----------------------------------------------------------------------------
FirstAgent ==
    LET agents == {i \in DOMAIN request.headers : request.headers[i][1] = "user_agent"}
        first == CHOOSE i \in agents : \A j \in agents : i <= j
    IN  IF agents = {} THEN "User" ELSE request.headers[first][2]

(***************************************************************************)
(* hello_world, end to end: the answer the client gets depends on the      *)
(* method, the request path and the first User-Agent header as the program *)
(* means it to, through the path's splits, the variables, and the reading  *)
(* of what it printed.                                                     *)
(***************************************************************************)
HelloAnswers ==
    LET greets(g) == response.status = Ok /\ response.body = <<TextLine(<<g, FirstAgent>>)>>
    IN  pc = "done" /\ wasm = Content(HelloFile, NumBlocks) =>
        IF request.method # "GET" THEN response.status = 405
        ELSE IF target = <<Slash>> \o Name(cut) \o <<Slash, "hello">> THEN greets("Hello")
        ELSE IF target = <<Slash>> \o Name(cut) \o <<Slash, "goodbye">> THEN greets("Goodbye")
        ELSE response.status = 404

(***************************************************************************)
(* markdown, end to end: a document whose length was announced is          *)
(* converted whole or not at all; no answer is made from part of it,       *)
(* though only the first chunk of the body reaches the guest.              *)
(***************************************************************************)
NoPartialConversion ==
    /\ pc = "done" /\ wasm = Content(MarkdownFile, NumBlocks)
    /\ request.framing = "length" /\ request.length > 0
    => response.body = <<HtmlOf(request.length)>>

(***************************************************************************)
(* README.md says of markdown.wasm that it "Converts markdown input into   *)
(* HTML": a run of it on a UTF-8 document that the client sends in full    *)
(* does not trap.                                                          *)
(***************************************************************************)
MarkdownConverts == request.utf8 => ~trapped

\* The lines that the first n effects of p print, in their order.
PrintedBy(p, n, lines) ==
    \E m \in 0..n : \E at \in [1..m -> 1..n] :
        /\ \A i, j \in 1..m : i < j => at[i] < at[j]
        /\ {at[i] : i \in 1..m} = {k \in 1..n : p[k].kind = "print"}
        /\ lines = [i \in 1..m |-> p[at[i]].line]

\* The directory of the script in the request path: what is in front of the
\* slash and the name (one symbol) that the rest of the path follows.
Beside == SubSeq(target, 1, Len(target) - Len(Rest(cut)) - 2)

NoThrow(p, n) == \A i \in 1..n : p[i].kind \notin {"throw", "exit"}

(***************************************************************************)
(* The JavaScript guest, end to end: a client that gets an answer asked    *)
(* for a file beside the guest's own (its directory, and the rest of the   *)
(* request path below it); the file ran to its end, and the answer is the  *)
(* reading of what it printed before it returned.  A throw or an exit, even *)
(* after the whole answer was printed, costs the client the answer, and    *)
(* what a job would have printed is not part of it.                        *)
(***************************************************************************)
JsAnswers ==
    pc = "done" /\ Candidate \in JsFiles =>
        LET f == Beside \o Rest(cut) IN
        /\ f \in DOMAIN Scripts
        /\ NoThrow(Scripts[f], Len(Scripts[f]))
        /\ PrintedBy(Scripts[f], Len(Scripts[f]), stdout)
        /\ Reading(stdout, response.status, response.headers, response.body)

\* The answers of hello_world and of the JavaScript guest, together.
ShippedAnswers == HelloAnswers /\ JsAnswers
-----------------------------------------------------------------------------
\* What the markdown guest prints for a document of n bytes.
MarkdownLines(n) ==
    <<HeaderLine("content_type", "html"), HeaderLine("content_length", "size"), Blank, HtmlOf(n)>>

\* The program that js.c runs, or is about to run.
Asked == PathParent(<<Slash>> \o Name(cut)) \o Rest(cut)

\* n effects of the program are behind the JavaScript guest.
Reached(n) ==
    /\ Asked \in DOMAIN Scripts
    /\ program = SubSeq(Scripts[Asked], n + 1, Len(Scripts[Asked]))
    /\ NoThrow(Scripts[Asked], n)
    /\ PrintedBy(Scripts[Asked], n, stdout)

(***************************************************************************)
(* The inductive invariant: what a guest has printed when it returns, or,  *)
(* for the JavaScript guest, while it runs; and the response is the        *)
(* reading of it.                                                          *)
(***************************************************************************)
GuestsInv ==
    /\ RequestInv
    /\ pc \in {"lookup", "body", "module"} => stdout = <<>> /\ program = NotLoaded /\ ret = 0
    /\ pc \in {"output", "done"} /\ Candidate = HelloFile =>
           stdout = HelloLines(request.method, Rest(cut))
    /\ pc \in {"output", "done"} /\ Candidate = MarkdownFile /\ MarkdownLength > 0 =>
           stdout = MarkdownLines(MarkdownLength)
    /\ pc = "guest" /\ program = NotLoaded => stdout = <<>> /\ ret = 0
    /\ pc = "guest" /\ ret # 0 => program = <<>>
    /\ pc = "guest" /\ program # NotLoaded /\ ret = 0 =>
           \E n \in 0..Len(Scripts[Asked]) : Reached(n)
    /\ pc \in {"output", "done"} /\ Candidate \in JsFiles =>
           ret = 0 /\ Reached(Len(Scripts[Asked]))
    /\ pc = "done" => Reading(stdout, response.status, response.headers, response.body)
=============================================================================
