----------------------------- MODULE CgiHandler -----------------------------
(***************************************************************************)
(* One request in CGI mode, from the first line of `cgi::handler` to the   *)
(* response or the closed connection: the search for the script, the CGI   *)
(* variables, the request body, `App::run_cgi` with the guest's run inside *)
(* it, and the reading of what the guest printed.                          *)
(*                                                                         *)
(* A panic unwinds the connection's task: the client gets no response and  *)
(* the connection is closed.  Every `unwrap` and `?` on the way ends there *)
(* (pc = "dropped").                                                       *)
(***************************************************************************)
EXTENDS ScriptLookup, CgiPayload

CONSTANTS Requests,     \* records: method, headers, length and framing of the body
          Opaque,       \* a header value that is not visible ASCII
          Null,         \* what `getenv` returns for a variable that is not set
          GuestLines,   \* the lines an arbitrary guest prints
          MaxOut,       \* bound on the lines it prints
          MaxRead       \* bound on the bytes it reads at once

\* A line that is not UTF-8.
NotUtf8 == [kind |-> "raw"]

\* What a variable is called: two headers have names of their own, the others
\* get the HTTP_ prefix (`to_cgi_http_header`).
EnvName ==
    [content_type   |-> "CONTENT_TYPE",
     content_length |-> "CONTENT_LENGTH",
     user_agent     |-> "HTTP_USER_AGENT"]

\* Headers are pairs.  hyper takes the length of a body from its Content-Length
\* header, and lets only one value of it through.
ASSUME CgiAssumption ==
    /\ \A r \in Requests :
        /\ r.length \in Nat
        /\ r.headers \in Seq({r.headers[i] : i \in DOMAIN r.headers})
        /\ \A i \in DOMAIN r.headers : r.headers[i][1] \in DOMAIN EnvName
        /\ r.framing = "length" =>
               \E i \in DOMAIN r.headers :
                   /\ r.headers[i][1] = "content_length" /\ r.headers[i][2] = r.length
                   /\ \A j \in 1..(i - 1) : r.headers[j][1] # "content_length"
    /\ GuestLines \subseteq Line \cup {NotUtf8}

VARIABLES
    pc,         \* "lookup", "body", "module", "guest", "output", "done", "dropped"
    request,    \* the request, but for its path
    vars,       \* `vars`: the pairs of the guest's environment, in order
    stdin,      \* bytes of the body waiting in the guest's stdin
    consumed,   \* bytes the guest has read from it
    stdout,     \* the lines the guest has printed
    response    \* [status, headers, body], or Null

runVars == <<stdin, consumed, stdout>>
cgiVars == <<lookupVars, pc, request, vars, stdin, consumed, stdout, response>>

\* Mutation: the slash in front of SCRIPT_NAME is left out.
ScriptVarsNoSlash ==
    IF lookup = "found"
    THEN <<<<"PATH_INFO", Rest(cut)>>,
           <<"PATH_TRANSLATED", <<"cwd">> \o Rest(cut)>>,
           <<"SCRIPT_NAME", Name(cut)>>>>
    ELSE <<>>

\* What the guest is told of the path; nothing if no script was found.
ScriptVars ==
    IF lookup = "found"
    THEN <<<<"PATH_INFO", Rest(cut)>>,
           <<"PATH_TRANSLATED", <<"cwd">> \o Rest(cut)>>,
           <<"SCRIPT_NAME", <<Slash>> \o Name(cut)>>>>
    ELSE <<>>

\* The environment of the guest.  The variables about the server, the protocol
\* version and the query string are left out: no step looks at them.
GatewayVars ==
    <<<<"REQUEST_METHOD", request.method>>>>
    \o ScriptVars
    \o [i \in DOMAIN request.headers |->
           <<EnvName[request.headers[i][1]], request.headers[i][2]>>]

\* The guest's `getenv`: the first pair with that name.
Getenv(name) ==
    IF \E i \in DOMAIN vars : vars[i][1] = name
    THEN LET i == CHOOSE i \in DOMAIN vars :
                      vars[i][1] = name /\ \A j \in 1..(i - 1) : vars[j][1] # name
         IN  vars[i][2]
    ELSE Null

CgiTypeOK ==
    /\ LookupTypeOK
    /\ pc \in {"lookup", "body", "module", "guest", "output", "done", "dropped"}
    /\ request \in Requests
    /\ stdin \in Nat /\ consumed \in Nat
    /\ stdin + consumed <= request.length
    /\ stdout \in Seq(Line \cup {NotUtf8})
    /\ response # Null => response.status \in Codes /\ response.body \in Seq(Line)
-----------------------------------------------------------------------------
CgiInit ==
    /\ LookupInit
    /\ pc = "lookup"
    /\ request \in Requests
    /\ vars = <<>>
    /\ stdin = 0
    /\ consumed = 0
    /\ stdout = <<>>
    /\ response = Null

\* The loop over the path's splits.
Search ==
    /\ pc = "lookup"
    /\ LookupStep
    /\ UNCHANGED <<pc, request, vars, runVars, response>>

\* The variables are put together, whether a script was found or not.
BuildVars ==
    /\ pc = "lookup"
    /\ lookup # "searching"
    /\ \A i \in DOMAIN request.headers : request.headers[i][2] # Opaque
    /\ vars' = GatewayVars
    /\ pc' = "body"
    /\ UNCHANGED <<lookupVars, request, runVars, response>>

Panic(at) ==
    /\ pc = at
    /\ pc' = "dropped"
    /\ UNCHANGED <<lookupVars, request, vars, runVars, response>>

\* `value.to_str().unwrap()` on a header that is not visible ASCII, or
\* `env::current_dir().unwrap()` in a directory that is gone.
BuildVarsPanics ==
    /\ lookup # "searching"
    /\ lookup = "found" \/ \E i \in DOMAIN request.headers : request.headers[i][2] = Opaque
    /\ Panic("lookup")

\* `data().await`: the first chunk of the body, of n bytes, is all the handler
\* ever asks for; no chunk at all is an empty body.
FirstChunk(n) ==
    /\ pc = "body"
    /\ IF request.length = 0 THEN n = 0 ELSE n \in 1..request.length
    /\ stdin' = n
    /\ pc' = "module"
    /\ UNCHANGED <<lookupVars, request, vars, consumed, stdout, response>>

\* The body ends in an error, or the client goes away while the handler waits.
BodyFails == Panic("body")

\* `self.module()?` makes a module of a whole script (see ModuleCache); then the
\* WASI environment, the instance and `_start` are there.
StartGuest ==
    /\ pc = "module"
    /\ \E f \in Files : wasm = Content(f, NumBlocks)
    /\ pc' = "guest"
    /\ UNCHANGED <<lookupVars, request, vars, runVars, response>>

\* Any of the `?` of `run_cgi` before the call of `_start`: the bytes are no
\* module (nothing was found, or a read failed), the cache fails, an import or
\* the entry point is missing.
StartFails == Panic("module")

\* The guest reads up to n bytes of its stdin, which is at its end once the
\* first chunk is used up.
GuestReads(n) ==
    LET got == IF n < stdin THEN n ELSE stdin IN
    /\ pc = "guest"
    /\ stdin' = stdin - got
    /\ consumed' = consumed + got
    /\ UNCHANGED <<lookupVars, pc, request, vars, stdout, response>>

GuestPrints(line) ==
    /\ pc = "guest"
    /\ Len(stdout) < MaxOut
    /\ stdout' = Append(stdout, line)
    /\ UNCHANGED <<lookupVars, pc, request, vars, stdin, consumed, response>>

\* `run.call()?` is Ok only if `_start` returns.
GuestReturns ==
    /\ pc = "guest"
    /\ pc' = "output"
    /\ UNCHANGED <<lookupVars, request, vars, runVars, response>>

\* A trap, or `proc_exit` with any code, zero included: `run.call()` is Err.
GuestFails == Panic("guest")

\* What `from_str` (CgiResponse) makes of the output p.
Reading(p, s, h, b) ==
    \/ /\ \A e \in 1..Len(p) : ~SplitsAt(p, e)
       /\ s = Ok /\ h = NoHeaders /\ b = p
    \/ \E e \in 1..Len(p) :
        /\ SplitsAt(p, e)
        /\ \A i \in 1..e : ~Panics(p[i])
        /\ SetsStatus(p, e, s)
        /\ \A n \in Names : SetsHeader(p, e, n, h[n])
        /\ b = SubSeq(p, e + 2, Len(p))

Bodies(p) == {SubSeq(p, i, Len(p)) : i \in 1..(Len(p) + 1)}

\* `read_to_string` and `buf.parse()`, then the response.
Respond ==
    /\ pc = "output"
    /\ \A i \in DOMAIN stdout : stdout[i] # NotUtf8
    /\ \E s \in Codes, h \in [Names -> Values \cup {Absent}], b \in Bodies(stdout) :
        /\ Reading(stdout, s, h, b)
        /\ response' = [status |-> s, headers |-> h, body |-> b]
    /\ pc' = "done"
    /\ UNCHANGED <<lookupVars, request, vars, runVars>>

\* The output is not UTF-8, or the parser panics on a line of its header.
OutputPanics ==
    /\ \/ \E i \in DOMAIN stdout : stdout[i] = NotUtf8
       \/ \E e \in DOMAIN stdout :
             SplitsAt(stdout, e) /\ \E i \in 1..e : Panics(stdout[i])
    /\ Panic("output")

HostNext ==
    \/ Search \/ BuildVars \/ BuildVarsPanics
    \/ \E n \in 0..request.length : FirstChunk(n)
    \/ BodyFails \/ StartGuest \/ StartFails \/ Respond \/ OutputPanics

GuestNext ==
    \/ \E n \in 1..MaxRead : GuestReads(n)
    \/ \E line \in GuestLines : GuestPrints(line)
    \/ GuestReturns \/ GuestFails

CgiNext == HostNext \/ GuestNext

CgiSpec == CgiInit /\ [][CgiNext]_cgiVars
-----------------------------------------------------------------------------
(***************************************************************************)
(* A guest that runs is told the truth about its request: the script was   *)
(* found, it is the script that runs, SCRIPT_NAME and PATH_INFO make up    *)
(* the request path, and no header of the request hides a variable.  When  *)
(* no script was found the handler goes on all the same; that the guest    *)
(* then does not start rests on what is left in the buffer.                *)
(***************************************************************************)
GuestSeesItsRequest ==
    pc = "guest" =>
        /\ lookup = "found"
        /\ wasm = Content(Candidate, NumBlocks)
        /\ Getenv("SCRIPT_NAME") \o Getenv("PATH_INFO") = target
        /\ Getenv("REQUEST_METHOD") = request.method
        /\ request.framing = "length" => Getenv("CONTENT_LENGTH") = request.length

(***************************************************************************)
(* The inductive invariant behind it, which the guest's steps cannot       *)
(* disturb: from the body on the variables are those of the request, and a *)
(* guest runs only after its script was found.                             *)
(***************************************************************************)
RequestInv ==
    /\ LookupInv
    /\ request \in Requests
    /\ pc \in {"lookup", "body", "module", "guest", "output", "done", "dropped"}
    /\ pc \in {"body", "module", "guest", "output", "done"} =>
           lookup # "searching" /\ vars = GatewayVars
    /\ pc \in {"guest", "output", "done"} => lookup = "found"

\* ... and that of the types: the guest has read nothing before it runs.
CgiInv ==
    /\ RequestInv
    /\ CgiTypeOK
    /\ pc \in {"lookup", "body", "module"} => consumed = 0
=============================================================================
