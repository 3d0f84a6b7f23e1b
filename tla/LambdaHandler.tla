--------------------------- MODULE LambdaHandler ---------------------------
(***************************************************************************)
(* One request in lambda mode: `lambda::handler` of src/lambda.rs and      *)
(* `App::run_lamba` of src/wasm.rs, with a guest that sends the host as    *)
(* many responses as it likes.  The host functions `event` and             *)
(* `event_size` only read the event; JsLambda has a guest that calls them. *)
(*                                                                         *)
(* As in CGI mode, a panic or an error ends in pc = "dropped": the client  *)
(* gets no response and the connection is closed.                          *)
(***************************************************************************)
EXTENDS ScriptLookup

CONSTANTS Requests,   \* records: visible, query, length and utf8
          Escaped,    \* a query key with an escape in it
          Overhead,   \* bytes of the event's JSON besides the body
          Good,       \* responses that parse and convert
          Broken,     \* responses that parse but make the conversion panic
          Junk,       \* anything else a guest may send
          None,       \* no event, no response
          MaxSends    \* bound on the responses a guest sends

ASSUME LambdaAssumption ==
    /\ Overhead \in Nat
    /\ \A r \in Requests :
           r.length \in Nat /\ r.query \in Seq({r.query[i] : i \in DOMAIN r.query})
    /\ Good \cap Broken = {} /\ (Good \cup Broken) \cap Junk = {}
    /\ None \notin Good \cup Broken \cup Junk

VARIABLES
    pc,        \* "lookup", "body", "module", "guest", "convert", "done", "dropped"
    request,   \* the request, but for its path
    received,  \* bytes of the body `to_bytes` has collected
    event,     \* state.request: the event, or None
    response,  \* state.response
    answer,    \* what the client gets, or None
    sent       \* history: the buffers passed to `send_response`

lambdaVars == <<lookupVars, pc, request, received, event, response, answer, sent>>

Accepted == Good \cup Broken

Keys(query) == {query[i][1] : i \in DOMAIN query}

\* `entry(key).or_insert_with(|| vec![value])`: of several values of a key the
\* first stays, and the others are dropped.
Parameters(query) ==
    [k \in Keys(query) |->
        LET i == CHOOSE i \in DOMAIN query :
                     query[i][1] = k /\ \A j \in DOMAIN query : query[j][1] = k => i <= j
        IN  query[i][2]]

\* The length of the body in the event: base64 unless it is UTF-8.
Encoded(n, utf8) == IF utf8 THEN n ELSE 4 * ((n + 2) \div 3)

\* `LambdaRequest::from` and its JSON, of a body of n bytes.
EventOf(n) ==
    [params |-> Parameters(request.query),
     body   |-> n,
     base64 |-> ~request.utf8,
     size   |-> Overhead + Encoded(n, request.utf8)]

LambdaTypeOK ==
    /\ LookupTypeOK
    /\ pc \in {"lookup", "body", "module", "guest", "convert", "done", "dropped"}
    /\ request \in Requests
    /\ received \in 0..request.length
    /\ event # None => event.size \in Nat
    /\ response \in Accepted \cup {None}
    /\ answer \in Good \cup {None}
    /\ sent \in Seq(Accepted \cup Junk)
-----------------------------------------------------------------------------
LambdaInit ==
    /\ LookupInit
    /\ pc = "lookup"
    /\ request \in Requests
    /\ received = 0
    /\ event = None
    /\ response = None
    /\ answer = None
    /\ sent = <<>>

\* The loop over the path's splits.
Search ==
    /\ pc = "lookup"
    /\ LookupStep
    /\ UNCHANGED <<pc, request, received, event, response, answer, sent>>

Goto(from, to) ==
    /\ pc = from
    /\ pc' = to
    /\ UNCHANGED <<lookupVars, request, received, event, response, answer, sent>>

Panic(at) == Goto(at, "dropped")

\* The script is found: `last_err` is None.
Found == lookup = "found" /\ Goto("lookup", "body")

\* `last_err` is that of the last candidate: the handler panics.
NotFound == lookup = "missing" /\ Panic("lookup")

\* `to_bytes` collects the body chunk by chunk.
Chunk(n) ==
    /\ pc = "body"
    /\ received + n <= request.length
    /\ received' = received + n
    /\ UNCHANGED <<lookupVars, pc, request, event, response, answer, sent>>

\* The body fails, or the client goes away.
BodyFails == Panic("body")

\* Mutation: the first chunk is taken for the body.
BuildEventEarly ==
    /\ pc = "body"
    /\ request.visible /\ Escaped \notin Keys(request.query)
    /\ event' = EventOf(received)
    /\ pc' = "module"
    /\ UNCHANGED <<lookupVars, request, received, response, answer, sent>>

\* The body is complete; the event is built and serialized.
BuildEvent ==
    /\ pc = "body"
    /\ received = request.length
    /\ request.visible /\ Escaped \notin Keys(request.query)
    /\ event' = EventOf(received)
    /\ pc' = "module"
    /\ UNCHANGED <<lookupVars, request, received, response, answer, sent>>

\* `values.unwrap()` on a header that is not visible ASCII; or the `unwrap` of
\* `serde_urlencoded::from_str`, which has no `&str` for a key it must decode.
BuildEventPanics ==
    /\ received = request.length
    /\ ~request.visible \/ Escaped \in Keys(request.query)
    /\ Panic("body")

\* `self.module()?` and the rest of `run_lamba` up to the call of `_start`.
StartGuest ==
    /\ \E f \in Files : wasm = Content(f, NumBlocks)
    /\ Goto("module", "guest")

\* Any of the `?` before the call.
StartFails == Panic("module")

\* Mutation: the first response stays.
SendResponseFirst(p) ==
    /\ pc = "guest"
    /\ Len(sent) < MaxSends
    /\ sent' = Append(sent, p)
    /\ response' = IF p \in Accepted /\ response = None THEN p ELSE response
    /\ UNCHANGED <<lookupVars, pc, request, received, event, answer>>

\* `send_response`: a buffer that parses replaces the response and the guest
\* gets 0; of any other it gets -1, and an earlier response stays.
SendResponse(p) ==
    /\ pc = "guest"
    /\ Len(sent) < MaxSends
    /\ sent' = Append(sent, p)
    /\ response' = IF p \in Accepted THEN p ELSE response
    /\ UNCHANGED <<lookupVars, pc, request, received, event, answer>>

\* `start.call()?` is Ok: the response is taken out of the state.
GuestReturns == Goto("guest", "convert")

\* A trap, an exit code, or a panic of a host function (a buffer that is not in
\* the guest's memory): a response that was sent is lost.
GuestFails == Panic("guest")

\* `response.unwrap()` and the conversion to the HTTP response.
Answer ==
    /\ pc = "convert"
    /\ response \in Good
    /\ answer' = response
    /\ pc' = "done"
    /\ UNCHANGED <<lookupVars, request, received, event, response, sent>>

\* There is no response; or its status, a header or its base64 is refused.
AnswerPanics == response \notin Good /\ Panic("convert")

LambdaHostNext ==
    \/ Search \/ Found \/ NotFound
    \/ \E n \in 1..request.length : Chunk(n)
    \/ BodyFails \/ BuildEvent \/ BuildEventPanics
    \/ StartGuest \/ StartFails \/ Answer \/ AnswerPanics

LambdaNext ==
    \/ LambdaHostNext
    \/ \E p \in Accepted \cup Junk : SendResponse(p)
    \/ GuestReturns \/ GuestFails

LambdaSpec == LambdaInit /\ [][LambdaNext]_lambdaVars
-----------------------------------------------------------------------------
(***************************************************************************)
(* The client gets the last response the host accepted from the guest:     *)
(* buffers that did not parse, before it or after it, change nothing; and  *)
(* if the host accepted none, no answer is made up.                        *)
(***************************************************************************)
AnswerIsLastAccepted ==
    pc = "done" =>
        \E i \in DOMAIN sent :
            /\ sent[i] = answer
            /\ \A j \in (i + 1)..Len(sent) : sent[j] \in Junk

(***************************************************************************)
(* A guest of lambda mode runs only if its script was found, and gets the  *)
(* whole request: the body to its last byte, in however many chunks it     *)
(* came, and for each key of the query the value that came first.          *)
(***************************************************************************)
GuestGetsWholeRequest ==
    pc = "guest" =>
        /\ lookup = "found" /\ wasm = Content(Candidate, NumBlocks)
        /\ event.body = request.length
        /\ \A i \in DOMAIN request.query :
               (\A j \in 1..(i - 1) : request.query[j][1] # request.query[i][1])
                   => event.params[request.query[i][1]] = request.query[i][2]

\* state.response is the last response the host accepted, if there is one.
KeepsLastAccepted ==
    IF response = None
    THEN \A i \in DOMAIN sent : sent[i] \in Junk
    ELSE \E i \in DOMAIN sent :
             sent[i] = response /\ \A j \in (i + 1)..Len(sent) : sent[j] \in Junk

(***************************************************************************)
(* The inductive invariant: the handler goes on only with a script it      *)
(* found; from the module on the event is that of the whole body; and the  *)
(* response is the last one accepted.                                      *)
(***************************************************************************)
LambdaInv ==
    /\ LookupInv
    /\ LambdaTypeOK
    /\ pc \in {"body", "module", "guest", "convert", "done"} => lookup = "found"
    /\ pc \in {"module", "guest", "convert", "done"} => event = EventOf(request.length)
    /\ KeepsLastAccepted
    /\ pc = "done" => answer = response /\ response # None
=============================================================================
