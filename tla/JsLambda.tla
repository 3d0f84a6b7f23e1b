------------------------------ MODULE JsLambda ------------------------------
(***************************************************************************)
(* The lambda handler with the JavaScript guest: main of jsl.c, the        *)
(* bindings of quickjs-lambda.c and bootstrap.js, which calls the user's   *)
(* handler once.  The event is assumed to fit the guest's memory.          *)
(***************************************************************************)
EXTENDS LambdaHandler

CONSTANT Word   \* 2^32: the values of uint32_t

ASSUME WordAssumption == Word \in Nat \ {0, 1}

VARIABLES
    at,      \* bootstrap.js: "next", "handler" or "end"
    bufLen,  \* event_buf_len
    nbytes   \* bytes of the event that are parsed; None if nextEvent gives no event

jsVars == <<lambdaVars, at, bufLen, nbytes>>

JsInit == LambdaInit /\ at = "next" /\ bufLen = 0 /\ nbytes = None

Host == LambdaHostNext /\ UNCHANGED <<at, bufLen, nbytes>>

\* Mutation: no room for the terminator.
BufferLengthBare(size) == size % Word

\* Mutation: the length is kept in an int32_t, and one that is not positive gives
\* no event.
BufferLengthSigned(size) == IF 2 * (size + 1) < Word THEN size + 1 ELSE 0

\* `lambda_event_size() + 1`, in 32 bits
BufferLength(size) == (size + 1) % Word

\* `event`: as much of the event as the buffer takes.
Copied(len) == IF len < event.size THEN len ELSE event.size

\* `nextEvent`; the buffer only grows.
NextEvent ==
    LET len == BufferLength(event.size) IN
    /\ pc = "guest" /\ at = "next"
    /\ event.size < Word
    /\ len # 0
    /\ bufLen' = IF len > bufLen THEN len ELSE bufLen
    /\ nbytes' = Copied(bufLen')
    /\ at' = "handler"
    /\ UNCHANGED lambdaVars

\* `if (!len)`: the length has wrapped around, and nextEvent gives no event.
NextEventNull ==
    /\ pc = "guest" /\ at = "next"
    /\ event.size < Word
    /\ BufferLength(event.size) = 0
    /\ at' = "handler"
    /\ UNCHANGED <<lambdaVars, bufLen, nbytes>>

\* `try_into().unwrap()` of `event_size`: the size is no u32.
EventSizePanics ==
    /\ at = "next"
    /\ event # None /\ event.size >= Word
    /\ GuestFails
    /\ UNCHANGED <<at, bufLen, nbytes>>

\* An exception, in the import of the user's module or in its handler: main
\* returns -1, which libc turns into `proc_exit`.
Throws ==
    /\ at \in {"next", "handler"}
    /\ GuestFails
    /\ UNCHANGED <<at, bufLen, nbytes>>

\* `sendResponse(handler(event))`; what `lambda_send_response` returns is not
\* looked at.
Send(p) ==
    /\ at = "handler"
    /\ SendResponse(p)
    /\ at' = "end"
    /\ UNCHANGED <<bufLen, nbytes>>

\* main returns 0.
Returns ==
    /\ at = "end"
    /\ GuestReturns
    /\ UNCHANGED <<at, bufLen, nbytes>>

JsNext ==
    \/ Host
    \/ NextEvent \/ NextEventNull \/ EventSizePanics \/ Throws
    \/ (\E p \in Accepted \cup Junk : Send(p)) \/ Returns

JsSpec == JsInit /\ [][JsNext]_jsVars
-----------------------------------------------------------------------------
(***************************************************************************)
(* `JS_ParseJSON` gets the event whole and with a zero byte behind it, as  *)
(* it requires, or it is not called: no size at the edge of 32 bits cuts   *)
(* the event short.                                                        *)
(***************************************************************************)
EventWholeAndTerminated ==
    nbytes # None => nbytes = event.size /\ nbytes < bufLen

(***************************************************************************)
(* An answer of the JavaScript guest comes from a handler that was given   *)
(* the event, for every event whose size leaves room for the terminator in *)
(* 32 bits, and is what that handler returned.                             *)
(***************************************************************************)
AnswerComesFromHandler ==
    pc = "done" =>
        /\ sent = <<answer>>
        /\ event.size + 1 < Word => nbytes = event.size

(***************************************************************************)
(* The inductive invariant: bootstrap.js asks for the event only once the  *)
(* guest runs, sends one response after it, and then returns; and the      *)
(* buffer was made for this event.                                         *)
(***************************************************************************)
JsLambdaInv ==
    /\ LambdaInv
    /\ at \in {"next", "handler", "end"}
    /\ pc \in {"lookup", "body", "module"} => at = "next"
    /\ at = "next" => bufLen = 0 /\ nbytes = None
    /\ at # "end" => sent = <<>>
    /\ at = "end" => Len(sent) = 1
    /\ at \in {"handler", "end"} => event = EventOf(request.length)
    /\ at \in {"handler", "end"} /\ event.size + 1 < Word => nbytes = event.size
    /\ pc \in {"convert", "done"} => at = "end"
    /\ EventWholeAndTerminated
=============================================================================
