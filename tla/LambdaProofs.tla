---------------------------- MODULE LambdaProofs ----------------------------
(***************************************************************************)
(* Lambda mode, for every request, every file tree and every guest, and    *)
(* the JavaScript guest for events of every size.                          *)
(***************************************************************************)
EXTENDS JsLambda, ScriptLookupProofs

(***************************************************************************)
(* The size of an event is a number.                                       *)
(***************************************************************************)
LEMMA EventSize == ASSUME request \in Requests PROVE EventOf(request.length).size \in Nat
<1>1. request.length \in Nat /\ Overhead \in Nat
  BY LambdaAssumption
<1>2. Encoded(request.length, request.utf8) \in Nat
  <2>1. 4 * ((request.length + 2) \div 3) \in Nat
    BY <1>1
  <2> QED
    BY <1>1, <2>1 DEF Encoded
<1>3. EventOf(request.length).size = Overhead + Encoded(request.length, request.utf8)
  BY DEF EventOf
<1> QED
  BY <1>1, <1>2, <1>3

(***************************************************************************)
(* The invariant holds when the handler is called.                         *)
(***************************************************************************)
LEMMA LambdaInitially == LambdaInit => LambdaInv
<1> SUFFICES ASSUME LambdaInit PROVE LambdaInv
  OBVIOUS
<1>1. LookupInv /\ LookupTypeOK
  BY LookupInitial DEF LambdaInit, LookupInv
<1>2. 0 \in 0..request.length
  <2>1. request.length \in Nat
    BY LambdaAssumption DEF LambdaInit
  <2> QED
    BY <2>1
<1>3. <<>> \in Seq(Accepted \cup Junk)
  BY EmptySeq
<1>4. LambdaTypeOK
  BY <1>1, <1>2, <1>3 DEF LambdaInit, LambdaTypeOK
<1> QED
  BY <1>1, <1>4 DEF LambdaInit, LambdaInv, KeepsLastAccepted

(***************************************************************************)
(* A response that parses becomes the last accepted one; junk changes      *)
(* nothing.                                                                *)
(***************************************************************************)
LEMMA SendKeepsLast ==
    ASSUME sent \in Seq(Accepted \cup Junk), KeepsLastAccepted, NEW p \in Accepted \cup Junk,
           sent' = Append(sent, p), response' = IF p \in Accepted THEN p ELSE response
    PROVE  KeepsLastAccepted'
<1>1. /\ Len(sent) \in Nat /\ Len(sent') = Len(sent) + 1
      /\ DOMAIN sent = 1..Len(sent) /\ DOMAIN sent' = 1..(Len(sent) + 1)
      /\ \A i \in 1..Len(sent) : sent'[i] = sent[i]
      /\ sent'[Len(sent) + 1] = p
  BY AppendProperties
<1>2. CASE p \in Accepted
  <2>1. response' = p /\ response' # None
    BY <1>2, LambdaAssumption DEF Accepted
  <2>2. Len(sent) + 1 \in DOMAIN sent' /\ \A j \in ((Len(sent) + 1) + 1)..Len(sent') : FALSE
    BY <1>1
  <2> QED
    BY <1>1, <2>1, <2>2 DEF KeepsLastAccepted
<1>3. CASE p \notin Accepted
  <2>1. response' = response /\ p \in Junk
    BY <1>3
  <2>2. \A i \in DOMAIN sent' : i \in DOMAIN sent \/ i = Len(sent) + 1
    BY <1>1
  <2>3. CASE response = None
    BY <1>1, <2>1, <2>2, <2>3 DEF KeepsLastAccepted
  <2>4. CASE response # None
    <3>1. PICK i \in DOMAIN sent :
              sent[i] = response /\ \A j \in (i + 1)..Len(sent) : sent[j] \in Junk
      BY <2>4 DEF KeepsLastAccepted
    <3>2. i \in DOMAIN sent' /\ sent'[i] = response'
      BY <1>1, <2>1, <3>1
    <3>3. ASSUME NEW j \in (i + 1)..Len(sent') PROVE sent'[j] \in Junk
      <4>1. CASE j = Len(sent) + 1
        BY <1>1, <2>1, <4>1
      <4>2. CASE j # Len(sent) + 1
        <5>1. j \in (i + 1)..Len(sent) /\ j \in 1..Len(sent)
          BY <1>1, <4>2
        <5> QED
          BY <1>1, <3>1, <5>1
      <4> QED
        BY <4>1, <4>2
    <3> QED
      BY <2>1, <2>4, <3>2, <3>3 DEF KeepsLastAccepted
  <2> QED
    BY <2>3, <2>4
<1> QED
  BY <1>2, <1>3

(***************************************************************************)
(* Every step of the handler and of any guest preserves the invariant.     *)
(***************************************************************************)
LEMMA LambdaPreserved == LambdaInv /\ [LambdaNext]_lambdaVars => LambdaInv'
<1> SUFFICES ASSUME LambdaInv, [LambdaNext]_lambdaVars PROVE LambdaInv'
  OBVIOUS
<1>0. LookupInv /\ LambdaTypeOK /\ request \in Requests /\ request.length \in Nat
  BY LambdaAssumption DEF LambdaInv, LambdaTypeOK
<1>1. ASSUME UNCHANGED lookupVars PROVE LookupInv' /\ LookupTypeOK' /\ lookup' = lookup
  BY <1>0, <1>1, LookupPreserved DEF LookupInv, lookupVars
<1>2. ASSUME request' = request PROVE \A n : EventOf(n)' = EventOf(n)
  BY <1>2 DEF EventOf, Parameters, Keys, Encoded
<1>3. ASSUME NEW from, NEW to, Goto(from, to),
             to = "body" => lookup = "found",
             to \in {"guest", "convert"} => from \in {"module", "guest"},
             to \in {"body", "guest", "convert", "dropped"}
      PROVE  LambdaInv'
  <2>1. /\ UNCHANGED lookupVars /\ pc = from /\ pc' = to
        /\ UNCHANGED <<request, received, event, response, answer, sent>>
    BY <1>3 DEF Goto
  <2>2. LookupInv' /\ LookupTypeOK' /\ lookup' = lookup /\ \A n : EventOf(n)' = EventOf(n)
    BY <1>1, <1>2, <2>1
  <2>3. LambdaTypeOK'
    BY <1>3, <2>1, <2>2 DEF LambdaInv, LambdaTypeOK
  <2>4. EventOf(request.length)' = EventOf(request.length)
    BY <2>1, <2>2 DEF EventOf, Parameters, Keys, Encoded
  <2>5. KeepsLastAccepted'
    BY <2>1 DEF LambdaInv, KeepsLastAccepted
  <2> QED
    BY <1>3, <2>1, <2>2, <2>3, <2>4, <2>5 DEF LambdaInv
<1>4. CASE Search
  <2>1. LookupInv' /\ LookupTypeOK'
    BY <1>0, <1>4, LookupPreserved DEF Search, LookupInv
  <2>2. pc = "lookup" /\ UNCHANGED <<pc, request, received, event, response, answer, sent>>
    BY <1>4 DEF Search
  <2>3. LambdaTypeOK' /\ KeepsLastAccepted'
    BY <2>1, <2>2 DEF LambdaInv, LambdaTypeOK, KeepsLastAccepted
  <2> QED
    BY <2>1, <2>2, <2>3 DEF LambdaInv
<1>5. CASE Found
  BY <1>3, <1>5 DEF Found
<1>6. CASE NotFound
  BY <1>3, <1>6 DEF NotFound, Panic
<1>7. ASSUME NEW n \in 1..request.length, Chunk(n) PROVE LambdaInv'
  <2>1. /\ UNCHANGED lookupVars /\ pc = "body" /\ received' = received + n
        /\ received + n <= request.length
        /\ UNCHANGED <<pc, request, event, response, answer, sent>>
    BY <1>7 DEF Chunk
  <2>2. received' \in 0..request.length
    BY <1>0, <2>1 DEF LambdaTypeOK
  <2>3. LookupInv' /\ LookupTypeOK' /\ lookup' = lookup
    BY <1>1, <2>1
  <2>4. LambdaTypeOK' /\ KeepsLastAccepted'
    BY <2>1, <2>2, <2>3 DEF LambdaInv, LambdaTypeOK, KeepsLastAccepted
  <2> QED
    BY <2>1, <2>3, <2>4 DEF LambdaInv
<1>8. CASE BodyFails
  BY <1>3, <1>8 DEF BodyFails, Panic
<1>9. CASE BuildEvent
  <2>1. /\ UNCHANGED lookupVars /\ pc = "body" /\ pc' = "module" /\ received = request.length
        /\ event' = EventOf(request.length)
        /\ UNCHANGED <<request, received, response, answer, sent>>
    BY <1>9 DEF BuildEvent
  <2>2. LookupInv' /\ LookupTypeOK' /\ lookup' = lookup
    BY <1>1, <2>1
  <2>3. event' = EventOf(request.length)' /\ event'.size \in Nat
    BY <1>0, <2>1, EventSize DEF EventOf, Parameters, Keys, Encoded
  <2>4. LambdaTypeOK' /\ KeepsLastAccepted'
    BY <2>1, <2>2, <2>3 DEF LambdaInv, LambdaTypeOK, KeepsLastAccepted
  <2> QED
    BY <2>1, <2>2, <2>3, <2>4 DEF LambdaInv
<1>10. CASE BuildEventPanics
  BY <1>3, <1>10 DEF BuildEventPanics, Panic
<1>11. CASE StartGuest
  BY <1>3, <1>11 DEF StartGuest
<1>12. CASE StartFails
  BY <1>3, <1>12 DEF StartFails, Panic
<1>13. CASE Answer
  <2>1. /\ UNCHANGED lookupVars /\ pc = "convert" /\ pc' = "done"
        /\ response \in Good /\ answer' = response
        /\ UNCHANGED <<request, received, event, response, sent>>
    BY <1>13 DEF Answer
  <2>2. LookupInv' /\ LookupTypeOK' /\ lookup' = lookup
    BY <1>1, <2>1
  <2>3. EventOf(request.length)' = EventOf(request.length)
    BY <2>1 DEF EventOf, Parameters, Keys, Encoded
  <2>4. LambdaTypeOK' /\ KeepsLastAccepted'
    BY <2>1, <2>2 DEF LambdaInv, LambdaTypeOK, KeepsLastAccepted
  <2>5. response # None
    BY <2>1, LambdaAssumption
  <2> QED
    BY <2>1, <2>2, <2>3, <2>4, <2>5 DEF LambdaInv
<1>14. CASE AnswerPanics
  BY <1>3, <1>14 DEF AnswerPanics, Panic
<1>15. ASSUME NEW p \in Accepted \cup Junk, SendResponse(p) PROVE LambdaInv'
  <2>1. /\ UNCHANGED lookupVars /\ pc = "guest"
        /\ sent' = Append(sent, p) /\ response' = IF p \in Accepted THEN p ELSE response
        /\ UNCHANGED <<pc, request, received, event, answer>>
    BY <1>15 DEF SendResponse
  <2>2. LookupInv' /\ LookupTypeOK' /\ lookup' = lookup
    BY <1>1, <2>1
  <2>3. EventOf(request.length)' = EventOf(request.length)
    BY <2>1 DEF EventOf, Parameters, Keys, Encoded
  <2>4. sent' \in Seq(Accepted \cup Junk) /\ response' \in Accepted \cup {None}
    BY <2>1 DEF LambdaInv, LambdaTypeOK
  <2>5. KeepsLastAccepted'
    BY <2>1, SendKeepsLast DEF LambdaInv, LambdaTypeOK
  <2>6. LambdaTypeOK'
    BY <2>1, <2>2, <2>4 DEF LambdaInv, LambdaTypeOK
  <2> QED
    BY <2>1, <2>2, <2>3, <2>5, <2>6 DEF LambdaInv
<1>16. CASE GuestReturns
  BY <1>3, <1>16 DEF GuestReturns
<1>17. CASE GuestFails
  BY <1>3, <1>17 DEF GuestFails, Panic
<1>18. CASE UNCHANGED lambdaVars
  <2>1. /\ UNCHANGED lookupVars
        /\ UNCHANGED <<pc, request, received, event, response, answer, sent>>
    BY <1>18 DEF lambdaVars
  <2>2. LookupInv' /\ LookupTypeOK' /\ lookup' = lookup
    BY <1>1, <2>1
  <2>3. EventOf(request.length)' = EventOf(request.length)
    BY <2>1 DEF EventOf, Parameters, Keys, Encoded
  <2>4. LambdaTypeOK' /\ KeepsLastAccepted'
    BY <2>1, <2>2 DEF LambdaInv, LambdaTypeOK, KeepsLastAccepted
  <2> QED
    BY <2>1, <2>2, <2>3, <2>4 DEF LambdaInv
<1> QED
  BY <1>4, <1>5, <1>6, <1>7, <1>8, <1>9, <1>10, <1>11, <1>12, <1>13, <1>14, <1>15, <1>16, <1>17, <1>18
     DEF LambdaNext, LambdaHostNext

(***************************************************************************)
(* The invariant holds throughout a request.                               *)
(***************************************************************************)
THEOREM LambdaInvariant == LambdaSpec => []LambdaInv
  BY LambdaInitially, LambdaPreserved, PTL DEF LambdaSpec

(***************************************************************************)
(* Whatever a guest sends and however often, its client gets the last      *)
(* response that `send_response` accepted, or none.                        *)
(***************************************************************************)
THEOREM LastAcceptedIsAnswered == LambdaSpec => []AnswerIsLastAccepted
<1>1. LambdaInv => AnswerIsLastAccepted
  BY DEF LambdaInv, KeepsLastAccepted, AnswerIsLastAccepted
<1> QED
  BY <1>1, LambdaInvariant, PTL

(***************************************************************************)
(* Of the values of a key the event has the first.                         *)
(***************************************************************************)
LEMMA FirstValueStays ==
    ASSUME NEW q, q \in Seq({q[i] : i \in DOMAIN q}), NEW i \in DOMAIN q,
           \A j \in 1..(i - 1) : q[j][1] # q[i][1]
    PROVE  Parameters(q)[q[i][1]] = q[i][2]
<1> DEFINE k == q[i][1]
           First(n) == q[n][1] = k /\ \A j \in DOMAIN q : q[j][1] = k => n <= j
<1>1. DOMAIN q = 1..Len(q) /\ Len(q) \in Nat
  OBVIOUS
<1>2. First(i)
  <2>1. ASSUME NEW j \in DOMAIN q, q[j][1] = k PROVE i <= j
    <3>1. j \notin 1..(i - 1)
      BY <2>1
    <3> QED
      BY <1>1, <3>1
  <2> QED
    BY <2>1
<1>3. \A n \in DOMAIN q : First(n) => n = i
  <2> SUFFICES ASSUME NEW n \in DOMAIN q, First(n) PROVE n = i
    OBVIOUS
  <2>1. n <= i /\ i <= n
    BY <1>2
  <2> QED
    BY <1>1, <2>1
<1>4. (CHOOSE n \in DOMAIN q : First(n)) = i
  BY <1>2, <1>3
<1>5. k \in Keys(q)
  BY DEF Keys
<1> QED
  BY <1>4, <1>5 DEF Parameters

(***************************************************************************)
(* For bodies of any length in any chunks, and every query string, a guest *)
(* of lambda mode gets the whole request.                                  *)
(***************************************************************************)
THEOREM EveryGuestGetsWholeRequest == LambdaSpec => []GuestGetsWholeRequest
<1>1. LambdaInv => GuestGetsWholeRequest
  <2> SUFFICES ASSUME LambdaInv, pc = "guest"
               PROVE  /\ lookup = "found" /\ wasm = Content(Candidate, NumBlocks)
                      /\ event.body = request.length
                      /\ \A i \in DOMAIN request.query :
                             (\A j \in 1..(i - 1) : request.query[j][1] # request.query[i][1])
                                 => event.params[request.query[i][1]] = request.query[i][2]
    BY DEF GuestGetsWholeRequest
  <2>1. lookup = "found" /\ wasm = Content(Candidate, NumBlocks)
    BY DEF LambdaInv, LookupInv, ScriptIsWhole
  <2>2. event.body = request.length /\ event.params = Parameters(request.query)
    BY DEF LambdaInv, EventOf
  <2>3. request.query \in Seq({request.query[i] : i \in DOMAIN request.query})
    BY LambdaAssumption DEF LambdaInv, LambdaTypeOK
  <2> QED
    BY <2>1, <2>2, <2>3, FirstValueStays
<1> QED
  BY <1>1, LambdaInvariant, PTL

(***************************************************************************)
(* The state of lambda mode has its types.                                 *)
(***************************************************************************)
THEOREM LambdaTypeCorrect == LambdaSpec => []LambdaTypeOK
<1>1. LambdaInv => LambdaTypeOK
  BY DEF LambdaInv
<1> QED
  BY <1>1, LambdaInvariant, PTL
-----------------------------------------------------------------------------
(***************************************************************************)
(* A step of the handler with the JavaScript guest is a step of it with    *)
(* some guest, or leaves it where it is.                                   *)
(***************************************************************************)
LEMMA JsStepImplements == [JsNext]_jsVars => [LambdaNext]_lambdaVars
<1> SUFFICES ASSUME [JsNext]_jsVars PROVE [LambdaNext]_lambdaVars
  OBVIOUS
<1>1. CASE Host
  BY <1>1 DEF Host, LambdaNext
<1>2. CASE NextEvent
  BY <1>2 DEF NextEvent
<1>3. CASE NextEventNull
  BY <1>3 DEF NextEventNull
<1>4. CASE EventSizePanics
  BY <1>4 DEF EventSizePanics, LambdaNext
<1>5. CASE Throws
  BY <1>5 DEF Throws, LambdaNext
<1>6. ASSUME NEW p \in Accepted \cup Junk, Send(p) PROVE LambdaNext
  BY <1>6 DEF Send, LambdaNext
<1>7. CASE Returns
  BY <1>7 DEF Returns, LambdaNext
<1>8. CASE UNCHANGED jsVars
  BY <1>8 DEF jsVars
<1> QED
  BY <1>1, <1>2, <1>3, <1>4, <1>5, <1>6, <1>7, <1>8 DEF JsNext

(***************************************************************************)
(* The JavaScript guest is a guest: the handler with it implements the     *)
(* handler with an arbitrary guest, and all that is proved of that holds.  *)
(***************************************************************************)
THEOREM JsGuestIsAGuest == JsSpec => LambdaSpec
<1>1. JsInit => LambdaInit
  BY DEF JsInit
<1> QED
  BY <1>1, JsStepImplements, PTL DEF JsSpec, LambdaSpec

(***************************************************************************)
(* A length that does not wrap around has room for the event and a         *)
(* terminator.                                                             *)
(***************************************************************************)
LEMMA RoomForTerminator ==
    ASSUME NEW size \in Nat, size < Word
    PROVE  /\ BufferLength(size) # 0 => BufferLength(size) = size + 1
           /\ size + 1 < Word => BufferLength(size) # 0
<1>1. Word \in Nat /\ Word > 1
  BY WordAssumption
<1>2. CASE size + 1 < Word
  <2>1. (size + 1) % Word = size + 1
    BY <1>1, <1>2
  <2> QED
    BY <2>1 DEF BufferLength
<1>3. CASE size + 1 = Word
  <2>1. (size + 1) % Word = 0
    BY <1>1, <1>3
  <2> QED
    BY <1>1, <1>3, <2>1 DEF BufferLength
<1> QED
  BY <1>1, <1>2, <1>3

(***************************************************************************)
(* The JavaScript guest's invariant holds when the handler is called.      *)
(***************************************************************************)
LEMMA JsInitially == JsInit => JsLambdaInv
  BY LambdaInitially DEF JsInit, LambdaInit, JsLambdaInv, EventWholeAndTerminated

(***************************************************************************)
(* Every step preserves it.                                                *)
(***************************************************************************)
LEMMA JsPreserved == JsLambdaInv /\ [JsNext]_jsVars => JsLambdaInv'
<1> SUFFICES ASSUME JsLambdaInv, [JsNext]_jsVars PROVE JsLambdaInv'
  OBVIOUS
<1>0. LambdaInv /\ LambdaInv'
  BY JsStepImplements, LambdaPreserved DEF JsLambdaInv
<1>1. request \in Requests /\ sent \in Seq(Accepted \cup Junk)
  BY <1>0 DEF LambdaInv, LambdaTypeOK
<1>2. ASSUME request' = request PROVE EventOf(request.length)' = EventOf(request.length)
  BY <1>2 DEF EventOf, Parameters, Keys, Encoded
<1>3. ASSUME UNCHANGED <<request, event, sent, at, bufLen, nbytes>>,
             pc' \in {"lookup", "body", "module"} => pc \in {"lookup", "body", "module"},
             pc' \in {"convert", "done"} => pc \in {"convert", "done"} \/ at = "end"
      PROVE  JsLambdaInv'
  BY <1>0, <1>2, <1>3 DEF JsLambdaInv, EventWholeAndTerminated
<1>4. CASE Host
  <2>1. LambdaHostNext /\ UNCHANGED <<at, bufLen, nbytes>>
    BY <1>4 DEF Host
  <2>2. CASE BuildEvent
    <3>1. pc = "body" /\ pc' = "module" /\ UNCHANGED <<request, sent>>
      BY <2>2 DEF BuildEvent
    <3>2. at = "next" /\ at' = "next" /\ nbytes' = None /\ bufLen' = 0 /\ sent' = <<>>
      BY <2>1, <3>1 DEF JsLambdaInv
    <3> QED
      BY <1>0, <3>1, <3>2 DEF JsLambdaInv, EventWholeAndTerminated
  <2>3. CASE Search
    BY <1>3, <2>1, <2>3 DEF Search
  <2>4. CASE Found
    BY <1>3, <2>1, <2>4 DEF Found, Goto
  <2>5. CASE NotFound
    BY <1>3, <2>1, <2>5 DEF NotFound, Panic, Goto
  <2>6. ASSUME NEW n \in 1..request.length, Chunk(n) PROVE JsLambdaInv'
    BY <1>3, <2>1, <2>6 DEF Chunk
  <2>7. CASE BodyFails
    BY <1>3, <2>1, <2>7 DEF BodyFails, Panic, Goto
  <2>8. CASE BuildEventPanics
    BY <1>3, <2>1, <2>8 DEF BuildEventPanics, Panic, Goto
  <2>9. CASE StartGuest
    BY <1>3, <2>1, <2>9 DEF StartGuest, Goto
  <2>10. CASE StartFails
    BY <1>3, <2>1, <2>10 DEF StartFails, Panic, Goto
  <2>11. CASE Answer
    BY <1>3, <2>1, <2>11 DEF Answer
  <2>12. CASE AnswerPanics
    BY <1>3, <2>1, <2>12 DEF AnswerPanics, Panic, Goto
  <2> QED
    BY <2>1, <2>2, <2>3, <2>4, <2>5, <2>6, <2>7, <2>8, <2>9, <2>10, <2>11, <2>12
       DEF LambdaHostNext
<1>5. ASSUME pc = "guest" PROVE event = EventOf(request.length) /\ event.size \in Nat
  BY <1>0, <1>1, <1>5, EventSize DEF LambdaInv
<1>6. CASE NextEvent
  <2> DEFINE len == BufferLength(event.size)
  <2>1. /\ pc = "guest" /\ at = "next" /\ event.size < Word /\ len # 0
        /\ bufLen' = (IF len > bufLen THEN len ELSE bufLen) /\ nbytes' = Copied(bufLen')
        /\ at' = "handler"
        /\ UNCHANGED <<pc, request, event, sent>>
    BY <1>6 DEF NextEvent, lambdaVars
  <2>2. event.size \in Nat /\ len = event.size + 1 /\ bufLen = 0 /\ sent = <<>>
    BY <1>5, <2>1, RoomForTerminator DEF JsLambdaInv
  <2>3. bufLen' = event.size + 1 /\ nbytes' = event.size
    BY <2>1, <2>2 DEF Copied
  <2>4. nbytes' < bufLen'
    BY <2>2, <2>3
  <2>5. event' = event /\ event' = EventOf(request.length)'
    BY <1>2, <1>5, <2>1
  <2> QED
    BY <1>0, <2>1, <2>2, <2>3, <2>4, <2>5 DEF JsLambdaInv, EventWholeAndTerminated
<1>7. CASE NextEventNull
  <2>1. /\ pc = "guest" /\ at = "next" /\ event.size < Word /\ BufferLength(event.size) = 0
        /\ at' = "handler" /\ UNCHANGED <<pc, request, event, sent, bufLen, nbytes>>
    BY <1>7 DEF NextEventNull, lambdaVars
  <2>2. ~(event.size + 1 < Word) /\ nbytes = None /\ sent = <<>>
    BY <1>5, <2>1, RoomForTerminator DEF JsLambdaInv
  <2>3. event' = EventOf(request.length)'
    BY <1>2, <1>5, <2>1
  <2> QED
    BY <1>0, <2>1, <2>2, <2>3 DEF JsLambdaInv, EventWholeAndTerminated
<1>8. CASE EventSizePanics
  BY <1>3, <1>8 DEF EventSizePanics, GuestFails, Panic, Goto
<1>9. CASE Throws
  BY <1>3, <1>9 DEF Throws, GuestFails, Panic, Goto
<1>10. ASSUME NEW p \in Accepted \cup Junk, Send(p) PROVE JsLambdaInv'
  <2>1. /\ at = "handler" /\ at' = "end" /\ pc = "guest" /\ sent' = Append(sent, p)
        /\ UNCHANGED <<pc, request, event, bufLen, nbytes>>
    BY <1>10 DEF Send, SendResponse
  <2>2. sent = <<>> /\ Len(sent') = 1
    BY <2>1 DEF JsLambdaInv
  <2>3. event' = EventOf(request.length)'
    BY <1>2, <1>5, <2>1
  <2> QED
    BY <1>0, <2>1, <2>2, <2>3 DEF JsLambdaInv, EventWholeAndTerminated
<1>11. CASE Returns
  BY <1>3, <1>11 DEF Returns, GuestReturns, Goto
<1>12. CASE UNCHANGED jsVars
  BY <1>3, <1>12 DEF jsVars, lambdaVars
<1> QED
  BY <1>4, <1>6, <1>7, <1>8, <1>9, <1>10, <1>11, <1>12 DEF JsNext

(***************************************************************************)
(* The invariant holds throughout a request to the JavaScript guest.       *)
(***************************************************************************)
THEOREM JsLambdaInvariant == JsSpec => []JsLambdaInv
  BY JsInitially, JsPreserved, PTL DEF JsSpec

(***************************************************************************)
(* For every width of the length and every size of the event,              *)
(* `JS_ParseJSON` gets the event whole and terminated, or is not called.   *)
(***************************************************************************)
THEOREM EventAlwaysWhole == JsSpec => []EventWholeAndTerminated
<1>1. JsLambdaInv => EventWholeAndTerminated
  BY DEF JsLambdaInv
<1> QED
  BY <1>1, JsLambdaInvariant, PTL

(***************************************************************************)
(* An answer of the JavaScript guest is what its handler returned for the  *)
(* event.                                                                  *)
(***************************************************************************)
THEOREM HandlerIsAnswered == JsSpec => []AnswerComesFromHandler
<1>1. JsLambdaInv => AnswerComesFromHandler
  <2> SUFFICES ASSUME JsLambdaInv, pc = "done"
               PROVE  sent = <<answer>> /\ (event.size + 1 < Word => nbytes = event.size)
    BY DEF AnswerComesFromHandler
  <2>1. at = "end" /\ Len(sent) = 1 /\ (event.size + 1 < Word => nbytes = event.size)
    BY DEF JsLambdaInv
  <2>2. /\ sent \in Seq(Accepted \cup Junk) /\ answer = response
        /\ \E i \in DOMAIN sent : sent[i] = answer
    BY DEF JsLambdaInv, LambdaInv, LambdaTypeOK, KeepsLastAccepted
  <2>3. sent[1] = answer
    BY <2>1, <2>2
  <2>4. sent = <<answer>>
    BY <2>1, <2>2, <2>3
  <2> QED
    BY <2>1, <2>4
<1> QED
  BY <1>1, JsLambdaInvariant, PTL
=============================================================================
