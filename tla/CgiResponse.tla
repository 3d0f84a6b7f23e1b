---------------------------- MODULE CgiResponse ----------------------------
(***************************************************************************)
(* `CgiResponse::from_str` of src/cgi.rs: the guest's output is split at   *)
(* the first "\n\n", the lines before it are read one by one into a status *)
(* and a header map, the rest is the body.                                 *)
(***************************************************************************)
EXTENDS CgiPayload

CONSTANT Payloads   \* what guests print

ASSUME ResponseAssumption == Payloads \subseteq Seq(Line)

VARIABLES
    payload,  \* the argument
    stage,    \* "split", "lines", "done" or "panic"
    end,      \* the last line of `header`
    at,       \* the line the loop is at
    status,
    headers,
    body

responseVars == <<payload, stage, end, at, status, headers, body>>

ResponseTypeOK ==
    /\ payload \in Payloads
    /\ stage \in {"split", "lines", "done", "panic"}
    /\ end \in Nat
    /\ at \in Nat \ {0}
    /\ status \in Codes
    /\ headers \in [Names -> Values \cup {Absent}]
    /\ body \in Seq(Line)

ResponseInit ==
    /\ payload \in Payloads
    /\ stage = "split"
    /\ end = 0
    /\ at = 1
    /\ status = Ok
    /\ headers = NoHeaders
    /\ body = <<>>

\* `payload.split_once("\n\n")` is Some
Split ==
    /\ stage = "split"
    /\ \E e \in 1..Len(payload) : SplitsAt(payload, e) /\ end' = e
    /\ stage' = "lines"
    /\ UNCHANGED <<payload, at, status, headers, body>>

\* ... is None: everything is body.
NoSplit ==
    /\ stage = "split"
    /\ \A e \in 1..Len(payload) : ~SplitsAt(payload, e)
    /\ body' = payload
    /\ stage' = "done"
    /\ UNCHANGED <<payload, end, at, status, headers>>

\* Mutation: `entry(..).or_insert(..)` in place of `insert`: the first header wins.
TakesFirst(line) ==
    /\ status' = IF line.kind = "status" THEN line.code ELSE status
    /\ headers' = IF line.kind = "header" /\ headers[line.name] = Absent
                  THEN [headers EXCEPT ![line.name] = line.value] ELSE headers

\* What one line does to the status and the headers.
Takes(line) ==
    /\ status' = IF line.kind = "status" THEN line.code ELSE status
    /\ headers' = IF line.kind = "header"
                  THEN [headers EXCEPT ![line.name] = line.value] ELSE headers

\* Mutation: a line that does not parse is skipped, not fatal.
SkipLine ==
    /\ stage = "lines"
    /\ at <= end
    /\ Panics(payload[at])
    /\ at' = at + 1
    /\ UNCHANGED <<payload, stage, end, status, headers, body>>

\* A line of the header part; one without a colon changes nothing.
ReadLine ==
    /\ stage = "lines"
    /\ at <= end
    /\ ~Panics(payload[at])
    /\ Takes(payload[at])
    /\ at' = at + 1
    /\ UNCHANGED <<payload, stage, end, body>>

\* One of the `unwrap` calls panics; the handler unwinds with it.
PanicLine ==
    /\ stage = "lines"
    /\ at <= end
    /\ Panics(payload[at])
    /\ stage' = "panic"
    /\ UNCHANGED <<payload, end, at, status, headers, body>>

EndLines ==
    /\ stage = "lines"
    /\ at = end + 1
    /\ body' = SubSeq(payload, end + 2, Len(payload))
    /\ stage' = "done"
    /\ UNCHANGED <<payload, end, at, status, headers>>

ResponseNext == Split \/ NoSplit \/ ReadLine \/ PanicLine \/ EndLines

ResponseSpec == ResponseInit /\ [][ResponseNext]_responseVars
-----------------------------------------------------------------------------
(***************************************************************************)
(* The result is the one a declarative reading of the payload gives: up to *)
(* the first empty line that has a line before it, the last status line    *)
(* and, for each name, the last header line count; what follows is the     *)
(* body; without such a line everything is body and the status is 200.     *)
(***************************************************************************)
ReadsAsWritten ==
    stage = "done" =>
        \/ /\ \A e \in 1..Len(payload) : ~SplitsAt(payload, e)
           /\ status = Ok /\ headers = NoHeaders /\ body = payload
        \/ /\ SplitsAt(payload, end)
           /\ SetsStatus(payload, end, status)
           /\ \A h \in Names : SetsHeader(payload, end, h, headers[h])
           /\ body = SubSeq(payload, end + 2, Len(payload))

(***************************************************************************)
(* The parser panics exactly on output whose header part holds a line that *)
(* does not parse: such a line never gets through, and no other line and   *)
(* nothing in the body can bring the request down.                         *)
(***************************************************************************)
PanicsOnlyInHeader ==
    LET bad == \E e \in 1..Len(payload) :
                   SplitsAt(payload, e) /\ \E i \in 1..e : Panics(payload[i])
    IN  /\ stage = "panic" => bad
        /\ stage = "done" => ~bad

(***************************************************************************)
(* The inductive invariant: in the loop, status and headers are those the  *)
(* lines already read set, and none of these lines panics.                 *)
(***************************************************************************)
ResponseInv ==
    /\ ResponseTypeOK
    /\ stage = "split" => at = 1 /\ status = Ok /\ headers = NoHeaders /\ body = <<>>
    /\ stage = "lines" =>
           /\ SplitsAt(payload, end)
           /\ at <= end + 1
           /\ \A i \in 1..(at - 1) : ~Panics(payload[i])
           /\ SetsStatus(payload, at - 1, status)
           /\ \A h \in Names : SetsHeader(payload, at - 1, h, headers[h])
    /\ ReadsAsWritten
    /\ PanicsOnlyInHeader
=============================================================================
