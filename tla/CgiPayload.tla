----------------------------- MODULE CgiPayload -----------------------------
(***************************************************************************)
(* What a guest prints, as a sequence of lines, and what a reader of       *)
(* `CgiResponse::from_str` (src/cgi.rs) expects to be made of it.  A line  *)
(* is kept apart only by what the parser can tell: it is empty, it has no  *)
(* colon, its key is "status" in some case, or it is another key.          *)
(***************************************************************************)
EXTENDS Naturals, Sequences

CONSTANTS Texts,   \* the lines without a colon, and the lines of bodies
          Codes,   \* what `StatusCode::from_str` accepts
          Names,   \* what `HeaderName::from_str` accepts, case folded
          Values,  \* what `HeaderValue::from_str` accepts
          Ok,      \* StatusCode::OK
          Bad,     \* a code, name or value that is not accepted
          Absent   \* the value of a header that was not set

ASSUME PayloadAssumption ==
    /\ Ok \in Codes
    /\ Bad \notin Codes /\ Bad \notin Names /\ Bad \notin Values
    /\ Absent \notin Values

Blank == [kind |-> "blank"]
TextLine(x) == [kind |-> "text", says |-> x]
StatusLine(c) == [kind |-> "status", code |-> c]
HeaderLine(n, v) == [kind |-> "header", name |-> n, value |-> v]

Line ==
    {Blank} \cup {TextLine(x) : x \in Texts}
    \cup {StatusLine(c) : c \in Codes \cup {Bad}}
    \cup {HeaderLine(n, v) : n \in Names \cup {Bad}, v \in Values \cup {Bad}}

NoHeaders == [n \in Names |-> Absent]

\* "\n\n" first occurs at the end of line e: the next line is the first empty
\* one that has a line before it.
SplitsAt(p, e) ==
    /\ e \in 1..(Len(p) - 1)
    /\ p[e + 1] = Blank
    /\ \A i \in 1..(e - 1) : p[i + 1] # Blank

\* The line makes the parser panic: one of its three `unwrap` calls.
Panics(line) ==
    \/ line.kind = "status" /\ line.code = Bad
    \/ line.kind = "header" /\ (line.name = Bad \/ line.value = Bad)

\* s is the status the first n lines set: that of the last status line.
SetsStatus(p, n, s) ==
    \/ /\ s = Ok
       /\ \A i \in 1..n : p[i].kind # "status"
    \/ \E i \in 1..n :
        /\ p[i].kind = "status" /\ p[i].code = s
        /\ \A j \in (i + 1)..n : p[j].kind # "status"

\* v is the value the first n lines give header h: that of the last such line.
SetsHeader(p, n, h, v) ==
    \/ /\ v = Absent
       /\ \A i \in 1..n : p[i].kind = "header" => p[i].name # h
    \/ \E i \in 1..n :
        /\ p[i].kind = "header" /\ p[i].name = h /\ p[i].value = v
        /\ \A j \in (i + 1)..n : p[j].kind = "header" => p[j].name # h
=============================================================================
