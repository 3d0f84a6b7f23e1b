------------------------------ MODULE LineLog ------------------------------
(***************************************************************************)
(* What a guest's standard stream promises the server log: one record per  *)
(* line, in order, each the text since the previous line end, and a last   *)
(* one for an unfinished line when the stream is closed.  How the guest    *)
(* cuts its output into writes does not appear here.                       *)
(***************************************************************************)
EXTENDS Naturals, Sequences

CONSTANT Text    \* the bytes a line can hold: any but the line end

VARIABLES lines,    \* the records of the log, oldest first
          current,  \* the text since the last line end
          open      \* the stream has not been closed

vars == <<lines, current, open>>

\* t is s with some text after it.
ExtendsText(t, s) ==
    /\ t \in Seq(Text)
    /\ Len(s) <= Len(t)
    /\ SubSeq(t, 1, Len(s)) = s

\* The log gets one more record.
OneRecord ==
    /\ Len(lines') = Len(lines) + 1
    /\ SubSeq(lines', 1, Len(lines)) = lines

Init == lines = <<>> /\ current = <<>> /\ open = TRUE

\* More text, no line end.
AddText ==
    /\ open
    /\ ExtendsText(current', current)
    /\ UNCHANGED <<lines, open>>

\* The current line ends, possibly after some more text.
EndLine ==
    /\ open
    /\ OneRecord
    /\ ExtendsText(lines'[Len(lines')], current)
    /\ current' = <<>>
    /\ UNCHANGED open

\* The unfinished line is cut or padded to another length.
Resize ==
    /\ open
    /\ current' \in Seq(Text)
    /\ LET n == IF Len(current) < Len(current') THEN Len(current) ELSE Len(current')
       IN SubSeq(current', 1, n) = SubSeq(current, 1, n)
    /\ UNCHANGED <<lines, open>>

\* The stream is closed; an unfinished line becomes the last record.
Close ==
    /\ open
    /\ open' = FALSE
    /\ lines' = IF current = <<>> THEN lines ELSE Append(lines, current)
    /\ UNCHANGED current

Next == AddText \/ EndLine \/ Resize \/ Close

Spec == Init /\ [][Next]_vars
=============================================================================
