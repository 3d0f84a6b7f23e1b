---------------------------- MODULE LogForwarder ----------------------------
(***************************************************************************)
(* `LogForwarder` of src/wasm.rs: the virtual file behind a guest's stderr *)
(* (and stdout, in lambda mode).  It forwards complete lines to the logger *)
(* and keeps the unfinished one in `incomplete`.                           *)
(*                                                                         *)
(* `write` is modelled step by step: one action for its head, one for each *)
(* turn of its loop and one for its tail, so that the loop's state is      *)
(* visible.  It runs under `&mut self`, so no other operation starts while *)
(* pc = "scan".                                                            *)
(***************************************************************************)
EXTENDS Naturals, Sequences, FiniteSets

CONSTANTS Text,      \* the bytes other than the line end
          NL,        \* b'\n'
          Zero,      \* the byte `set_len` pads with
          Buffers,   \* the buffers the guest may pass to one `write`
          Sizes,     \* the lengths the file may be set to
          MaxBytes   \* bound on the bytes of the whole stream

ASSUME LogAssumption ==
    /\ NL \notin Text
    /\ Zero \in Text
    /\ Buffers \subseteq Seq(Text \cup {NL})
    /\ Sizes \subseteq Nat

VARIABLES
    pc,          \* "idle", "scan" (inside `write`, after its first line) or "dropped"
    incomplete,  \* self.incomplete
    rest,        \* `rest` of `write`
    log,         \* the records passed to `logger.log`, oldest first
    (***********************************************************************)
    (* History variables.                                                  *)
    (***********************************************************************)
    written,     \* the stream so far
    emitted      \* the part of the stream that went into log

vars == <<pc, incomplete, rest, log, written, emitted>>

Byte == Text \cup {NL}

HasNewline(s) == \E i \in 1..Len(s) : s[i] = NL

\* `iter().position(|&c| c == b'\n')` found the line end at index p.
FirstNewline(s, p) == s[p] = NL /\ \A i \in 1..(p - 1) : s[i] # NL

Before(s, p) == SubSeq(s, 1, p - 1)
After(s, p) == SubSeq(s, p + 1, Len(s))

\* `Vec::resize(n, 0)`
Resized(s, n) == [i \in 1..n |-> IF i <= Len(s) THEN s[i] ELSE Zero]

TypeOK ==
    /\ pc \in {"idle", "scan", "dropped"}
    /\ incomplete \in Seq(Byte)
    /\ rest \in Seq(Byte)
    /\ log \in Seq(Seq(Byte))
    /\ written \in Seq(Byte)
    /\ emitted \in Seq(Byte)
-----------------------------------------------------------------------------
Init ==
    /\ pc = "idle"
    /\ incomplete = <<>>
    /\ rest = <<>>
    /\ log = <<>>
    /\ written = <<>>
    /\ emitted = <<>>

Logs(line) == log' = Append(log, line)

\* `write` of a buffer with no line end in it.
WriteText(buf) ==
    /\ pc = "idle"
    /\ Len(written) + Len(buf) <= MaxBytes
    /\ ~HasNewline(buf)
    /\ incomplete' = incomplete \o buf
    /\ written' = written \o buf
    /\ UNCHANGED <<pc, rest, log, emitted>>

\* Mutation: the text kept from earlier writes is dropped, not put in front.
WriteLineNoPrefix(buf) ==
    /\ pc = "idle"
    /\ Len(written) + Len(buf) <= MaxBytes
    /\ \E p \in 1..Len(buf) :
        /\ FirstNewline(buf, p)
        /\ Logs(Before(buf, p))
        /\ rest' = After(buf, p)
        /\ emitted' = emitted \o Before(buf, p) \o <<NL>>
    /\ incomplete' = <<>>
    /\ pc' = "scan"
    /\ written' = written \o buf

\* `write` of a buffer with a line end in it, up to the loop: its first line
\* completes `incomplete`.
WriteLine(buf) ==
    /\ pc = "idle"
    /\ Len(written) + Len(buf) <= MaxBytes
    /\ \E p \in 1..Len(buf) :
        LET line == Before(buf, p) IN
        /\ FirstNewline(buf, p)
        /\ \/ /\ incomplete = <<>>
              /\ Logs(line)
              /\ UNCHANGED incomplete
           \/ /\ incomplete # <<>>
              /\ Logs(incomplete \o line)
              /\ incomplete' = <<>>
        /\ rest' = After(buf, p)
        /\ emitted' = (emitted \o incomplete) \o (line \o <<NL>>)
    /\ pc' = "scan"
    /\ written' = written \o buf

\* One turn of the loop over the further lines of the buffer.
NextLine ==
    /\ pc = "scan"
    /\ \E p \in 1..Len(rest) :
        /\ FirstNewline(rest, p)
        /\ Logs(Before(rest, p))
        /\ rest' = After(rest, p)
        /\ emitted' = emitted \o (Before(rest, p) \o <<NL>>)
    /\ UNCHANGED <<pc, incomplete, written>>

\* The tail of `write`: what follows the last line end is kept.
EndWrite ==
    /\ pc = "scan"
    /\ ~HasNewline(rest)
    /\ incomplete' = incomplete \o rest
    /\ rest' = <<>>
    /\ pc' = "idle"
    /\ UNCHANGED <<log, written, emitted>>

\* `set_len(n)`: the unfinished line is cut or padded, and the stream with it.
SetLen(n) ==
    /\ pc = "idle"
    /\ Len(emitted) + n <= MaxBytes
    /\ incomplete' = Resized(incomplete, n)
    /\ written' = emitted \o Resized(incomplete, n)
    /\ UNCHANGED <<pc, rest, log, emitted>>

\* Mutation: an unfinished line is lost when the file goes away.
DropSilent ==
    /\ pc = "idle"
    /\ pc' = "dropped"
    /\ UNCHANGED <<incomplete, rest, log, written, emitted>>

\* `drop`: the guest's run is over, whether it returned or trapped.
Drop ==
    /\ pc = "idle"
    /\ IF incomplete # <<>> THEN Logs(incomplete) ELSE UNCHANGED log
    /\ pc' = "dropped"
    /\ UNCHANGED <<incomplete, rest, written, emitted>>

Next ==
    \/ \E buf \in Buffers : WriteText(buf) \/ WriteLine(buf)
    \/ NextLine
    \/ EndWrite
    \/ \E n \in Sizes : SetLen(n)
    \/ Drop

Spec == Init /\ [][Next]_vars
-----------------------------------------------------------------------------
(***************************************************************************)
(* No byte is lost, duplicated or reordered: at every step of `write` the  *)
(* stream is what was logged (with its line ends), then the unfinished     *)
(* line, then what the loop has still to look at.                          *)
(***************************************************************************)
NothingLost == written = emitted \o (incomplete \o rest)

NoNewlines(s) == \A i \in 1..Len(s) : s[i] # NL

(***************************************************************************)
(* The inductive invariant: nothing is lost, the unfinished line never     *)
(* holds a line end, it is empty while the loop runs (so that a line       *)
(* logged by the loop needs no prefix), and no record of the log holds a   *)
(* line end.                                                               *)
(***************************************************************************)
LogInv ==
    /\ TypeOK
    /\ NothingLost
    /\ NoNewlines(incomplete)
    /\ pc = "scan" => incomplete = <<>>
    /\ pc # "scan" => rest = <<>>
    /\ \A i \in 1..Len(log) : NoNewlines(log[i])

\* The line ends of a stream, and the text of the line that ends before i.
LineEnds(s) == {i \in 1..Len(s) : s[i] = NL}

IsLine(s, i, line) ==
    \E p \in 0..(i - 1) :
        /\ p = 0 \/ s[p] = NL
        /\ \A j \in (p + 1)..(i - 1) : s[j] # NL
        /\ line = SubSeq(s, p + 1, i - 1)

\* lines are the finished lines of the stream, in their order.
LinesOf(s, lines) ==
    /\ Len(lines) = Cardinality(LineEnds(s))
    /\ \A i \in LineEnds(s) : IsLine(s, i, lines[Cardinality(LineEnds(s) \cap 1..i)])

EndsLine(s) == s # <<>> => s[Len(s)] = NL

\* The stream with its last line finished.
Ended(s) == IF EndsLine(s) THEN s ELSE s \o <<NL>>

(***************************************************************************)
(* The log and the unfinished line depend on the stream alone, never on    *)
(* the boundaries of the guest's writes: the n-th record is the text       *)
(* between the line ends n - 1 and n of the stream, and `incomplete` what  *)
(* follows the last.  Once the file is dropped, the log holds every line   *)
(* of the stream, the unfinished last one included.                        *)
(***************************************************************************)
ChunkingInvisible ==
    /\ pc = "idle" => LinesOf(written, log) /\ IsLine(written, Len(written) + 1, incomplete)
    /\ pc = "dropped" => LinesOf(Ended(written), log)

(***************************************************************************)
(* The inductive invariant behind it: what went into the log is a number   *)
(* of whole lines, and the log holds them.                                 *)
(***************************************************************************)
LinesInv ==
    /\ LogInv
    /\ EndsLine(emitted)
    /\ pc # "dropped" => LinesOf(emitted, log)
    /\ pc = "dropped" => LinesOf(Ended(written), log)

LineLog == INSTANCE LineLog WITH lines <- log, current <- incomplete, open <- pc # "dropped"

(***************************************************************************)
(* `LogForwarder` implements the line log: however the guest cuts its      *)
(* output into writes, each step ends one line with all its text, or adds  *)
(* text to the unfinished one.                                             *)
(***************************************************************************)
LineLogSpec == LineLog!Spec
=============================================================================
