--------------------------- MODULE StreamsProofs ---------------------------
(***************************************************************************)
(* Proofs about the two readers of what a guest writes.  LogForwarder:     *)
(* LogInv and LinesInv are inductive, every step of the forwarder is a     *)
(* step of the line log or a stutter, and the log is that of the stream.   *)
(* CgiResponse: the loop of `from_str` computes the declarative reading of *)
(* CgiPayload, for payloads of any length.                                 *)
(***************************************************************************)
EXTENDS LogForwarder, CgiResponse, SequenceTheorems, FiniteSetTheorems, TLAPS

(***************************************************************************)
(* The lines up to one, and up to the one before it: what `from_str` has   *)
(* read after a line and before it.                                        *)
(***************************************************************************)
LEMMA OneFurther ==
    ASSUME NEW n \in Nat \ {0}
    PROVE  /\ \A i \in 1..n : i \in 1..(n - 1) \/ i = n
           /\ \A i \in 1..(n - 1) :
                  i \in 1..n /\ \A j \in (i + 1)..n : j \in (i + 1)..(n - 1) \/ j = n
  OBVIOUS

(***************************************************************************)
(* A buffer cut at a line end: the text before it, the line end and the    *)
(* text after it make up the buffer again.  This is what `&buf[..pos]` and *)
(* `&buf[pos + 1..]` rely on.                                              *)
(***************************************************************************)
LEMMA CutAtNewline ==
    ASSUME NEW s \in Seq(Byte), NEW p \in 1..Len(s), FirstNewline(s, p)
    PROVE  /\ Before(s, p) \in Seq(Byte)
           /\ After(s, p) \in Seq(Byte)
           /\ NoNewlines(Before(s, p))
           /\ s = (Before(s, p) \o <<NL>>) \o After(s, p)
<1>1. /\ Before(s, p) \in Seq(Byte)
      /\ Len(Before(s, p)) = p - 1
      /\ \A i \in 1..(p - 1) : Before(s, p)[i] = s[i]
  BY SMT DEF Before
<1>2. /\ After(s, p) \in Seq(Byte)
      /\ Len(After(s, p)) = Len(s) - p
      /\ \A i \in 1..(Len(s) - p) : After(s, p)[i] = s[p + i]
  BY SMT DEF After
<1>3. NoNewlines(Before(s, p))
  BY <1>1 DEF FirstNewline, NoNewlines
<1>4. SubSeq(s, 1, p) = Before(s, p) \o <<NL>>
  BY SubSeqRecursiveSecond, SMT DEF Before, FirstNewline
<1>5. SubSeq(s, 1, p) \o After(s, p) = SubSeq(s, 1, Len(s))
  <2>1. 1 \in 1..(Len(s) + 1) /\ p \in (1 - 1)..Len(s) /\ Len(s) \in p..Len(s)
    BY SMT
  <2> QED
    BY <2>1, ConcatAdjacentSubSeq DEF After
<1>7. s = (Before(s, p) \o <<NL>>) \o After(s, p)
  BY <1>4, <1>5, SubSeqFull
<1> QED
  BY <1>1, <1>2, <1>3, <1>7

(***************************************************************************)
(* Appending to a text without line ends one without line ends gives one   *)
(* without line ends: `self.incomplete.extend(..)`.                        *)
(***************************************************************************)
LEMMA ConcatNoNewlines ==
    ASSUME NEW s \in Seq(Byte), NEW t \in Seq(Byte), NoNewlines(s), NoNewlines(t)
    PROVE  s \o t \in Seq(Byte) /\ NoNewlines(s \o t)
<1>1. /\ s \o t \in Seq(Byte)
      /\ Len(s \o t) = Len(s) + Len(t)
      /\ \A i \in 1..(Len(s) + Len(t)) :
             (s \o t)[i] = IF i <= Len(s) THEN s[i] ELSE t[i - Len(s)]
  BY ConcatProperties
<1> QED
  BY <1>1, SMT DEF NoNewlines

(***************************************************************************)
(* The laws of concatenation the conservation argument uses.               *)
(***************************************************************************)
LEMMA ConcatLaws ==
    ASSUME NEW r \in Seq(Byte), NEW s \in Seq(Byte), NEW t \in Seq(Byte)
    PROVE  /\ r \o s \in Seq(Byte)
           /\ (r \o s) \o t = r \o (s \o t)
           /\ r \o <<>> = r
           /\ <<>> \o r = r
           /\ <<>> \in Seq(Byte)
           /\ <<NL>> \in Seq(Byte)
<1>1. <<>> \in Seq(Byte) /\ <<NL>> \in Seq(Byte)
  BY SMT DEF Byte
<1>2. r \o s \in Seq(Byte) /\ (r \o s) \o t = r \o (s \o t)
  BY ConcatProperties, ConcatAssociative
<1>3. r \o <<>> = r /\ <<>> \o r = r
  BY ConcatEmptySeq
<1> QED
  BY <1>1, <1>2, <1>3

(***************************************************************************)
(* Concatenation is associative, in the form the provers instantiate.      *)
(***************************************************************************)
LEMMA Assoc == \A r, s, t \in Seq(Byte) : (r \o s) \o t = r \o (s \o t)
  BY ConcatAssociative

(***************************************************************************)
(* A line l and its line end move from what is pending to what is logged   *)
(* (e), in front of what follows (m): a step of `write`.                   *)
(***************************************************************************)
LEMMA MoveLine ==
    \A e, l, m \in Seq(Byte) :
        /\ e \o (l \o <<NL>>) \in Seq(Byte)
        /\ e \o ((l \o <<NL>>) \o m) = (e \o (l \o <<NL>>)) \o m
<1> TAKE e, l, m \in Seq(Byte)
<1> DEFINE d == l \o <<NL>>
<1> HIDE DEF d
<1>1. d \in Seq(Byte)
  BY ConcatLaws DEF d
<1>2. e \o d \in Seq(Byte)
  BY <1>1, ConcatLaws
<1>3. (e \o d) \o m = e \o (d \o m)
  BY <1>1, Assoc, SMTT(30)
<1> QED
  BY <1>2, <1>3 DEF d

LogLinesOK(l) == l \in Seq(Seq(Byte)) /\ \A i \in 1..Len(l) : NoNewlines(l[i])

(***************************************************************************)
(* A record without a line end keeps the log free of line ends:            *)
(* `self.logger.log(..)`.                                                  *)
(***************************************************************************)
LEMMA LogsOneLine ==
    ASSUME NEW l, NEW line \in Seq(Byte), LogLinesOK(l), NoNewlines(line)
    PROVE  LogLinesOK(Append(l, line))
<1>1. /\ Append(l, line) \in Seq(Seq(Byte))
      /\ Len(Append(l, line)) = Len(l) + 1
      /\ \A i \in 1..Len(l) : Append(l, line)[i] = l[i]
      /\ Append(l, line)[Len(l) + 1] = line
  BY AppendProperties DEF LogLinesOK
<1>2. \A i \in 1..(Len(l) + 1) : i \in 1..Len(l) \/ i = Len(l) + 1
  BY SMT DEF LogLinesOK
<1> QED
  BY <1>1, <1>2 DEF LogLinesOK

(***************************************************************************)
(* A buffer in which `position` finds no line end is one without line      *)
(* ends, and every buffer of the guest is a sequence of bytes.             *)
(***************************************************************************)
LEMMA BufferFacts ==
    /\ \A buf \in Buffers : buf \in Seq(Byte)
    /\ \A s : ~HasNewline(s) => NoNewlines(s)
    /\ NoNewlines(<<>>)
  BY LogAssumption, SMT DEF HasNewline, NoNewlines, Byte

(***************************************************************************)
(* `set_len` leaves an unfinished line of the new length, cut or padded    *)
(* with zero bytes, and a zero byte is not a line end.                     *)
(***************************************************************************)
LEMMA ResizedFacts ==
    ASSUME NEW s \in Seq(Byte), NoNewlines(s), NEW n \in Nat
    PROVE  /\ Resized(s, n) \in Seq(Byte)
           /\ Len(Resized(s, n)) = n
           /\ NoNewlines(Resized(s, n))
<1>1. Zero \in Byte /\ Zero # NL
  BY LogAssumption DEF Byte
<1>2. /\ Resized(s, n) \in [1..n -> Byte]
      /\ \A i \in 1..n : Resized(s, n)[i] # NL
  BY <1>1, SMT DEF Resized, NoNewlines
<1>3. Resized(s, n) \in Seq(Byte) /\ Len(Resized(s, n)) = n
  BY <1>2, SMT
<1> QED
  BY <1>2, <1>3 DEF NoNewlines

(***************************************************************************)
(* LogInv holds of a new `LogForwarder`.                                   *)
(***************************************************************************)
LEMMA LogInit == Init => LogInv
  BY SMT DEF Init, LogInv, TypeOK, NothingLost, NoNewlines

(***************************************************************************)
(* Every operation of `LogForwarder` preserves LogInv.                     *)
(***************************************************************************)
LEMMA LogStep == LogInv /\ [Next]_vars => LogInv'
<1> SUFFICES ASSUME LogInv, [Next]_vars PROVE LogInv'
  OBVIOUS
<1> USE DEF LogInv, TypeOK, NothingLost
<1>a. emitted \in Seq(Byte) /\ incomplete \in Seq(Byte)
  OBVIOUS
<1>0. LogLinesOK(log) /\ <<NL>> \in Seq(Byte) /\ <<>> \in Seq(Byte)
  BY ConcatLaws DEF LogLinesOK
<1>1. ASSUME NEW buf \in Buffers, WriteText(buf) PROVE LogInv'
  <2>1. buf \in Seq(Byte) /\ NoNewlines(buf)
    BY <1>1, BufferFacts DEF WriteText
  <2>2. incomplete' \in Seq(Byte) /\ NoNewlines(incomplete')
    BY <1>1, <2>1, ConcatNoNewlines DEF WriteText
  <2>3. written' = emitted \o (incomplete' \o rest')
    <3>1. written' = (emitted \o incomplete) \o buf
      BY <1>1, ConcatEmptySeq DEF WriteText
    <3>2. (emitted \o incomplete) \o buf = emitted \o (incomplete \o buf)
      BY <2>1, Assoc, ZenonT(60)
    <3> QED
      BY <1>1, <3>1, <3>2, <2>2, ConcatEmptySeq DEF WriteText
  <2>4. written' \in Seq(Byte)
    BY <1>1, <2>1, ConcatLaws DEF WriteText
  <2> QED
    BY <1>1, <2>2, <2>3, <2>4 DEF WriteText
<1>2. ASSUME NEW buf \in Buffers, WriteLine(buf) PROVE LogInv'
  <2> buf \in Seq(Byte)
    BY BufferFacts
  <2> PICK p \in 1..Len(buf) :
        /\ FirstNewline(buf, p)
        /\ \/ /\ incomplete = <<>>
              /\ Logs(Before(buf, p))
              /\ UNCHANGED incomplete
           \/ /\ incomplete # <<>>
              /\ Logs(incomplete \o Before(buf, p))
              /\ incomplete' = <<>>
        /\ rest' = After(buf, p)
        /\ emitted' = (emitted \o incomplete) \o (Before(buf, p) \o <<NL>>)
    BY <1>2 DEF WriteLine
  <2> DEFINE line == Before(buf, p)
             more == After(buf, p)
  <2>1. /\ line \in Seq(Byte) /\ more \in Seq(Byte) /\ NoNewlines(line)
        /\ buf = (line \o <<NL>>) \o more
    BY CutAtNewline
  <2>2. log' = Append(log, incomplete \o line) /\ incomplete' = <<>>
    BY <2>1, ConcatEmptySeq DEF Logs
  <2>3. LogLinesOK(log')
    BY <1>0, <2>1, <2>2, ConcatNoNewlines, LogsOneLine
  <2>4. emitted' \in Seq(Byte) /\ written' \in Seq(Byte)
    BY <1>0, <1>a, <1>2, <2>1, ConcatLaws DEF WriteLine
  <2>5. written' = emitted' \o (incomplete' \o rest')
    <3>1. written' = (emitted \o incomplete) \o ((line \o <<NL>>) \o more)
      BY <1>2, <2>1, ConcatEmptySeq DEF WriteLine
    <3> DEFINE c == emitted \o incomplete
    <3> HIDE DEF c
    <3>2. c \in Seq(Byte)
      BY <1>a, ConcatLaws DEF c
    <3>4. c \o ((line \o <<NL>>) \o more) = (c \o (line \o <<NL>>)) \o more
      BY ONLY <2>1, <3>2, MoveLine, Zenon
    <3>3. written' = emitted' \o more
      BY <3>1, <3>4, Zenon DEF c
    <3> QED
      BY <3>3, <2>1, <2>2, ConcatEmptySeq
  <2> QED
    BY <1>0, <1>2, <2>1, <2>2, <2>3, <2>4, <2>5, BufferFacts
    DEF WriteLine, LogLinesOK
<1>3. CASE NextLine
  <2> PICK p \in 1..Len(rest) :
        /\ FirstNewline(rest, p)
        /\ Logs(Before(rest, p))
        /\ rest' = After(rest, p)
        /\ emitted' = emitted \o (Before(rest, p) \o <<NL>>)
    BY <1>3 DEF NextLine
  <2> DEFINE line == Before(rest, p)
             more == After(rest, p)
  <2>1. /\ line \in Seq(Byte) /\ more \in Seq(Byte) /\ NoNewlines(line)
        /\ rest = (line \o <<NL>>) \o more
    BY CutAtNewline
  <2>2. LogLinesOK(log')
    BY <1>0, <2>1, LogsOneLine DEF Logs
  <2>3. emitted' \in Seq(Byte)
    BY <2>1, MoveLine
  <2>4. incomplete = <<>> /\ incomplete' = <<>>
    BY <1>3 DEF NextLine
  <2>5. written' = emitted' \o (incomplete' \o rest')
    <3>1. written = emitted \o ((line \o <<NL>>) \o more)
      BY <2>1, <2>4, ConcatEmptySeq
    <3>2. emitted \o ((line \o <<NL>>) \o more) = (emitted \o (line \o <<NL>>)) \o more
      BY ONLY <1>a, <2>1, MoveLine, Zenon
    <3>3. written = emitted' \o more
      BY <3>1, <3>2, Zenon
    <3> QED
      BY <1>3, <3>3, <2>1, <2>4, ConcatEmptySeq DEF NextLine
  <2> QED
    BY <1>3, <2>1, <2>2, <2>3, <2>4, <2>5 DEF NextLine, LogLinesOK
<1>4. CASE EndWrite
  <2>1. incomplete' = rest /\ NoNewlines(rest)
    BY <1>4, BufferFacts, ConcatEmptySeq DEF EndWrite
  <2>2. written' = emitted' \o (incomplete' \o rest')
    BY <1>4, <2>1, ConcatEmptySeq DEF EndWrite
  <2> QED
    BY <1>0, <1>4, <2>1, <2>2 DEF EndWrite
<1>5. ASSUME NEW n \in Sizes, SetLen(n) PROVE LogInv'
  <2>1. n \in Nat
    BY LogAssumption
  <2>2. incomplete' \in Seq(Byte) /\ NoNewlines(incomplete')
    BY <1>5, <2>1, ResizedFacts DEF SetLen
  <2>3. written' \in Seq(Byte) /\ written' = emitted' \o (incomplete' \o rest')
    BY <1>5, <2>2, ConcatLaws DEF SetLen
  <2> QED
    BY <1>5, <2>2, <2>3 DEF SetLen
<1>6. CASE Drop
  <2>1. LogLinesOK(log')
    BY <1>0, <1>6, LogsOneLine DEF Drop, Logs
  <2> QED
    BY <1>6, <2>1 DEF Drop, LogLinesOK
<1>7. CASE UNCHANGED vars
  BY <1>7 DEF vars
<1> QED
  BY <1>1, <1>2, <1>3, <1>4, <1>5, <1>6, <1>7 DEF Next

(***************************************************************************)
(* LogInv is an invariant of `LogForwarder`, for every set of buffers.     *)
(***************************************************************************)
THEOREM LogInvariant == Spec => []LogInv
  BY LogInit, LogStep, PTL DEF Spec

(***************************************************************************)
(* Whatever the guest writes and however it cuts it into writes, no byte   *)
(* is lost, duplicated or reordered between the guest and the log.         *)
(***************************************************************************)
THEOREM EveryByteAccounted == Spec => []NothingLost
<1>1. LogInv => NothingLost
  BY DEF LogInv
<1> QED
  BY <1>1, LogInvariant, PTL

(***************************************************************************)
(* A sequence of bytes with no line end is text.                           *)
(***************************************************************************)
LEMMA NoNewlinesIsText ==
    ASSUME NEW s \in Seq(Byte), NoNewlines(s)
    PROVE  s \in Seq(Text)
<1>1. \A i \in 1..Len(s) : s[i] \in Text
  BY ElementOfSeq DEF NoNewlines, Byte
<1> QED
  BY <1>1, LenProperties, SMT

(***************************************************************************)
(* A concatenation extends its first part, in the sense of the line log.   *)
(***************************************************************************)
LEMMA ConcatExtends ==
    ASSUME NEW s \in Seq(Byte), NEW t \in Seq(Byte), NoNewlines(s), NoNewlines(t)
    PROVE  LineLog!ExtendsText(s \o t, s)
<1>1. s \o t \in Seq(Text)
  BY ConcatNoNewlines, NoNewlinesIsText
<1>2. Len(s \o t) = Len(s) + Len(t)
  BY ConcatProperties
<1>3. SubSeq(s \o t, 1, Len(s)) = s
  <2>1. CASE s = <<>>
    BY <2>1, SubSeqEmpty, SMT
  <2>2. CASE s # <<>>
    <3>1. 1 \in 1..Len(s) /\ Len(s) \in 1..Len(s)
      BY <2>2, EmptySeq, SMT
    <3> QED
      BY <3>1, SubSeqOfConcat1, SubSeqFull
  <2> QED
    BY <2>1, <2>2
<1> QED
  BY <1>1, <1>2, <1>3, SMT DEF LineLog!ExtendsText

(***************************************************************************)
(* `self.logger.log(line)` adds one record at the end of the log.          *)
(***************************************************************************)
LEMMA AppendIsOneRecord ==
    ASSUME NEW line, log \in Seq(Seq(Byte)), line \in Seq(Byte), log' = Append(log, line)
    PROVE  LineLog!OneRecord /\ log'[Len(log')] = line
<1>1. /\ log' \in Seq(Seq(Byte))
      /\ Len(log') = Len(log) + 1
      /\ \A i \in 1..Len(log) : log'[i] = log[i]
      /\ log'[Len(log) + 1] = line
  BY AppendProperties
<1>2. SubSeq(log', 1, Len(log)) = log
  BY <1>1, SMT
<1> QED
  BY <1>1, <1>2 DEF LineLog!OneRecord

(***************************************************************************)
(* `set_len` keeps the text up to the shorter of the two lengths.          *)
(***************************************************************************)
LEMMA ResizedPrefix ==
    ASSUME NEW s \in Seq(Byte), NoNewlines(s), NEW n \in Nat
    PROVE  LET r == Resized(s, n)
               m == IF Len(s) < Len(r) THEN Len(s) ELSE Len(r)
           IN  SubSeq(r, 1, m) = SubSeq(s, 1, m)
<1> DEFINE r == Resized(s, n)
           m == IF Len(s) < Len(r) THEN Len(s) ELSE Len(r)
<1>1. r \in Seq(Byte) /\ Len(r) = n
  BY ResizedFacts
<1>2. m \in Nat /\ m <= Len(s) /\ m <= Len(r)
  BY <1>1, SMT
<1>3. \A i \in 1..m : r[i] = s[i]
  BY <1>1, <1>2, SMT DEF Resized
<1> HIDE DEF r, m
<1>4. SubSeq(r, 1, m) = SubSeq(s, 1, m)
  BY <1>2, <1>3, SMT
<1> QED
  BY <1>4 DEF r, m

(***************************************************************************)
(* Every step of `LogForwarder` is a step of the line log or a stutter.    *)
(***************************************************************************)
LEMMA LineLogStep ==
    LogInv /\ [Next]_vars => [LineLog!Next]_(LineLog!vars)
<1> SUFFICES ASSUME LogInv, [Next]_vars
             PROVE  [LineLog!Next]_(LineLog!vars)
  OBVIOUS
<1>0. /\ incomplete \in Seq(Byte) /\ NoNewlines(incomplete)
      /\ rest \in Seq(Byte) /\ log \in Seq(Seq(Byte))
      /\ pc = "scan" => incomplete = <<>>
  BY DEF LogInv, TypeOK
<1>1. ASSUME NEW buf \in Buffers, WriteText(buf) PROVE LineLog!AddText
  <2>1. buf \in Seq(Byte) /\ NoNewlines(buf)
    BY <1>1, BufferFacts DEF WriteText
  <2>2. LineLog!ExtendsText(incomplete', incomplete)
    BY <1>0, <1>1, <2>1, ConcatExtends DEF WriteText
  <2> QED
    BY <1>1, <2>2 DEF WriteText, LineLog!AddText
<1>2. ASSUME NEW buf \in Buffers, WriteLine(buf) PROVE LineLog!EndLine
  <2> buf \in Seq(Byte)
    BY BufferFacts
  <2> PICK p \in 1..Len(buf) :
        /\ FirstNewline(buf, p)
        /\ \/ /\ incomplete = <<>>
              /\ Logs(Before(buf, p))
              /\ UNCHANGED incomplete
           \/ /\ incomplete # <<>>
              /\ Logs(incomplete \o Before(buf, p))
              /\ incomplete' = <<>>
    BY <1>2 DEF WriteLine
  <2>1. Before(buf, p) \in Seq(Byte) /\ NoNewlines(Before(buf, p))
    BY CutAtNewline
  <2> DEFINE line == incomplete \o Before(buf, p)
  <2>2. log' = Append(log, line) /\ incomplete' = <<>>
    BY <2>1, ConcatEmptySeq DEF Logs
  <2>3. line \in Seq(Byte) /\ LineLog!ExtendsText(line, incomplete)
    BY <1>0, <2>1, ConcatProperties, ConcatExtends
  <2>4. LineLog!OneRecord /\ log'[Len(log')] = line
    BY <1>0, <2>2, <2>3, AppendIsOneRecord
  <2> QED
    BY <1>2, <2>2, <2>3, <2>4 DEF WriteLine, LineLog!EndLine
<1>3. CASE NextLine
  <2> PICK p \in 1..Len(rest) : FirstNewline(rest, p) /\ Logs(Before(rest, p))
    BY <1>3 DEF NextLine
  <2> DEFINE line == Before(rest, p)
  <2>1. line \in Seq(Byte) /\ NoNewlines(line)
    BY <1>0, CutAtNewline
  <2>2. incomplete = <<>> /\ incomplete' = <<>>
    BY <1>0, <1>3 DEF NextLine
  <2>3. LineLog!ExtendsText(line, incomplete)
    <3>1. LineLog!ExtendsText(incomplete \o line, incomplete)
      BY <1>0, <2>1, ConcatExtends
    <3>2. incomplete \o line = line
      BY <2>1, <2>2, ConcatEmptySeq
    <3> QED
      BY <3>1, <3>2
  <2>4. LineLog!OneRecord /\ log'[Len(log')] = line
    BY <1>0, <2>1, AppendIsOneRecord DEF Logs
  <2>5. LineLog!EndLine
    BY <1>3, <2>2, <2>3, <2>4 DEF NextLine, LineLog!EndLine
  <2> QED
    BY <2>5 DEF LineLog!Next
<1>4. CASE EndWrite
  <2>1. NoNewlines(rest)
    BY <1>4, BufferFacts DEF EndWrite
  <2>2. LineLog!ExtendsText(incomplete', incomplete)
    BY <1>0, <1>4, <2>1, ConcatExtends DEF EndWrite
  <2>3. LineLog!AddText
    BY <1>4, <2>2 DEF EndWrite, LineLog!AddText
  <2> QED
    BY <2>3 DEF LineLog!Next
<1>5. ASSUME NEW n \in Sizes, SetLen(n) PROVE LineLog!Resize
  <2>1. n \in Nat
    BY LogAssumption
  <2>2. incomplete' \in Seq(Text)
    BY <1>0, <1>5, <2>1, ResizedFacts, NoNewlinesIsText DEF SetLen
  <2> QED
    BY <1>0, <1>5, <2>1, <2>2, ResizedPrefix DEF SetLen, LineLog!Resize
<1>6. CASE Drop
  BY <1>6 DEF Drop, Logs, LineLog!Close, LineLog!Next
<1>7. CASE UNCHANGED vars
  BY <1>7 DEF vars, LineLog!vars
<1> QED
  BY <1>1, <1>2, <1>3, <1>4, <1>5, <1>6, <1>7 DEF Next, LineLog!Next

(***************************************************************************)
(* `LogForwarder` implements the line log: what the server's log gets of a *)
(* guest's stream does not depend on how the guest cut it into writes.     *)
(***************************************************************************)
THEOREM ForwarderImplementsLineLog == Spec => LineLogSpec
<1>1. Init => LineLog!Init
  BY DEF Init, LineLog!Init
<1> QED
  BY <1>1, LineLogStep, LogInvariant, PTL DEF Spec, LineLogSpec, LineLog!Spec

(***************************************************************************)
(* The elements of a concatenation.                                        *)
(***************************************************************************)
LEMMA ConcatAt ==
    \A s, t \in Seq(Byte) :
        /\ s \o t \in Seq(Byte) /\ Len(s \o t) = Len(s) + Len(t)
        /\ \A j \in 1..(Len(s) + Len(t)) :
               (s \o t)[j] = IF j <= Len(s) THEN s[j] ELSE t[j - Len(s)]
  BY ConcatProperties

(***************************************************************************)
(* The line ends of a stream are finitely many, in it and up to a place of *)
(* it.                                                                     *)
(***************************************************************************)
LEMMA LineEndsFinite ==
    ASSUME NEW s \in Seq(Byte), NEW n
    PROVE  /\ IsFiniteSet(LineEnds(s)) /\ Cardinality(LineEnds(s)) \in Nat
           /\ IsFiniteSet(LineEnds(s) \cap 1..n) /\ Cardinality(LineEnds(s) \cap 1..n) \in Nat
           /\ Cardinality(LineEnds(s) \cap 1..n) <= Cardinality(LineEnds(s))
<1>1. IsFiniteSet(1..Len(s))
  BY FS_Interval
<1>2. LineEnds(s) \subseteq 1..Len(s)
  BY DEF LineEnds
<1>3. IsFiniteSet(LineEnds(s))
  BY <1>1, <1>2, FS_Subset
<1>4. LineEnds(s) \cap 1..n \subseteq LineEnds(s)
  OBVIOUS
<1>5. /\ IsFiniteSet(LineEnds(s) \cap 1..n)
      /\ Cardinality(LineEnds(s) \cap 1..n) <= Cardinality(LineEnds(s))
  BY <1>3, <1>4, FS_Subset
<1> QED
  BY <1>3, <1>5, FS_CardinalityType

(***************************************************************************)
(* What is written behind a stream changes none of its lines.              *)
(***************************************************************************)
LEMMA LinesStay ==
    ASSUME NEW s \in Seq(Byte), NEW t \in Seq(Byte), NEW i \in LineEnds(s)
    PROVE  /\ i \in LineEnds(s \o t)
           /\ LineEnds(s \o t) \cap 1..i = LineEnds(s) \cap 1..i
           /\ \A line : IsLine(s, i, line) => IsLine(s \o t, i, line)
<1> DEFINE e == s \o t
<1>1. /\ e \in Seq(Byte) /\ Len(e) = Len(s) + Len(t)
      /\ \A j \in 1..Len(s) : e[j] = s[j]
  BY ConcatProperties
<1> HIDE DEF e
<1>2. i \in 1..Len(s) /\ i \in Nat /\ Len(s) \in Nat /\ Len(t) \in Nat
  BY DEF LineEnds
<1>3. i \in LineEnds(e) /\ LineEnds(e) \cap 1..i = LineEnds(s) \cap 1..i
  <2>1. \A j \in 1..i : j \in 1..Len(s) /\ j \in 1..Len(e) /\ e[j] = s[j]
    BY <1>1, <1>2
  <2>2. i \in 1..i
    BY <1>2
  <2> QED
    BY <2>1, <2>2 DEF LineEnds
<1>4. ASSUME NEW line, IsLine(s, i, line) PROVE IsLine(e, i, line)
  <2>1. PICK p \in 0..(i - 1) : /\ p = 0 \/ s[p] = NL
                                /\ \A j \in (p + 1)..(i - 1) : s[j] # NL
                                /\ line = SubSeq(s, p + 1, i - 1)
    BY <1>4 DEF IsLine
  <2>2. p = 0 \/ e[p] = NL
    BY <1>1, <1>2, <2>1
  <2>3. \A j \in (p + 1)..(i - 1) : e[j] # NL
    <3>1. \A j \in (p + 1)..(i - 1) : j \in 1..Len(s)
      BY <1>2
    <3> QED
      BY <1>1, <2>1, <3>1
  <2>4. SubSeq(e, p + 1, i - 1) = SubSeq(s, p + 1, i - 1)
    <3>1. /\ SubSeq(e, p + 1, i - 1) \in Seq(Byte) /\ SubSeq(s, p + 1, i - 1) \in Seq(Byte)
          /\ Len(SubSeq(e, p + 1, i - 1)) = (i - 1) - p /\ Len(SubSeq(s, p + 1, i - 1)) = (i - 1) - p
          /\ \A j \in 1..((i - 1) - p) : /\ SubSeq(e, p + 1, i - 1)[j] = e[p + j]
                                         /\ SubSeq(s, p + 1, i - 1)[j] = s[p + j]
      BY <1>1, <1>2, <2>1
    <3>2. \A j \in 1..((i - 1) - p) : e[p + j] = s[p + j]
      BY <1>1, <1>2
    <3> QED
      BY <3>1, <3>2, SeqEqual
  <2> QED
    BY <2>1, <2>2, <2>3, <2>4 DEF IsLine
<1> QED
  BY <1>3, <1>4 DEF e

(***************************************************************************)
(* The text behind the last line end of a stream is its unfinished line.   *)
(***************************************************************************)
LEMMA RestIsLine ==
    ASSUME NEW s \in Seq(Byte), NEW c \in Seq(Byte), NEW d \in Seq(Byte),
           EndsLine(s), NoNewlines(c)
    PROVE  IsLine(s \o (c \o d), Len(s) + Len(c) + 1, c)
<1> DEFINE x == c \o d
           e == s \o x
           i == Len(s) + Len(c) + 1
<1>1. /\ x \in Seq(Byte) /\ Len(x) = Len(c) + Len(d)
      /\ \A j \in 1..Len(c) : x[j] = c[j]
  BY ConcatProperties
<1> HIDE DEF x
<1>0. /\ e \in Seq(Byte) /\ Len(e) = Len(s) + Len(x)
      /\ \A j \in 1..(Len(s) + Len(x)) : e[j] = IF j <= Len(s) THEN s[j] ELSE x[j - Len(s)]
  BY <1>1, ConcatAt
<1> HIDE DEF e
<1>2. /\ e \in Seq(Byte) /\ Len(e) = Len(s) + Len(x)
      /\ \A j \in 1..Len(s) : e[j] = s[j]
      /\ \A j \in 1..Len(x) : e[Len(s) + j] = x[j]
  BY <1>0, <1>1
<1>3. Len(s) \in Nat /\ Len(c) \in Nat /\ Len(d) \in Nat /\ i \in Nat /\ i - 1 = Len(s) + Len(c)
  OBVIOUS
<1>4. Len(s) \in 0..(i - 1) /\ (Len(s) = 0 \/ e[Len(s)] = NL)
  BY <1>2, <1>3 DEF EndsLine
<1>5. \A j \in 1..Len(c) : e[Len(s) + j] = c[j]
  BY <1>1, <1>2, <1>3
<1>6. \A j \in (Len(s) + 1)..(i - 1) : e[j] # NL
  <2>1. ASSUME NEW j \in (Len(s) + 1)..(i - 1) PROVE e[j] # NL
    <3>1. j - Len(s) \in 1..Len(c) /\ j = Len(s) + (j - Len(s))
      BY <1>3
    <3> QED
      BY <1>5, <3>1 DEF NoNewlines
  <2> QED
    BY <2>1
<1>7. c = SubSeq(e, Len(s) + 1, i - 1)
  <2>1. /\ SubSeq(e, Len(s) + 1, i - 1) \in Seq(Byte)
        /\ Len(SubSeq(e, Len(s) + 1, i - 1)) = Len(c)
        /\ \A j \in 1..Len(c) : SubSeq(e, Len(s) + 1, i - 1)[j] = e[Len(s) + j]
    BY <1>1, <1>2, <1>3
  <2> QED
    BY <1>5, <2>1, SeqEqual
<1> QED
  BY <1>4, <1>6, <1>7 DEF IsLine, x, e

(***************************************************************************)
(* A line behind whole lines is one record more: what                      *)
(* `self.logger.log(..)` appends for a stream that grows by a line and its *)
(* line end.                                                               *)
(***************************************************************************)
LEMMA OneMoreLine ==
    ASSUME NEW s \in Seq(Byte), NEW line \in Seq(Byte), NEW lines \in Seq(Seq(Byte)),
           EndsLine(s), NoNewlines(line), LinesOf(s, lines)
    PROVE  /\ LinesOf(s \o (line \o <<NL>>), Append(lines, line))
           /\ EndsLine(s \o (line \o <<NL>>))
<1> DEFINE x == line \o <<NL>>
           e == s \o x
           more == Append(lines, line)
           last == Len(s) + Len(line) + 1
<1>0. <<NL>> \in Seq(Byte) /\ Len(<<NL>>) = 1 /\ <<NL>>[1] = NL
  BY DEF Byte
<1>1. /\ x \in Seq(Byte) /\ Len(x) = Len(line) + 1
      /\ \A j \in 1..(Len(line) + 1) : x[j] = IF j <= Len(line) THEN line[j] ELSE NL
  <2> DEFINE nl == <<NL>>
  <2>0. nl \in Seq(Byte) /\ Len(nl) = 1 /\ nl[1] = NL
    BY <1>0
  <2> HIDE DEF nl
  <2>1. /\ line \o nl \in Seq(Byte) /\ Len(line \o nl) = Len(line) + Len(nl)
        /\ \A j \in 1..(Len(line) + Len(nl)) :
               (line \o nl)[j] = IF j <= Len(line) THEN line[j] ELSE nl[j - Len(line)]
    BY <2>0, ConcatProperties
  <2>2. x = line \o nl
    BY DEF nl
  <2> HIDE DEF x
  <2> QED
    BY <2>0, <2>1, <2>2
<1>2. IsLine(s \o x, last, line)
  BY <1>0, RestIsLine
<1> HIDE DEF x
<1>3. /\ e \in Seq(Byte) /\ Len(e) = Len(s) + Len(x)
      /\ \A j \in 1..(Len(s) + Len(x)) : e[j] = IF j <= Len(s) THEN s[j] ELSE x[j - Len(s)]
  BY <1>1, ConcatAt
<1>4. \A i \in LineEnds(s) :
        /\ i \in LineEnds(e)
        /\ LineEnds(e) \cap 1..i = LineEnds(s) \cap 1..i
        /\ \A l : IsLine(s, i, l) => IsLine(e, i, l)
  BY <1>1, LinesStay
<1>5. IsLine(e, last, line)
  BY <1>2
<1> HIDE DEF e
<1>6. Len(s) \in Nat /\ Len(line) \in Nat /\ last = Len(e) /\ last \in 1..Len(e) /\ e[last] = NL
  BY <1>1, <1>3
<1>7. LineEnds(e) = LineEnds(s) \cup {last} /\ last \notin LineEnds(s)
  <2>1. \A j \in 1..Len(e) : j \in 1..Len(s) \/ j = last \/ j - Len(s) \in 1..Len(line)
    BY <1>6
  <2>2. \A j \in 1..Len(e) : j - Len(s) \in 1..Len(line) => e[j] = line[j - Len(s)]
    <3>1. \A j \in 1..Len(e) : j - Len(s) \in 1..Len(line) => e[j] = x[j - Len(s)]
      BY <1>3, <1>6
    <3>2. \A j \in 1..Len(line) : x[j] = line[j]
      BY <1>1, <1>6
    <3> QED
      BY <3>1, <3>2
  <2>3. \A j \in 1..Len(s) : e[j] = s[j] /\ j \in 1..Len(e)
    BY <1>6, <1>3, <1>1
  <2>4. last \notin 1..Len(s)
    BY <1>6
  <2> QED
    BY <1>6, <2>1, <2>2, <2>3, <2>4 DEF LineEnds, NoNewlines
<1>8. /\ Cardinality(LineEnds(s)) \in Nat
      /\ Cardinality(LineEnds(e)) = Cardinality(LineEnds(s)) + 1
  BY <1>7, LineEndsFinite, FS_AddElement
<1>9. LineEnds(e) \cap 1..last = LineEnds(e)
  BY <1>6 DEF LineEnds
<1>10. /\ more \in Seq(Seq(Byte)) /\ Len(more) = Len(lines) + 1
       /\ \A k \in 1..Len(lines) : more[k] = lines[k]
       /\ more[Len(lines) + 1] = line
  BY AppendProperties
<1> HIDE DEF more
<1>11. Len(lines) = Cardinality(LineEnds(s)) /\ Len(more) = Cardinality(LineEnds(e))
  BY <1>8, <1>10 DEF LinesOf
<1>12. ASSUME NEW i \in LineEnds(e)
       PROVE  IsLine(e, i, more[Cardinality(LineEnds(e) \cap 1..i)])
  <2>1. CASE i = last
    BY <1>5, <1>8, <1>9, <1>10, <1>11, <2>1
  <2>2. CASE i \in LineEnds(s)
    <3> DEFINE k == Cardinality(LineEnds(s) \cap 1..i)
    <3>1. k \in Nat /\ k <= Len(lines)
      BY <1>11, LineEndsFinite
    <3>2. k # 0
      <4>1. i \in LineEnds(s) \cap 1..i
        BY <2>2 DEF LineEnds
      <4> QED
        BY <4>1, LineEndsFinite, FS_EmptySet
    <3>3. more[k] = lines[k]
      BY <1>10, <3>1, <3>2
    <3>4. IsLine(s, i, lines[k])
      BY <2>2 DEF LinesOf
    <3> QED
      BY <1>4, <2>2, <3>3, <3>4
  <2> QED
    BY <1>7, <2>1, <2>2
<1>13. LinesOf(e, more)
  BY <1>11, <1>12 DEF LinesOf
<1>14. EndsLine(e)
  BY <1>6 DEF EndsLine
<1> QED
  BY <1>13, <1>14 DEF e, x, more

(***************************************************************************)
(* Text behind whole lines finishes none.                                  *)
(***************************************************************************)
LEMMA TextFinishesNoLine ==
    ASSUME NEW s \in Seq(Byte), NEW c \in Seq(Byte), NEW lines,
           EndsLine(s), NoNewlines(c), LinesOf(s, lines)
    PROVE  LinesOf(s \o c, lines) /\ IsLine(s \o c, Len(s \o c) + 1, c)
<1> DEFINE e == s \o c
<1>1. /\ e \in Seq(Byte) /\ Len(e) = Len(s) + Len(c)
      /\ \A j \in 1..(Len(s) + Len(c)) : e[j] = IF j <= Len(s) THEN s[j] ELSE c[j - Len(s)]
  BY ConcatProperties
<1>2. IsLine(e, Len(e) + 1, c)
  <2>1. <<>> \in Seq(Byte) /\ c \o <<>> = c
    BY ConcatEmptySeq
  <2>2. IsLine(s \o (c \o <<>>), Len(s) + Len(c) + 1, c)
    BY <2>1, RestIsLine
  <2> QED
    BY <1>1, <2>1, <2>2
<1>3. \A i \in LineEnds(s) :
        /\ i \in LineEnds(e)
        /\ LineEnds(e) \cap 1..i = LineEnds(s) \cap 1..i
        /\ \A l : IsLine(s, i, l) => IsLine(e, i, l)
  BY LinesStay
<1> HIDE DEF e
<1>4. LineEnds(e) = LineEnds(s)
  <2>1. \A j \in 1..Len(e) : j \in 1..Len(s) \/ j - Len(s) \in 1..Len(c)
    BY <1>1
  <2>2. \A j \in 1..Len(e) : j - Len(s) \in 1..Len(c) => e[j] = c[j - Len(s)]
    BY <1>1
  <2>3. \A j \in 1..Len(s) : e[j] = s[j]
    BY <1>1
  <2> QED
    BY <1>3, <2>1, <2>2, <2>3 DEF LineEnds, NoNewlines
<1>5. LinesOf(e, lines)
  BY <1>3, <1>4 DEF LinesOf
<1> QED
  BY <1>2, <1>5 DEF e

(***************************************************************************)
(* The invariant of the lines holds of a new `LogForwarder`.               *)
(***************************************************************************)
LEMMA LinesInit == Init => LinesInv
<1> SUFFICES ASSUME Init PROVE LinesInv
  OBVIOUS
<1>1. LogInv
  BY LogInit
<1>2. LineEnds(<<>>) = {}
  BY DEF LineEnds
<1>3. LinesOf(<<>>, <<>>)
  BY <1>2, FS_EmptySet DEF LinesOf
<1> QED
  BY <1>1, <1>3 DEF Init, LinesInv, EndsLine

(***************************************************************************)
(* Every operation of `LogForwarder` preserves it.                         *)
(***************************************************************************)
LEMMA LinesStep == LinesInv /\ [Next]_vars => LinesInv'
<1> SUFFICES ASSUME LinesInv, [Next]_vars PROVE LinesInv'
  OBVIOUS
<1>0. /\ LogInv /\ LogInv'
      /\ incomplete \in Seq(Byte) /\ emitted \in Seq(Byte) /\ log \in Seq(Seq(Byte))
      /\ rest \in Seq(Byte) /\ NoNewlines(incomplete)
  BY LogStep DEF LinesInv, LogInv, TypeOK
<1>1. ASSUME UNCHANGED <<emitted, log>>, pc' # "dropped", pc # "dropped" PROVE LinesInv'
  BY <1>0, <1>1 DEF LinesInv, LinesOf, LineEnds, IsLine, EndsLine
<1>2. ASSUME NEW buf \in Buffers, WriteText(buf) PROVE LinesInv'
  BY <1>1, <1>2 DEF WriteText
<1>3. ASSUME NEW buf \in Buffers, WriteLine(buf) PROVE LinesInv'
  <2>0. buf \in Seq(Byte) /\ pc = "idle" /\ pc' = "scan"
    BY <1>3, BufferFacts DEF WriteLine
  <2>1. PICK p \in 1..Len(buf) :
        /\ FirstNewline(buf, p)
        /\ \/ incomplete = <<>> /\ Logs(Before(buf, p))
           \/ Logs(incomplete \o Before(buf, p))
        /\ emitted' = (emitted \o incomplete) \o (Before(buf, p) \o <<NL>>)
    BY <1>3 DEF WriteLine
  <2> DEFINE line == Before(buf, p)
             whole == incomplete \o line
  <2>2. line \in Seq(Byte) /\ NoNewlines(line)
    BY <2>0, <2>1, CutAtNewline
  <2> HIDE DEF line
  <2>3. whole \in Seq(Byte) /\ NoNewlines(whole)
    BY <1>0, <2>2, ConcatNoNewlines
  <2>4. log' = Append(log, whole)
    BY <2>1, <2>2, ConcatEmptySeq DEF Logs, line
  <2>5. emitted' = emitted \o (whole \o <<NL>>)
    <3>1. <<NL>> \in Seq(Byte) /\ line \o <<NL>> \in Seq(Byte)
      BY <2>2, ConcatLaws
    <3>2. (emitted \o incomplete) \o (line \o <<NL>>) = emitted \o (incomplete \o (line \o <<NL>>))
      BY <1>0, <3>1, Assoc, Zenon
    <3>3. incomplete \o (line \o <<NL>>) = whole \o <<NL>>
      BY <1>0, <2>2, <3>1, Assoc
    <3> QED
      BY <2>1, <3>2, <3>3 DEF line
  <2> HIDE DEF whole
  <2>6. LinesOf(emitted', log') /\ EndsLine(emitted')
    BY <1>0, <2>0, <2>3, <2>4, <2>5, OneMoreLine DEF LinesInv
  <2> QED
    BY <1>0, <2>0, <2>6 DEF LinesInv, LinesOf, LineEnds, IsLine, EndsLine
<1>4. CASE NextLine
  <2>0. pc = "scan" /\ pc' = "scan"
    BY <1>4 DEF NextLine
  <2>1. PICK p \in 1..Len(rest) :
        /\ FirstNewline(rest, p)
        /\ Logs(Before(rest, p))
        /\ emitted' = emitted \o (Before(rest, p) \o <<NL>>)
    BY <1>4 DEF NextLine
  <2>2. Before(rest, p) \in Seq(Byte) /\ NoNewlines(Before(rest, p))
    BY <1>0, <2>1, CutAtNewline
  <2>3. LinesOf(emitted', log') /\ EndsLine(emitted')
    BY <1>0, <2>0, <2>1, <2>2, OneMoreLine DEF LinesInv, Logs
  <2> QED
    BY <1>0, <2>0, <2>3 DEF LinesInv, LinesOf, LineEnds, IsLine, EndsLine
<1>5. CASE EndWrite
  BY <1>1, <1>5 DEF EndWrite
<1>6. ASSUME NEW n \in Sizes, SetLen(n) PROVE LinesInv'
  BY <1>1, <1>6 DEF SetLen
<1>7. CASE Drop
  <2>1. pc = "idle" /\ pc' = "dropped" /\ UNCHANGED <<incomplete, emitted, written>>
    BY <1>7 DEF Drop
  <2>2. written = emitted \o incomplete /\ EndsLine(emitted) /\ LinesOf(emitted, log)
    BY <1>0, <2>1, ConcatEmptySeq DEF LogInv, NothingLost, LinesInv
  <2>3. LinesOf(Ended(written), log')
    <3>1. CASE incomplete = <<>>
      <4>1. written = emitted /\ log' = log
        BY <1>0, <1>7, <2>2, <3>1, ConcatEmptySeq DEF Drop
      <4> QED
        BY <2>2, <4>1 DEF Ended
    <3>2. CASE incomplete # <<>>
      <4>1. log' = Append(log, incomplete)
        BY <1>7, <3>2 DEF Drop, Logs
      <4>2. ~EndsLine(written)
        <5>1. /\ Len(written) = Len(emitted) + Len(incomplete)
              /\ \A j \in 1..(Len(emitted) + Len(incomplete)) :
                   written[j] = IF j <= Len(emitted) THEN emitted[j] ELSE incomplete[j - Len(emitted)]
          BY <1>0, <2>2, ConcatProperties
        <5>2. /\ Len(incomplete) \in Nat \ {0} /\ Len(emitted) \in Nat
              /\ Len(incomplete) \in 1..Len(incomplete)
              /\ incomplete[Len(incomplete)] # NL
          BY <1>0, <3>2 DEF NoNewlines
        <5>3. written[Len(written)] = incomplete[Len(incomplete)]
          BY <5>1, <5>2
        <5>4. written # <<>>
          BY <5>1, <5>2
        <5> QED
          BY <5>2, <5>3, <5>4 DEF EndsLine
      <4>3. Ended(written) = emitted \o (incomplete \o <<NL>>)
        <5>1. <<NL>> \in Seq(Byte)
          BY DEF Byte
        <5>2. Ended(written) = (emitted \o incomplete) \o <<NL>>
          BY <2>2, <4>2 DEF Ended
        <5> QED
          BY <1>0, <5>1, <5>2, Assoc
      <4> QED
        BY <1>0, <2>2, <4>1, <4>3, OneMoreLine
    <3> QED
      BY <3>1, <3>2
  <2>4. LinesOf(Ended(written'), log') /\ EndsLine(emitted')
    BY <2>1, <2>2, <2>3
  <2> QED
    BY <1>0, <2>1, <2>4 DEF LinesInv
<1>8. CASE UNCHANGED vars
  <2>1. CASE pc # "dropped"
    BY <1>1, <1>8, <2>1 DEF vars
  <2>2. CASE pc = "dropped"
    <3>1. LinesOf(Ended(written'), log') /\ EndsLine(emitted') /\ pc' = "dropped"
      BY <1>8, <2>2 DEF vars, LinesInv
    <3> QED
      BY <1>0, <3>1 DEF LinesInv
  <2> QED
    BY <2>1, <2>2
<1> QED
  BY <1>2, <1>3, <1>4, <1>5, <1>6, <1>7, <1>8 DEF Next

(***************************************************************************)
(* For every stream and every way to cut it into writes, the log holds the *)
(* lines of the stream and `incomplete` the text behind its last line end. *)
(***************************************************************************)
THEOREM ChunksDoNotShow == Spec => []ChunkingInvisible
<1>1. LinesInv => ChunkingInvisible
  <2> SUFFICES ASSUME LinesInv PROVE ChunkingInvisible
    OBVIOUS
  <2>1. CASE pc = "idle"
    <3>1. /\ incomplete \in Seq(Byte) /\ emitted \in Seq(Byte) /\ NoNewlines(incomplete)
          /\ EndsLine(emitted) /\ LinesOf(emitted, log) /\ rest = <<>>
          /\ written = emitted \o (incomplete \o rest)
      BY <2>1 DEF LinesInv, LogInv, TypeOK, NothingLost
    <3>2. written = emitted \o incomplete
      BY <3>1, ConcatEmptySeq
    <3> QED
      BY <2>1, <3>1, <3>2, TextFinishesNoLine DEF ChunkingInvisible
  <2>2. CASE pc # "idle"
    BY <2>2 DEF LinesInv, ChunkingInvisible
  <2> QED
    BY <2>1, <2>2
<1> QED
  BY <1>1, LinesInit, LinesStep, PTL DEF Spec

(***************************************************************************)
(* A stream has one log: ChunkingInvisible leaves no choice, and two runs  *)
(* of a guest that write the same stream log the same records.             *)
(***************************************************************************)
THEOREM OneLogOfAStream ==
    ASSUME NEW s \in Seq(Byte), NEW l \in Seq(Seq(Byte)), NEW m \in Seq(Seq(Byte)),
           LinesOf(s, l), LinesOf(s, m)
    PROVE  l = m
<1> DEFINE E == LineEnds(s)
           n == Cardinality(E)
           Rank(i) == Cardinality(E \cap 1..i)
<1>1. IsFiniteSet(E) /\ n \in Nat /\ Len(l) = n /\ Len(m) = n
  BY LineEndsFinite DEF LinesOf
<1>2. \A i \in E : IsLine(s, i, l[Rank(i)]) /\ IsLine(s, i, m[Rank(i)])
  BY DEF LinesOf
<1>3. ASSUME NEW i \in E, NEW a, NEW b, IsLine(s, i, a), IsLine(s, i, b) PROVE a = b
  <2>1. PICK p \in 0..(i - 1) : /\ p = 0 \/ s[p] = NL
                                /\ \A j \in (p + 1)..(i - 1) : s[j] # NL
                                /\ a = SubSeq(s, p + 1, i - 1)
    BY <1>3 DEF IsLine
  <2>2. PICK q \in 0..(i - 1) : /\ q = 0 \/ s[q] = NL
                                /\ \A j \in (q + 1)..(i - 1) : s[j] # NL
                                /\ b = SubSeq(s, q + 1, i - 1)
    BY <1>3 DEF IsLine
  <2>0. i \in Nat /\ p \in Nat /\ q \in Nat
    BY DEF LineEnds
  <2>3. ~(p < q)
    <3>1. p < q => q # 0 /\ q \in (p + 1)..(i - 1)
      BY <2>0
    <3> QED
      BY <2>1, <2>2, <3>1
  <2>4. ~(q < p)
    <3>1. q < p => p # 0 /\ p \in (q + 1)..(i - 1)
      BY <2>0
    <3> QED
      BY <2>1, <2>2, <3>1
  <2>5. p = q
    BY <2>0, <2>3, <2>4
  <2> QED
    BY <2>1, <2>2, <2>5
<1>4. \A i \in E : i \in Nat \ {0} /\ Rank(i) \in 1..n
  <2> SUFFICES ASSUME NEW i \in E PROVE i \in Nat \ {0} /\ Rank(i) \in 1..n
    OBVIOUS
  <2>1. i \in Nat \ {0} /\ i \in E \cap 1..i
    <3>1. i \in 1..Len(s)
      BY DEF LineEnds
    <3> QED
      BY <3>1
  <2>2. Rank(i) \in Nat /\ Rank(i) <= n /\ IsFiniteSet(E \cap 1..i)
    BY LineEndsFinite
  <2>3. Rank(i) # 0
    BY <2>1, <2>2, FS_EmptySet
  <2> QED
    BY <1>1, <2>1, <2>2, <2>3
<1>5. ASSUME NEW i \in E, NEW j \in E, i < j PROVE Rank(i) # Rank(j)
  <2>0. i \in Nat \ {0} /\ j \in Nat \ {0}
    BY <1>4
  <2>3. 1..i \subseteq 1..j /\ j \in 1..j /\ j \notin 1..i
    BY <1>5, <2>0
  <2>1. E \cap 1..i \subseteq E \cap 1..j /\ j \in E \cap 1..j /\ j \notin E \cap 1..i
    BY <2>3
  <2>2. IsFiniteSet(E \cap 1..j)
    BY LineEndsFinite
  <2>4. E \cap 1..i # E \cap 1..j
    BY <2>1
  <2> QED
    BY <2>1, <2>2, <2>4, FS_Subset
<1> HIDE DEF E, Rank
<1>6. ASSUME NEW k \in 1..n PROVE \E i \in E : Rank(i) = k
  <2> SUFFICES ASSUME \A i \in E : Rank(i) # k PROVE FALSE
    OBVIOUS
  <2> DEFINE T == 1..n \ {k}
             f == [i \in E |-> Rank(i)]
  <2>1. IsFiniteSet(1..n) /\ Cardinality(1..n) = n
    <3>1. ASSUME NEW c \in Nat PROVE IsFiniteSet(1..c) /\ Cardinality(1..c) = c
      <4>1. /\ IsFiniteSet(1..c)
            /\ Cardinality(1..c) = IF 1 > c THEN 0 ELSE (c - 1) + 1
        BY FS_Interval
      <4> QED
        BY <4>1
    <3> QED
      BY <1>1, <3>1
  <2>2. IsFiniteSet(T) /\ Cardinality(T) = n - 1
    BY <2>1, FS_RemoveElement
  <2>3. f \in [E -> T]
    BY <1>4
  <2>4. Cardinality(T) < Cardinality(E)
    BY <1>1, <2>2
  <2> HIDE DEF T, f
  <2>5. \E i, j \in E : i # j /\ f[i] = f[j]
    BY <1>1, <2>2, <2>3, <2>4, FS_PigeonHole
  <2>6. PICK i, j \in E : i # j /\ Rank(i) = Rank(j)
    BY <2>5 DEF f
  <2> QED
    BY <1>4, <1>5, <2>6
<1>7. ASSUME NEW k \in 1..n PROVE l[k] = m[k]
  BY <1>2, <1>3, <1>6
<1> QED
  BY <1>1, <1>7, SeqEqual
-----------------------------------------------------------------------------
(***************************************************************************)
(* What the fields of a line that does not panic can be.                   *)
(***************************************************************************)
LEMMA GoodLine ==
    ASSUME NEW line \in Line, ~Panics(line)
    PROVE  /\ line.kind = "status" => line.code \in Codes
           /\ line.kind = "header" => line.name \in Names /\ line.value \in Values
  BY DEF Line, Panics, Blank, TextLine, StatusLine, HeaderLine

(***************************************************************************)
(* "\n\n" first occurs in at most one place.                               *)
(***************************************************************************)
LEMMA SplitsOnce ==
    ASSUME NEW p \in Seq(Line), NEW d, NEW e, SplitsAt(p, d), SplitsAt(p, e)
    PROVE  d = e
<1>1. d \in Nat \ {0} /\ e \in Nat \ {0}
  BY DEF SplitsAt
<1>2. CASE d < e
  <2>1. d \in 1..(e - 1)
    BY <1>1, <1>2
  <2> QED
    BY <2>1 DEF SplitsAt
<1>3. CASE e < d
  <2>1. e \in 1..(d - 1)
    BY <1>1, <1>3
  <2> QED
    BY <2>1 DEF SplitsAt
<1> QED
  BY <1>1, <1>2, <1>3

(***************************************************************************)
(* The invariant holds when `from_str` is called.                          *)
(***************************************************************************)
LEMMA ResponseInitially == ResponseInit => ResponseInv
<1> SUFFICES ASSUME ResponseInit PROVE ResponseInv
  OBVIOUS
<1>1. ResponseTypeOK
  BY PayloadAssumption DEF ResponseInit, ResponseTypeOK, NoHeaders
<1> QED
  BY <1>1 DEF ResponseInit, ResponseInv, ReadsAsWritten, PanicsOnlyInHeader

(***************************************************************************)
(* Every step of the parser preserves the invariant.                       *)
(***************************************************************************)
LEMMA ResponseStep == ResponseInv /\ [ResponseNext]_responseVars => ResponseInv'
<1> SUFFICES ASSUME ResponseInv, [ResponseNext]_responseVars PROVE ResponseInv'
  OBVIOUS
<1>0. payload \in Seq(Line) /\ Len(payload) \in Nat
  BY ResponseAssumption DEF ResponseInv, ResponseTypeOK
<1>1. CASE Split
  <2>1. PICK e \in 1..Len(payload) : SplitsAt(payload, e) /\ end' = e
    BY <1>1 DEF Split
  <2>2. at' = 1 /\ status' = Ok /\ headers' = NoHeaders /\ payload' = payload /\ stage' = "lines"
    BY <1>1 DEF Split, ResponseInv
  <2>3. ResponseTypeOK'
    BY <1>1, <1>0, <2>1 DEF Split, ResponseInv, ResponseTypeOK
  <2>4. SetsStatus(payload, 0, Ok) /\ \A h \in Names : SetsHeader(payload, 0, h, NoHeaders[h])
    BY DEF SetsStatus, SetsHeader, NoHeaders
  <2> QED
    BY <2>1, <2>2, <2>3, <2>4 DEF ResponseInv, ReadsAsWritten, PanicsOnlyInHeader
<1>2. CASE NoSplit
  BY <1>0, <1>2 DEF NoSplit, ResponseInv, ResponseTypeOK, ReadsAsWritten, PanicsOnlyInHeader
<1>3. CASE ReadLine
  <2> DEFINE line == payload[at]
  <2>1. /\ stage = "lines" /\ stage' = "lines" /\ at \in Nat \ {0} /\ at <= end /\ at' = at + 1
        /\ end \in Nat /\ end' = end /\ payload' = payload /\ Takes(line) /\ ~Panics(line)
        /\ SplitsAt(payload, end)
    BY <1>3 DEF ReadLine, ResponseInv, ResponseTypeOK
  <2>2. end \in 1..(Len(payload) - 1) /\ at \in 1..Len(payload) /\ line \in Line
    BY <1>0, <2>1 DEF SplitsAt
  <2>3. /\ line.kind = "status" => line.code \in Codes
        /\ line.kind = "header" => line.name \in Names /\ line.value \in Values
    BY <2>1, <2>2, GoodLine
  <2>4. status' \in Codes /\ headers' \in [Names -> Values \cup {Absent}]
    BY <2>1, <2>3 DEF Takes, ResponseInv, ResponseTypeOK
  <2>5. \A i \in 1..at : ~Panics(payload[i])
    <3>1. \A i \in 1..at : i \in 1..(at - 1) \/ i = at
      BY <2>1
    <3> QED
      BY <2>1, <3>1 DEF ResponseInv
  <2>6. SetsStatus(payload, at, status')
    <3>1. CASE line.kind = "status"
      <4>1. status' = line.code
        BY <2>1, <3>1 DEF Takes
      <4>2. at \in 1..at /\ \A j \in (at + 1)..at : payload[j].kind # "status"
        BY <2>1
      <4> QED
        BY <3>1, <4>1, <4>2 DEF SetsStatus
    <3>2. CASE line.kind # "status"
      <4>1. status' = status /\ SetsStatus(payload, at - 1, status)
        BY <2>1, <3>2 DEF Takes, ResponseInv
      <4>2. CASE status = Ok /\ \A i \in 1..(at - 1) : payload[i].kind # "status"
        <5>1. \A i \in 1..at : i \in 1..(at - 1) \/ i = at
          BY <2>1, OneFurther
        <5> QED
          BY <3>2, <4>1, <4>2, <5>1 DEF SetsStatus
      <4>3. ASSUME NEW i \in 1..(at - 1),
                   payload[i].kind = "status" /\ payload[i].code = status,
                   \A j \in (i + 1)..(at - 1) : payload[j].kind # "status"
            PROVE  SetsStatus(payload, at, status')
        <5>1. i \in 1..at /\ \A j \in (i + 1)..at : j \in (i + 1)..(at - 1) \/ j = at
          BY <2>1, <4>3, OneFurther
        <5> QED
          BY <3>2, <4>1, <4>3, <5>1 DEF SetsStatus
      <4> QED
        BY <4>1, <4>2, <4>3 DEF SetsStatus
    <3> QED
      BY <3>1, <3>2
  <2>7. ASSUME NEW h \in Names PROVE SetsHeader(payload, at, h, headers'[h])
    <3> DEFINE Sets(l) == l.kind = "header" /\ l.name = h
    <3>1. CASE Sets(line)
      <4>1. headers'[h] = line.value
        BY <2>1, <3>1 DEF Takes, ResponseInv, ResponseTypeOK
      <4>2. at \in 1..at /\ \A j \in (at + 1)..at : ~Sets(payload[j])
        BY <2>1
      <4> QED
        BY <3>1, <4>1, <4>2 DEF SetsHeader
    <3>2. CASE ~Sets(line)
      <4>1. headers'[h] = headers[h] /\ SetsHeader(payload, at - 1, h, headers[h])
        BY <2>1, <2>3, <3>2 DEF Takes, ResponseInv, ResponseTypeOK
      <4>2. CASE headers[h] = Absent /\ \A i \in 1..(at - 1) : ~Sets(payload[i])
        <5>1. \A i \in 1..at : i \in 1..(at - 1) \/ i = at
          BY <2>1
        <5> QED
          BY <3>2, <4>1, <4>2, <5>1 DEF SetsHeader
      <4>3. ASSUME NEW i \in 1..(at - 1),
                   Sets(payload[i]) /\ payload[i].value = headers[h],
                   \A j \in (i + 1)..(at - 1) : ~Sets(payload[j])
            PROVE  SetsHeader(payload, at, h, headers'[h])
        <5>1. i \in 1..at /\ \A j \in (i + 1)..at : j \in (i + 1)..(at - 1) \/ j = at
          BY <2>1, <4>3, OneFurther
        <5> QED
          BY <3>2, <4>1, <4>3, <5>1 DEF SetsHeader
      <4> QED
        BY <4>1, <4>2, <4>3 DEF SetsHeader
    <3> QED
      BY <3>1, <3>2
  <2>8. ResponseTypeOK'
    BY <1>3, <2>1, <2>4 DEF ReadLine, ResponseInv, ResponseTypeOK
  <2>9. at' - 1 = at /\ at' <= end + 1
    BY <2>1
  <2> QED
    BY <2>1, <2>5, <2>6, <2>7, <2>8, <2>9 DEF ResponseInv, ReadsAsWritten, PanicsOnlyInHeader
<1>4. CASE PanicLine
  <2>1. SplitsAt(payload, end) /\ at \in 1..end /\ end \in 1..Len(payload)
    BY <1>0, <1>4 DEF PanicLine, ResponseInv, ResponseTypeOK, SplitsAt
  <2> QED
    BY <1>4, <2>1 DEF PanicLine, ResponseInv, ResponseTypeOK, ReadsAsWritten, PanicsOnlyInHeader
<1>5. CASE EndLines
  <2>1. /\ SplitsAt(payload, end) /\ at - 1 = end /\ end \in 1..Len(payload)
        /\ SetsStatus(payload, end, status)
        /\ \A h \in Names : SetsHeader(payload, end, h, headers[h])
        /\ \A i \in 1..end : ~Panics(payload[i])
    BY <1>0, <1>5 DEF EndLines, ResponseInv, ResponseTypeOK, SplitsAt
  <2>2. SubSeq(payload, end + 2, Len(payload)) \in Seq(Line)
    BY <1>0, <2>1
  <2>3. \A e \in 1..Len(payload) : SplitsAt(payload, e) => e = end
    BY <1>0, <2>1, SplitsOnce
  <2>4. ReadsAsWritten' /\ PanicsOnlyInHeader'
    BY <1>5, <2>1, <2>3 DEF EndLines, ReadsAsWritten, PanicsOnlyInHeader
  <2> QED
    BY <1>5, <2>2, <2>4 DEF EndLines, ResponseInv, ResponseTypeOK
<1>6. CASE UNCHANGED responseVars
  BY <1>6 DEF responseVars, ResponseInv, ResponseTypeOK, ReadsAsWritten, PanicsOnlyInHeader
<1> QED
  BY <1>1, <1>2, <1>3, <1>4, <1>5, <1>6 DEF ResponseNext

(***************************************************************************)
(* The invariant holds throughout a call of `from_str`.                    *)
(***************************************************************************)
THEOREM ResponseInvariant == ResponseSpec => []ResponseInv
  BY ResponseInitially, ResponseStep, PTL DEF ResponseSpec

(***************************************************************************)
(* For output of any length, `from_str` returns the status, the headers    *)
(* and the body that the declarative reading gives.                        *)
(***************************************************************************)
THEOREM ParserReadsAsWritten == ResponseSpec => []ReadsAsWritten
<1>1. ResponseInv => ReadsAsWritten
  BY DEF ResponseInv
<1> QED
  BY <1>1, ResponseInvariant, PTL

(***************************************************************************)
(* For output of any length, `from_str` panics exactly when a line of the  *)
(* header part does not parse.                                             *)
(***************************************************************************)
THEOREM ParserPanicsOnlyInHeader == ResponseSpec => []PanicsOnlyInHeader
<1>1. ResponseInv => PanicsOnlyInHeader
  BY DEF ResponseInv
<1> QED
  BY <1>1, ResponseInvariant, PTL
=============================================================================
