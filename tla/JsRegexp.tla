------------------------------ MODULE JsRegexp ------------------------------
(* Sets of characters as sorted lists of points, libunicode.c: <<p1, p2, p3, p4>>  *)
(* stands for the characters p1 .. p2-1 and p3 .. p4-1.  libregexp.c turns such a  *)
(* list into the operand of a range instruction and looks characters up in it by   *)
(* bisection.                                                                      *)
EXTENDS Integers, Sequences, FiniteSets, SequencesExt, TLC

CONSTANTS
  U16Max,      \* 0xffff
  MaxChar,     \* the last character, greater than U16Max
  UINT32_MAX,  \* the point after the last one
  LowerA, LowerZ, UpperA   \* 'a', 'z' and 'A'

Chars == 0 .. MaxChar

\* Bug: empty intervals stay.
cr_compressNone(pt) == pt

\* Drops empty intervals and joins adjacent ones.
RECURSIVE cr_compress(_)
cr_compress(pt) ==
  IF Len(pt) < 2 THEN << >>
  ELSE IF pt[1] = pt[2] THEN cr_compress(SubSeq(pt, 3, Len(pt)))
  ELSE IF Len(pt) > 3 /\ pt[2] = pt[3]
       THEN cr_compress(<<pt[1]>> \o SubSeq(pt, 4, Len(pt)))
       ELSE <<pt[1], pt[2]>> \o cr_compress(SubSeq(pt, 3, Len(pt)))

Inside(op, i, j) ==
  LET a == i % 2 = 1
      b == j % 2 = 1
  IN CASE op = "union" -> a \/ b
       [] op = "inter" -> a /\ b
       [] op = "xor"   -> a # b

\* One more point of a, of b or of both, in increasing order; it is kept where the result changes sides.
RECURSIVE Merge(_, _, _, _, _, _)
Merge(r, a, i, b, j, op) ==
  IF i = Len(a) /\ j = Len(b) THEN r
  ELSE LET fromA == i < Len(a) /\ (j < Len(b) => a[i + 1] <= b[j + 1])
           fromB == j < Len(b) /\ (i < Len(a) => b[j + 1] <= a[i + 1])
           i1 == IF fromA THEN i + 1 ELSE i
           j1 == IF fromB THEN j + 1 ELSE j
           v  == IF fromA THEN a[i + 1] ELSE b[j + 1]
       IN Merge(IF Inside(op, i1, j1) # (Len(r) % 2 = 1) THEN Append(r, v) ELSE r,
                a, i1, b, j1, op)

cr_op(a, b, op) == cr_compress(Merge(<< >>, a, 0, b, 0, op))

cr_union1(r, b) == cr_op(r, b, "union")

cr_union_interval(r, c1, c2) == cr_union1(r, <<c1, c2 + 1>>)

cr_invert(r) == cr_compress(<<0>> \o r \o <<UINT32_MAX>>)

\* With the ignoreCase flag the upper case forms of the lower case letters are added.
cr_canonicalize(r) ==
  LET a == cr_op(r, <<LowerA, LowerZ + 1>>, "inter")
  IN cr_union1(r, [i \in DOMAIN a |-> (a[i] + UpperA) - LowerA])

\* The range instruction: pairs of inclusive bounds, in 16 bits where the last bound allows it,
\* with 0xffff then meaning "and everything above".
re_emit_range(r) ==
  IF r = << >> THEN [op |-> "never", pairs |-> << >>]
  ELSE LET last  == r[Len(r)]
           high  == IF last = UINT32_MAX THEN r[Len(r) - 1] ELSE last
           short == high <= U16Max
           Bound(p) == IF short /\ p = UINT32_MAX THEN U16Max ELSE p - 1
       IN [op |-> IF short THEN "range" ELSE "range32",
           pairs |-> [k \in 1 .. Len(r) \div 2 |-> <<r[2 * k - 1], Bound(r[2 * k])>>]]

\* Bug: the search stops when one interval is left.
RECURSIVE BisectShort(_, _, _, _)
BisectShort(pairs, c, lo, hi) ==
  /\ lo < hi
  /\ LET k == (lo + hi) \div 2
     IN IF c < pairs[k][1] THEN BisectShort(pairs, c, lo, k - 1)
        ELSE IF c > pairs[k][2] THEN BisectShort(pairs, c, k + 1, hi)
        ELSE TRUE

RECURSIVE Bisect(_, _, _, _)
Bisect(pairs, c, lo, hi) ==
  /\ lo <= hi
  /\ LET k == (lo + hi) \div 2
     IN IF c < pairs[k][1] THEN Bisect(pairs, c, lo, k - 1)
        ELSE IF c > pairs[k][2] THEN Bisect(pairs, c, k + 1, hi)
        ELSE TRUE

\* REOP_range and REOP_range32: is character c accepted?
RangeMatch(g, c) ==
  LET n == Len(g.pairs)
  IN /\ g.op # "never"
     /\ c >= g.pairs[1][1]
     /\ \/ g.op = "range" /\ c >= U16Max /\ g.pairs[n][2] = U16Max
        \/ c <= g.pairs[n][2] /\ Bisect(g.pairs, c, 1, n)
-----------------------------------------------------------------------------
(* The regular expression engine, libregexp.c: a recursive descent parser that     *)
(* emits and patches bytecode as it goes (lre_compile), and a backtracking machine  *)
(* with an explicit stack of choice points that runs it (lre_exec).                 *)
(*                                                                                  *)
(* The pattern is a sequence of tokens: how characters, escapes and counts are      *)
(* spelled is left out.  Code addresses count instructions, not bytes, and the      *)
(* operand of a jump is relative to the next instruction, as in the code.           *)
(* Characters are small numbers; a pair of surrogates is read as one character      *)
(* with the unicode flag.                                                           *)

CONSTANTS
  Cases,        \* records [patterns, texts, flags]: patterns [ast, toks] (the tree and its
                \* tokens), subjects (sequences of code units) and flags [m, i, s, u, y]
  Starts,       \* values of lastIndex
  Lf, Hi, Lo, Pair,   \* '\n', a high and a low surrogate, the character they make
  StackSizeMax, CaptureCountMax, \* STACK_SIZE_MAX, CAPTURE_COUNT_MAX
  Inf           \* INT32_MAX as a repetition count

None == -1      \* NULL, a failed match

VARIABLES
  re,      \* the pattern
  f,       \* its flags
  text,    \* the subject
  prog,    \* what lre_compile returns
  m        \* the state of lre_exec_backtrack
vars == <<re, f, text, prog, m>>

-----------------------------------------------------------------------------
(* Instructions *)

Ins(op, v)  == [op |-> op, v |-> v, w |-> 0, n |-> 0, pairs |-> << >>]
Op(op)      == Ins(op, 0)
Two(op, v, w) == [Ins(op, v) EXCEPT !.w = w]

lre_canonicalize(c, u) ==
  IF u THEN IF c \in UpperA .. (UpperA + LowerZ) - LowerA THEN (c + LowerA) - UpperA ELSE c
       ELSE IF c \in LowerA .. LowerZ THEN (c + UpperA) - LowerA ELSE c

CharOps   == {"char", "dot", "any", "range", "range32", "never"}
AssertOps == {"line_start", "line_end", "word_boundary", "not_word_boundary"}

\* -1 when the atom is more than characters and assertions, else its number of characters.
re_is_simple_quantifier(atom) ==
  IF \E i \in DOMAIN atom : atom[i].op \notin CharOps \cup AssertOps THEN -1
  ELSE Len(SelectSeq(atom, LAMBDA x : x.op \in CharOps))

\* Does the atom always advance (1), maybe not (0), or depend on captures of its own (-1)?
re_check_advance(atom) ==
  LET Silent == {"line_start", "line_end", "push_i32", "push_char_pos", "drop", "word_boundary",
                 "not_word_boundary", "prev", "save_start", "save_end", "save_reset",
                 "back_reference", "backward_back_reference"}
      loud  == {i \in DOMAIN atom : atom[i].op \notin Silent}
      set   == {atom[i].v : i \in {j \in DOMAIN atom : atom[j].op \in {"save_start", "save_end"}}}
      used  == {atom[i].v : i \in {j \in DOMAIN atom :
                  atom[j].op \in {"back_reference", "backward_back_reference"}}}
  IN IF set \cap used # {} THEN -1
     ELSE IF loud # {} /\ atom[CHOOSE i \in loud : \A j \in loud : i <= j].op \in CharOps THEN 1
     ELSE 0

-----------------------------------------------------------------------------
(* The parser.  s is the REParseState: tokens, position, code, number of captures, *)
(* names of the groups ("" for one without a name) and error.                      *)

Tok(s)      == IF s.i > Len(s.toks) THEN [t |-> "end"] ELSE s.toks[s.i]
Skip(s)     == [s EXCEPT !.i = @ + 1]
Fail(s, e)  == [s EXCEPT !.err = e]
Emit(s, is) == [s EXCEPT !.code = @ \o is]
Insert(s, pos, is) ==
  [s EXCEPT !.code = SubSeq(@, 1, pos) \o is \o SubSeq(@, pos + 1, Len(@))]
Expect(s)   == IF s.err # "" THEN s
               ELSE IF Tok(s).t = ")" THEN Skip(s) ELSE Fail(s, "expecting )")

\* The rest of re_parse_captures from token k with idx groups seen: the index of the group called
\* name, or the number of groups + 1 for no name.  The position left by re_parse_group_name is
\* past the '>', and the loop skips one character more.
RECURSIVE CaptureScan(_, _, _, _)
CaptureScan(toks, k, idx, name) ==
  IF k > Len(toks) \/ idx >= CaptureCountMax THEN IF name = "" THEN idx ELSE None
  ELSE IF toks[k].t = "(" THEN CaptureScan(toks, k + 1, idx + 1, name)
  ELSE IF toks[k].t = "(?<" THEN
         IF name = "" THEN CaptureScan(toks, k + 1, idx + 1, name)
         ELSE IF toks[k].name = name THEN idx
         ELSE CaptureScan(toks, k + 2, idx + 1, name)
  ELSE CaptureScan(toks, k + 1, idx, name)

re_parse_captures(s, name) == CaptureScan(s.toks, 1, 1, name)

find_group_name(s, name) ==
  LET at == {k \in DOMAIN s.names : s.names[k] = name}
  IN IF at = {} THEN None ELSE CHOOSE k \in at : \A j \in at : k <= j

\* re_parse_char_class: the union of the items, canonicalized, then inverted.
re_parse_char_class(items, inv) ==
  LET Points(x) == IF x.e = "w" THEN <<UpperA, LowerZ + 1>>
                   ELSE IF x.e = "W" THEN cr_invert(<<UpperA, LowerZ + 1>>)
                   ELSE <<x.lo, x.hi + 1>>
      all == FoldLeft(LAMBDA r, x : cr_union1(r, Points(x)), << >>, items)
      can == IF f.i THEN cr_canonicalize(all) ELSE all
  IN re_emit_range(IF inv THEN cr_invert(can) ELSE can)

RangeIns(g) == [Op(g.op) EXCEPT !.pairs = g.pairs]

\* A single character atom; matching backward moves back before and after it.
CharAtom(s, x, back) == Emit(s, IF back THEN <<Op("prev"), x, Op("prev")>> ELSE <<x>>)

\* The code of a quantified atom; the atom is the code from address start on, and ncap0 groups
\* were open before it.
Quantified(s, start, ncap0, q) ==
  LET pre    == SubSeq(s.code, 1, start)
      atom   == SubSeq(s.code, start + 1, Len(s.code))
      n      == Len(atom)
      simple == re_is_simple_quantifier(atom)
      check  == q.greedy /\ re_check_advance(atom) = 0
      z      == IF check THEN 1 ELSE 0
      first  == IF q.greedy THEN "split_next_first" ELSE "split_goto_first"
      again  == IF q.greedy THEN "split_goto_first" ELSE "split_next_first"
      reset  == IF q.min = 0 /\ ncap0 # s.ncap THEN <<Two("save_reset", ncap0, s.ncap - 1)>> ELSE << >>
      Star   == <<Ins(first, n + 1 + z)>> \o (IF check THEN <<Op("push_char_pos")>> ELSE << >>)
                \o atom \o <<Ins(IF check THEN "bne_char_pos" ELSE "goto", -(n + 2 + z))>>
      UpTo(k) == <<Ins("push_i32", k), Ins(first, n + 1)>> \o atom
                 \o <<Ins("loop", -(n + 2)), Op("drop")>>
      Exactly(k) == IF k = 1 THEN atom
                    ELSE <<Ins("push_i32", k)>> \o atom \o <<Ins("loop", -(n + 1)), Op("drop")>>
  IN IF q.greedy /\ q.max > 0 /\ simple > 0
     THEN pre \o <<[Two("simple_greedy_quant", n + 1, q.min) EXCEPT !.n = q.max, !.pairs = <<simple>>]>>
              \o atom \o <<Op("match")>>
     ELSE pre \o reset \o
          (CASE q.min = 0 /\ q.max = 0   -> << >>
             [] q.min = 0 /\ q.max = 1   -> <<Ins(first, n)>> \o atom
             [] q.min = 0 /\ q.max = Inf -> Star
             [] q.min = 0 /\ q.max \notin {0, 1, Inf} -> UpTo(q.max)
             [] q.min = 1 /\ q.max = Inf /\ ~check -> atom \o <<Ins(again, -(n + 1))>>
             [] q.min > 0 /\ q.max = Inf /\ (q.min > 1 \/ check) -> Exactly(q.min) \o Star
             [] q.min > 0 /\ q.max > q.min /\ q.max # Inf -> Exactly(q.min) \o UpTo(q.max - q.min)
             [] q.min > 0 /\ q.max = q.min -> Exactly(q.min))

RECURSIVE re_parse_disjunction(_, _)

\* The jump at address pos - 1 made to go to the end of the code.
Patched(s, pos) == [s EXCEPT !.code[pos].v = Len(s.code) - pos]

\* A group; looks are patched to jump behind their match.
Group(s, t, back) ==
  LET in == Skip(s)
  IN CASE t.t = "(?:" -> Expect(re_parse_disjunction(in, back))
       [] t.t \in {"(?=", "(?!", "(?<=", "(?<!"} ->
            LET op == IF t.t \in {"(?!", "(?<!"} THEN "negative_lookahead" ELSE "lookahead"
            IN Patched(Emit(Expect(re_parse_disjunction(Emit(in, <<Op(op)>>), t.t \in {"(?<=", "(?<!"})),
                            <<Op("match")>>), Len(s.code) + 1)
       [] t.t \in {"(", "(?<"} ->
            IF t.t = "(?<" /\ find_group_name(s, t.name) > 0 THEN Fail(s, "duplicate group name")
            ELSE IF s.ncap >= CaptureCountMax THEN Fail(s, "too many captures")
            ELSE LET k == s.ncap
                     o == [in EXCEPT !.ncap = @ + 1,
                                     !.names = Append(@, IF t.t = "(" THEN "" ELSE t.name)]
                     d == re_parse_disjunction(
                            Emit(o, <<Ins(IF back THEN "save_end" ELSE "save_start", k)>>), back)
                 IN Expect(Emit(d, <<Ins(IF back THEN "save_start" ELSE "save_end", k)>>))

BackRef(s, c, back) ==
  Emit(Skip(s), <<Ins(IF back THEN "backward_back_reference" ELSE "back_reference", c)>>)

NotAtoms == {"^", "$", "b", "B", "(?<=", "(?<!"}

Atom(s, t, back) ==
  LET Literal(c) == CharAtom(Skip(s), Ins("char", IF f.i THEN lre_canonicalize(c, f.u) ELSE c), back)
  IN CASE t.t = "^" -> Emit(Skip(s), <<Op("line_start")>>)
       [] t.t = "$" -> Emit(Skip(s), <<Op("line_end")>>)
       [] t.t = "b" -> Emit(Skip(s), <<Op("word_boundary")>>)
       [] t.t = "B" -> Emit(Skip(s), <<Op("not_word_boundary")>>)
       [] t.t = "." -> CharAtom(Skip(s), Op(IF f.s THEN "any" ELSE "dot"), back)
       [] t.t = "char" -> Literal(t.c)
       [] t.t = "class" ->
            CharAtom(Skip(s), RangeIns(re_parse_char_class(t.items, t.inv)), back)
       [] t.t = "kref" ->
            LET c == IF find_group_name(s, t.name) > 0 THEN find_group_name(s, t.name)
                     ELSE re_parse_captures(s, t.name)
            IN IF c = None THEN Fail(s, "group name not defined") ELSE BackRef(s, c, back)
       [] t.t = "ref" ->
            IF t.c >= s.ncap /\ t.c >= re_parse_captures(s, "")
            THEN IF f.u THEN Fail(s, "back reference out of range") ELSE Literal(t.c)
            ELSE BackRef(s, t.c, back)
       [] t.t = "quant" -> Fail(s, "nothing to repeat")
       [] t.t \in {"(", "(?<", "(?:", "(?=", "(?!", "(?<=", "(?<!"} -> Group(s, t, back)

\* The atom a of token t, and the quantifier behind it.
QuantifiedAtom(s, t, a) ==
  LET q == Tok(a)
      quantifiable == t.t \notin NotAtoms /\ (f.u => t.t \notin {"(?=", "(?!"})
  IN IF a.err # "" \/ ~quantifiable \/ q.t # "quant" THEN a
     ELSE IF q.max < q.min THEN Fail(a, "invalid repetition count")
     ELSE [Skip(a) EXCEPT !.code = Quantified(a, Len(s.code), s.ncap, q)]

re_parse_term(s, back) == QuantifiedAtom(s, Tok(s), Atom(s, Tok(s), back))

\* Backward, each new term goes in front of the others from start on.
Placed(s, r, start, back) ==
  LET at == Len(s.code)
  IN IF ~back THEN r
     ELSE [r EXCEPT !.code = SubSeq(s.code, 1, start) \o SubSeq(@, at + 1, Len(@))
                               \o SubSeq(s.code, start + 1, at)]

\* The terms of an alternative from start on.
RECURSIVE re_parse_alternative(_, _, _)
re_parse_alternative(s, start, back) ==
  IF Tok(s).t \in {"end", "|", ")"} \/ s.err # "" THEN s
  ELSE re_parse_alternative(Placed(s, re_parse_term(s, back), start, back), start, back)

\* The alternatives after the first: a split in front of all there is, a goto behind it.
RECURSIVE Alternatives(_, _, _)
Alternatives(s, start, back) ==
  IF s.err # "" \/ Tok(s).t # "|" THEN s
  ELSE LET len == Len(s.code) - start
           g   == Emit(Insert(Skip(s), start, <<Ins("split_next_first", len + 1)>>), <<Op("goto")>>)
       IN Alternatives(Patched(re_parse_alternative(g, Len(g.code), back), Len(g.code)), start, back)

re_parse_disjunction(s, back) ==
  Alternatives(re_parse_alternative(s, Len(s.code), back), Len(s.code), back)

\* The deepest the stack gets, taking the code in a line; None above the limit.
compute_stack_size(code) ==
  LET Count(ops, k) == Cardinality({i \in 1 .. k : code[i].op \in ops})
      Depth(k) == Count({"push_i32", "push_char_pos"}, k) - Count({"drop", "bne_char_pos"}, k)
      max == Max({Depth(k) : k \in 0 .. Len(code)})
  IN IF max > StackSizeMax THEN None ELSE max

NoProg == [code |-> << >>, ncap |-> 0, stack_size |-> 0, err |-> "none"]

\* The program of a parse that ended in state e.
Finished(e) ==
  LET z == compute_stack_size(e.code)
  IN [code |-> IF e.err = "" /\ z # None THEN e.code ELSE << >>, ncap |-> e.ncap,
      stack_size |-> z,
      err |-> IF e.err = "" /\ z = None THEN "too many imbricated quantifiers" ELSE e.err]

AtEnd(d) ==
  IF d.err # "" THEN d
  ELSE IF Tok(d).t # "end" THEN Fail(d, "extraneous characters at the end")
  ELSE Emit(d, <<Ins("save_end", 0), Op("match")>>)

\* Unless sticky, the code starts with a loop that tries every position.
lre_compile ==
  LET s0 == [toks |-> re.toks, i |-> 1, ncap |-> 1, names |-> << >>, err |-> "",
             code |-> (IF f.y THEN << >>
                       ELSE <<Ins("split_goto_first", 2), Op("any"), Ins("goto", -3)>>)
                      \o <<Ins("save_start", 0)>>]
  IN Finished(AtEnd(re_parse_disjunction(s0, FALSE)))

-----------------------------------------------------------------------------
(* The machine *)

\* GET_CHAR and GET_PREV_CHAR within b .. e: the character and the position behind it.
GetChar(p, e) ==
  IF f.u /\ text[p + 1] = Hi /\ p + 1 < e /\ text[p + 2] = Lo THEN <<Pair, p + 2>>
  ELSE <<text[p + 1], p + 1>>
GetPrevChar(p, b) ==
  IF f.u /\ text[p] = Lo /\ p - 1 > b /\ text[p - 1] = Hi THEN <<Pair, p - 2>>
  ELSE <<text[p], p - 1>>

Folded(c)          == IF f.i THEN lre_canonicalize(c, f.u) ELSE c
is_word_char(c)    == c \in UpperA .. LowerZ
End                == Len(text)

\* A character or an assertion at position p: the position after it, or None.
Simple(x, p) ==
  CASE x.op \in CharOps ->
         IF p >= End THEN None
         ELSE LET g == GetChar(p, End)
                  ok == CASE x.op = "char" -> Folded(g[1]) = x.v
                          [] x.op = "dot"  -> g[1] # Lf
                          [] x.op = "any"  -> TRUE
                          [] x.op \in {"range", "range32", "never"} -> RangeMatch(x, Folded(g[1]))
              IN IF ok THEN g[2] ELSE None
    [] x.op = "line_start" ->
         IF p = 0 \/ (f.m /\ GetPrevChar(p, 0)[1] = Lf) THEN p ELSE None
    [] x.op = "line_end" ->
         IF p = End \/ (f.m /\ GetChar(p, End)[1] = Lf) THEN p ELSE None
    [] x.op \in {"word_boundary", "not_word_boundary"} ->
         LET v1 == p > 0 /\ is_word_char(GetPrevChar(p, 0)[1])
             v2 == p < End /\ is_word_char(GetChar(p, End)[1])
         IN IF (v1 # v2) = (x.op = "word_boundary") THEN p ELSE None

\* The atom of a simple quantifier run from pc, without choice points.
RECURSIVE RunAtom(_, _)
RunAtom(pc, p) ==
  LET x == prog.code[pc + 1]
  IN IF x.op = "match" \/ p = None THEN p ELSE RunAtom(pc + 1, Simple(x, p))

\* Bug: the maximum is tested before the iteration is counted.
RECURSIVE RepeatMore(_, _, _, _)
RepeatMore(pc, p, q, max) ==
  LET r == RunAtom(pc, p)
  IN IF r = None \/ (q > max /\ max # Inf) THEN <<q, p>> ELSE RepeatMore(pc, r, q + 1, max)

\* As many times as it matches: the count and the position.
RECURSIVE Repeat(_, _, _, _)
Repeat(pc, p, q, max) ==
  LET r == RunAtom(pc, p)
  IN IF r = None THEN <<q, p>>
     ELSE IF q + 1 >= max /\ max # Inf THEN <<q + 1, r>>
     ELSE Repeat(pc, r, q + 1, max)

RECURSIVE PrevChars(_, _)
PrevChars(p, n) == IF n = 0 THEN p ELSE PrevChars(GetPrevChar(p, 0)[2], n - 1)

push_state(s, pc, cptr, type, count) ==
  [s EXCEPT !.states = Append(@, [type |-> type, pc |-> pc, cptr |-> cptr, count |-> count,
                                  capture |-> s.capture, stack |-> s.stack])]

\* The choice point of a simple quantifier after one iteration was given back.
StepBack(rs, p) == IF rs.count = 1 THEN << >> ELSE <<[rs EXCEPT !.cptr = p, !.count = @ - 1]>>

\* The end of a path, successful or not: back to the choice point that it decides.
RECURSIVE Recurse(_, _)
Recurse(s, ret) ==
  IF s.states = << >> THEN [s EXCEPT !.ret = IF ret THEN "match" ELSE "nomatch", !.pc = None]
  ELSE LET rs   == Last(s.states)
           down == [s EXCEPT !.states = Front(@)]
           Pop(keep) == [down EXCEPT !.pc = rs.pc, !.cptr = rs.cptr, !.stack = rs.stack,
                                     !.capture = IF keep THEN @ ELSE rs.capture]
       IN CASE rs.type = "split" -> IF ret THEN Recurse(down, ret) ELSE Pop(FALSE)
            [] rs.type = "greedy_quant" ->
                 IF ret THEN Recurse(down, ret)
                 ELSE LET x == prog.code[rs.pc + 1]
                          p == PrevChars(rs.cptr, x.pairs[1])
                      IN [Pop(FALSE) EXCEPT !.pc = rs.pc + 1 + x.v, !.cptr = p,
                            !.states = @ \o StepBack(rs, p)]
            [] rs.type = "lookahead" -> IF ret THEN Pop(TRUE) ELSE Recurse(down, FALSE)
            [] rs.type = "negative_lookahead" -> IF ret THEN Recurse(down, FALSE) ELSE Pop(FALSE)

NoMatch(s) == Recurse(s, FALSE)

Idle == [pc |-> None, cptr |-> 0, capture |-> << >>, stack |-> << >>, states |-> << >>, ret |-> "idle", start |-> 0]

Init ==
  /\ \E c \in Cases : re \in c.patterns /\ f \in c.flags /\ text \in c.texts
  /\ prog = NoProg
  /\ m = Idle

Compile ==
  /\ prog = NoProg
  /\ prog' = lre_compile
  /\ UNCHANGED <<re, f, text, m>>

lre_exec ==
  /\ prog.err = "" /\ m.ret = "idle"
  /\ \E cindex \in Starts :
       /\ cindex <= End
       /\ m' = [Idle EXCEPT !.pc = 0, !.cptr = cindex, !.start = cindex, !.ret = "run",
                            !.capture = [i \in 1 .. 2 * prog.ncap |-> None]]
  /\ UNCHANGED <<re, f, text, prog>>

At(ops) == m.ret = "run" /\ prog.code[m.pc + 1].op \in ops
X       == prog.code[m.pc + 1]
Then(s) == m' = s /\ UNCHANGED <<re, f, text, prog>>
Step(s) == [s EXCEPT !.pc = @ + 1]
Jump(s) == [s EXCEPT !.pc = @ + 1 + X.v]

Match == At({"match"}) /\ Then(Recurse(m, TRUE))

CharOrAssertion ==
  /\ At(CharOps \cup AssertOps)
  /\ LET p == Simple(X, m.cptr)
     IN Then(IF p = None THEN NoMatch(m) ELSE [Step(m) EXCEPT !.cptr = p])

Prev ==
  /\ At({"prev"})
  /\ Then(IF m.cptr = 0 THEN NoMatch(m) ELSE [Step(m) EXCEPT !.cptr = GetPrevChar(@, 0)[2]])

Split ==
  /\ At({"split_goto_first", "split_next_first"})
  /\ LET next == m.pc + 1
         goto == m.pc + 1 + X.v
         gf   == X.op = "split_goto_first"
     IN Then([push_state(m, IF gf THEN next ELSE goto, m.cptr, "split", 0)
                EXCEPT !.pc = IF gf THEN goto ELSE next])

Lookahead ==
  /\ At({"lookahead", "negative_lookahead"})
  /\ Then(Step(push_state(m, m.pc + 1 + X.v, m.cptr, X.op, 0)))

Goto == At({"goto"}) /\ Then(Jump(m))

Save ==
  /\ At({"save_start", "save_end"})
  /\ Then([Step(m) EXCEPT !.capture[2 * X.v + (IF X.op = "save_start" THEN 1 ELSE 2)] = m.cptr])

SaveReset ==
  /\ At({"save_reset"})
  /\ Then([Step(m) EXCEPT !.capture =
             [i \in DOMAIN @ |-> IF i \in 2 * X.v + 1 .. 2 * X.w + 2 THEN None ELSE @[i]]])

PushValue ==
  /\ At({"push_i32", "push_char_pos"})
  /\ Then([Step(m) EXCEPT !.stack = Append(@, IF X.op = "push_i32" THEN X.v ELSE m.cptr)])

Drop == At({"drop"}) /\ Then([Step(m) EXCEPT !.stack = Front(@)])

Loop ==
  /\ At({"loop"})
  /\ LET s == [m EXCEPT !.stack[Len(m.stack)] = @ - 1]
     IN Then(IF Last(s.stack) # 0 THEN Jump(s) ELSE Step(s))

BneCharPos ==
  /\ At({"bne_char_pos"})
  /\ LET s == [m EXCEPT !.stack = Front(@)]
     IN Then(IF Last(m.stack) # m.cptr THEN Jump(s) ELSE Step(s))

\* The captured text again, forward from its start or backward from its end.
RECURSIVE SameForward(_, _, _)
SameForward(p1, e1, p) ==
  IF p1 >= e1 THEN p
  ELSE IF p >= End THEN None
  ELSE LET a == GetChar(p1, e1)
           b == GetChar(p, End)
       IN IF Folded(a[1]) # Folded(b[1]) THEN None ELSE SameForward(a[2], e1, b[2])
RECURSIVE SameBackward(_, _, _)
SameBackward(p1, b1, p) ==
  IF p1 <= b1 THEN p
  ELSE IF p = 0 THEN None
  ELSE LET a == GetPrevChar(p1, b1)
           b == GetPrevChar(p, 0)
       IN IF Folded(a[1]) # Folded(b[1]) THEN None ELSE SameBackward(a[2], b1, b[2])

BackReference ==
  /\ At({"back_reference", "backward_back_reference"})
  /\ IF X.v >= prog.ncap THEN Then(NoMatch(m))
     ELSE LET b == m.capture[2 * X.v + 1]
              e == m.capture[2 * X.v + 2]
              p == IF b = None \/ e = None THEN m.cptr
                   ELSE IF X.op = "back_reference" THEN SameForward(b, e, m.cptr)
                   ELSE SameBackward(e, b, m.cptr)
          IN Then(IF p = None THEN NoMatch(m) ELSE [Step(m) EXCEPT !.cptr = p])

SimpleGreedyQuant ==
  /\ At({"simple_greedy_quant"})
  /\ LET r == Repeat(m.pc + 1, m.cptr, 0, X.n)
         s == [m EXCEPT !.cptr = r[2]]
     IN Then(IF r[1] < X.w THEN NoMatch(m)
             ELSE Jump(IF r[1] > X.w THEN push_state(s, m.pc, r[2], "greedy_quant", r[1] - X.w) ELSE s))

Execute ==
  \/ Match \/ CharOrAssertion \/ Prev \/ Split \/ Lookahead \/ Goto \/ Save \/ SaveReset
  \/ PushValue \/ Drop \/ Loop \/ BneCharPos \/ BackReference \/ SimpleGreedyQuant

Next == Compile \/ lre_exec \/ Execute

Spec == Init /\ [][Next]_vars

-----------------------------------------------------------------------------
(* Properties of the machine *)

\* The stack never outgrows what compute_stack_size reserved by reading the code in a line, through
\* every loop, alternative and backtrack; the machine does not check (libregexp.c lre_exec: alloca).
StackWithinBounds == m.ret # "idle" =>
  /\ Len(m.stack) <= prog.stack_size
  /\ \A i \in DOMAIN m.states : Len(m.states[i].stack) <= prog.stack_size

\* No choice point is made twice in the same situation with the first one still open: the machine
\* is deterministic, so it would go on for ever ("Infinite recursions coming from quantifiers with
\* empty terms are avoided", doc/quickjs.texi).
NoEmptyRecursion == \A i, j \in DOMAIN m.states : i < j => m.states[i] # m.states[j]

\* A pattern is accepted if and only if it is well formed: groups closed, quantifiers behind atoms,
\* references to groups there are, no name twice (libregexp.c re_parse_term).
RECURSIVE Closed(_, _)
Closed(toks, depth) ==
  IF toks = << >> THEN depth = 0
  ELSE CASE Head(toks).t \in {"(", "(?<", "(?:", "(?=", "(?!", "(?<=", "(?<!"} -> Closed(Tail(toks), depth + 1)
         [] Head(toks).t = ")" -> depth > 0 /\ Closed(Tail(toks), depth - 1)
         [] OTHER -> Closed(Tail(toks), depth)

\* The token that opens the group closed at k.
Opener(toks, k) ==
  CHOOSE o \in 1 .. k : /\ toks[o].t \in {"(", "(?<", "(?:", "(?=", "(?!", "(?<=", "(?<!"}
                        /\ Closed(SubSeq(toks, o, k), 0)
                        /\ \A j \in o + 1 .. k : ~Closed(SubSeq(toks, o, j - 1), 0)

WellFormed(toks) ==
  /\ Closed(toks, 0)
  /\ \A k \in DOMAIN toks : toks[k].t = "quant" =>
       /\ k > 1 /\ toks[k].max >= toks[k].min
       /\ toks[k - 1].t \in {"char", ".", "class", "ref", "kref", ")"}
       /\ toks[k - 1].t = ")" =>
            LET o == toks[Opener(toks, k - 1)].t
            IN o \notin {"(?<=", "(?<!"} /\ (f.u => o \notin {"(?=", "(?!"})
  /\ \A k \in DOMAIN toks : toks[k].t = "kref" =>
       \E j \in DOMAIN toks : toks[j].t = "(?<" /\ toks[j].name = toks[k].name
  /\ f.u => \A k \in DOMAIN toks : toks[k].t = "ref" =>
       toks[k].c <= Cardinality({j \in DOMAIN toks : toks[j].t \in {"(", "(?<"}})
  /\ \A j, k \in DOMAIN toks : (j < k /\ toks[j].t = "(?<" /\ toks[k].t = "(?<") =>
       toks[j].name # toks[k].name

AcceptedIfWellFormed == prog # NoProg => (prog.err = "" <=> WellFormed(re.toks))
=============================================================================
