---------------------------- MODULE StatementSpec ----------------------------
(***************************************************************************)
(* What statements mean, as ECMAScript defines their evaluation: every     *)
(* statement yields a completion, its type (normal, break, continue,       *)
(* return, throw), the value, the target label, and the value a program    *)
(* passed to eval would have (u: Empty, or the last one).  The evaluation  *)
(* replays a history of events: p is how much of it is consumed, and a     *)
(* history the statements cannot have produced yields the type "other".    *)
(***************************************************************************)
EXTENDS Integers, Sequences, FiniteSets

Empty == -1
Undef == 0

C(p, t, v, l, u) == [p |-> p, t |-> t, v |-> v, l |-> l, u |-> u]
Normal(p, u) == C(p, "normal", 0, "", u)
Throws(p, v) == C(p, "throw", v, "", Empty)
UpdateEmpty(c, u) == IF c.u = Empty THEN [c EXCEPT !.u = u] ELSE c

\* The event e(n) comes next in h; the answer to it.
Occurs(h, p, e, n) == p < Len(h) /\ h[p + 1].e = e /\ h[p + 1].n = n
Other(p) == C(p, "other", 0, "", Empty)

Asked(h, p, e, n) ==
    IF ~Occurs(h, p, e, n) THEN Other(p)
    ELSE IF h[p + 1].a = "throw" THEN Throws(p + 1, 10 + p + 1)
    ELSE Normal(p + 1, n)

LoopContinues(c, labels) ==
    c.t = "normal" \/ (c.t = "continue" /\ c.l \in labels \cup {""})

\* A loop or a switch is what a break without a label leaves.
Breakable(c) ==
    IF c.t = "break" /\ c.l = "" THEN Normal(c.p, IF c.u = Empty THEN Undef ELSE c.u) ELSE c

\* IteratorClose with the completion c.
Closed(h, c) ==
    IF c.t = "other" THEN c
    ELSE IF ~Occurs(h, c.p, "return", 0) THEN Other(c.p)
    ELSE LET a == h[c.p + 1].a
         IN  IF c.t = "throw" \/ a \in {"absent", "object"} THEN [c EXCEPT !.p = @ + 1]
             ELSE Throws(c.p + 1, IF a = "throw" THEN 10 + c.p + 1 ELSE 99)

RECURSIVE Eval(_, _, _, _)
RECURSIVE EvalList(_, _, _)
RECURSIVE Loop(_, _, _, _, _)
RECURSIVE Select(_, _, _, _)

EvalList(h, list, c) ==
    IF list = <<>> \/ c.t # "normal" THEN c
    ELSE LET d == Eval(h, Head(list), c.p, {})
         IN  EvalList(h, Tail(list), UpdateEmpty(d, c.u))

\* test() && call(n)
EvalAnd(h, p, n) ==
    LET c == Asked(h, p, "test", 0)
    IN  IF c.t # "normal" THEN c
        ELSE IF h[c.p].a = "true" THEN Asked(h, c.p, "call", n) ELSE Normal(c.p, 0)

Bit(n, b) == (n \div b) % 2 = 1

\* One turn of a loop from p, its value so far u; skip: the test is not made
\* before the first turn of a do statement.
Loop(h, s, p, labels, u) ==
    LET kind == s.k
        head == CASE kind \in {"while", "do"} \/ (kind = "for" /\ Bit(s.n, 2)) ->
                       Asked(h, p, "test", 0)
                  [] kind = "for" /\ ~Bit(s.n, 2) -> Normal(p, Empty)
                  [] kind = "forof" -> Asked(h, p, "next", 0)
                  [] kind = "forin" -> Asked(h, p, "key", 0)
        over == head.p > p /\ h[head.p].a \in {"false", "done"}
        body == UpdateEmpty(Eval(h, s.b[1], head.p, {}), u)
        inc == IF kind = "for" /\ Bit(s.n, 8) THEN EvalAnd(h, body.p, 8)
               ELSE IF kind = "for" /\ Bit(s.n, 4) THEN Asked(h, body.p, "call", 8)
               ELSE Normal(body.p, Empty)
    IN  IF head.t # "normal" THEN head
        ELSE IF over THEN Normal(head.p, u)
        ELSE IF ~LoopContinues(body, labels)
             THEN IF kind = "forof" THEN Closed(h, body) ELSE body
        ELSE IF inc.t # "normal" THEN inc
        ELSE Loop(h, s, inc.p, labels, body.u)

EvalDo(h, s, p, labels) ==
    LET body == UpdateEmpty(Eval(h, s.b[1], p, {}), Undef)
    IN  IF LoopContinues(body, labels) THEN Loop(h, s, body.p, labels, body.u) ELSE body

EvalLoop(h, s, p, labels) ==
    LET start == CASE s.k = "for" /\ Bit(s.n, 1) -> Asked(h, p, "call", 7)
                   [] s.k \in {"forof", "forin"} -> Asked(h, p, "call", 9)
                   [] OTHER -> Normal(p, Empty)
        opened == IF s.k = "forof" THEN Asked(h, start.p, "open", 0) ELSE start
    IN  IF start.t # "normal" THEN start
        ELSE IF opened.t # "normal" THEN opened
        ELSE IF s.k = "do" THEN EvalDo(h, s, p, labels)
        ELSE Loop(h, s, opened.p, labels, Undef)

\* The clause of a switch whose selector equals v, tried in order: its
\* index in l, 0 if none does.  (c.v carries the index.)
Select(h, clauses, c, v) ==
    LET i == c.v + 1
        asked == Asked(h, c.p, "call", clauses[i].n)
    IN  IF i > Len(clauses) THEN [c EXCEPT !.v = 0]
        ELSE IF clauses[i].k = "default" THEN Select(h, clauses, [c EXCEPT !.v = i], v)
        ELSE IF asked.t # "normal" THEN asked
        ELSE IF clauses[i].n = v THEN [c EXCEPT !.v = i, !.p = asked.p]
        ELSE Select(h, clauses, [c EXCEPT !.v = i, !.p = asked.p], v)

RECURSIVE Bodies(_)
Bodies(clauses) == IF clauses = <<>> THEN <<>> ELSE Head(clauses).b \o Bodies(Tail(clauses))

EvalSwitch(h, s, p) ==
    LET on == Asked(h, p, "sw", 0)
        v == CHOOSE n \in 1..3 : h[on.p].a = <<"1", "2", "3">>[n]
        sel == Select(h, s.b, Normal(on.p, Empty), v)
        def == {i \in DOMAIN s.b : s.b[i].k = "default"}
        from == IF sel.v # 0 THEN sel.v
                ELSE IF def # {} THEN CHOOSE i \in def : TRUE ELSE Len(s.b) + 1
        run == EvalList(h, Bodies(SubSeq(s.b, from, Len(s.b))), Normal(sel.p, Empty))
    IN  IF on.t # "normal" THEN on
        ELSE IF sel.t # "normal" THEN sel
        ELSE Breakable(UpdateEmpty(run, Undef))

EvalTry(h, s, p) ==
    LET block == Eval(h, s.b[1], p, {})
        caught == IF block.t = "throw" /\ s.b[2].k # "none"
                  THEN IF s.n = 1
                       THEN LET c == Asked(h, block.p, "call", block.v)
                            IN  IF c.t # "normal" THEN c
                                ELSE EvalList(h, Tail(s.b[2].b), c)
                       ELSE Eval(h, s.b[2], block.p, {})
                  ELSE block
        final == IF s.b[3].k # "none" /\ caught.t # "other"
                 THEN Eval(h, s.b[3], caught.p, {}) ELSE Normal(caught.p, Empty)
    IN  UpdateEmpty(IF final.t = "normal" THEN [caught EXCEPT !.p = final.p] ELSE final, Undef)

EvalIf(h, s, p) ==
    LET c == Asked(h, p, "test", 0)
    IN  IF c.t # "normal" THEN c
        ELSE IF h[c.p].a = "true" THEN UpdateEmpty(Eval(h, s.b[1], c.p, {}), Undef)
        ELSE IF Len(s.b) = 2 THEN UpdateEmpty(Eval(h, s.b[2], c.p, {}), Undef)
        ELSE Normal(c.p, Undef)

LoopKinds == {"while", "do", "for", "forof", "forin"}

EvalLabel(h, s, p, labels) ==
    LET c == Eval(h, s.b[1], p, labels \cup {s.l})
    IN  IF c.t = "break" /\ c.l = s.l THEN Normal(c.p, c.u) ELSE c

EvalWith(h, s, p) ==
    LET c == Asked(h, p, "call", 6)
    IN  IF c.t # "normal" THEN c ELSE UpdateEmpty(Eval(h, s.b[1], c.p, {}), Undef)

Eval(h, s, p, labels) ==
    CASE s.k = "expr" -> Asked(h, p, "call", s.n)
      [] s.k = "and" -> EvalAnd(h, p, s.n)
      [] s.k = "empty" -> Normal(p, Empty)
      [] s.k = "block" -> EvalList(h, s.b, Normal(p, Empty))
      [] s.k = "return" -> C(p, "return", s.n, "", Empty)
      [] s.k = "throw" -> Throws(p, s.n)
      [] s.k = "break" -> C(p, "break", 0, s.l, Empty)
      [] s.k = "continue" -> C(p, "continue", 0, s.l, Empty)
      [] s.k = "if" -> EvalIf(h, s, p)
      [] s.k \in LoopKinds -> Breakable(EvalLoop(h, s, p, labels))
      [] s.k = "switch" -> EvalSwitch(h, s, p)
      [] s.k = "try" -> EvalTry(h, s, p)
      [] s.k = "with" -> EvalWith(h, s, p)
      [] s.k = "label" -> EvalLabel(h, s, p, labels)

\* How a function body or an eval program that produced the history h ends.
Outcome(h, program) ==
    LET c == EvalList(h, program.body, Normal(0, Empty))
    IN  [p |-> c.p,
         t |-> IF c.t \in {"normal", "return"} THEN "return" ELSE c.t,
         v |-> IF c.t = "normal" THEN IF program.eval /\ c.u # Empty THEN c.u ELSE 0 ELSE c.v]

-----------------------------------------------------------------------------
(* Early errors: where break and continue may stand.                       *)

RECURSIVE Legal(_, _, _, _, _)
\* labels in scope, labels of the loops in scope, labels right here, inside
\* a loop or a switch / inside a loop (in is a set of "break", "continue")
Legal(s, labels, loops, here, in) ==
    CASE s.k = "break" -> IF s.l = "" THEN "break" \in in ELSE s.l \in labels
      [] s.k = "continue" -> IF s.l = "" THEN "continue" \in in ELSE s.l \in loops
      [] s.k = "label" -> /\ s.l \notin labels
                          /\ Legal(s.b[1], labels \cup {s.l}, loops, here \cup {s.l}, in)
      [] s.k \in LoopKinds -> Legal(s.b[1], labels, loops \cup here, {}, {"break", "continue"})
      [] s.k \in {"switch"} -> \A i \in DOMAIN s.b : \A j \in DOMAIN s.b[i].b :
                                 Legal(s.b[i].b[j], labels, loops, {}, in \cup {"break"})
      [] OTHER -> \A i \in DOMAIN s.b : Legal(s.b[i], labels, loops, {}, in)

LegalProgram(program) ==
    \A i \in DOMAIN program.body : Legal(program.body[i], {}, {}, {}, {})
=============================================================================
