---------------------------- MODULE JsStatements ----------------------------
(***************************************************************************)
(* How quickjs.c compiles statements: js_parse_statement_or_decl and the   *)
(* functions it calls, from the statement (an abstract syntax tree, as the *)
(* lexer and the grammar deliver it) to bytecode, with the chain of        *)
(* BlockEnv entries that tells break, continue and return what to undo on  *)
(* the way out; and compute_stack_size, which explores the bytecode and    *)
(* rejects a function whose stack depth depends on the path.               *)
(*                                                                         *)
(* A statement is [k, l, n, b]: its kind, a label, a number and its parts. *)
(* Expressions are calls the environment answers: "test" (a condition),    *)
(* "call" (any other expression), "sw" (the value switched on).            *)
(* An instruction is [op, a].  Labels and positions count from one; 0      *)
(* stands for the -1 of the code.                                          *)
(***************************************************************************)
EXTENDS Integers, Sequences, SequencesExt, FiniteSets

St(kind, label, num, parts) == [k |-> kind, l |-> label, n |-> num, b |-> parts]
None == St("none", "", 0, <<>>)

-----------------------------------------------------------------------------
(* The function being compiled (JSFunctionDef) and its emitters.           *)

NewFd(eval) == [code |-> <<>>, slot |-> <<>>, last |-> 0, top |-> <<>>,
                scope |-> 0, parents |-> <<>>, ret |-> eval, vars |-> 1, err |-> FALSE]

js_is_live_code(fd) ==
    \/ fd.last = 0
    \/ fd.code[fd.last].op \notin {"return", "return_undef", "throw", "goto", "ret"}

emit(fd, op, a) == [fd EXCEPT !.code = Append(@, [op |-> op, a |-> a]),
                              !.last = Len(fd.code) + 1]

emit_op(fd, op) == emit(fd, op, 0)

new_label(fd) == [fd EXCEPT !.slot = Append(@, 0)]

emit_label(fd, label) ==
    IF label = 0 THEN fd
    ELSE [emit(fd, "label", label) EXCEPT !.slot[label] = Len(fd.code) + 1]

\* What emit_goto returns: the label, a new one if none is given, and none
\* if the code before is dead.
GotoLabel(fd, label) ==
    IF ~js_is_live_code(fd) THEN 0
    ELSE IF label = 0 THEN Len(fd.slot) + 1 ELSE label

emit_goto(fd, op, label) ==
    IF ~js_is_live_code(fd) THEN fd
    ELSE emit(IF label = 0 THEN new_label(fd) ELSE fd, op, GotoLabel(fd, label))

push_scope(fd) ==
    [emit_op(fd, "enter_scope") EXCEPT !.parents = Append(@, fd.scope),
                                       !.scope = Len(fd.parents) + 1]

pop_scope(fd) == [emit_op(fd, "leave_scope") EXCEPT !.scope = fd.parents[fd.scope]]

RECURSIVE close_scopes(_, _, _)
close_scopes(fd, scope, stop) ==
    IF scope <= stop THEN fd
    ELSE close_scopes(emit_op(fd, "leave_scope"), fd.parents[scope], stop)

add_var(fd) == [fd EXCEPT !.vars = @ + 1]

set_eval_ret_undefined(fd) ==
    IF fd.ret THEN emit(emit_op(fd, "undefined"), "put_loc", 1) ELSE fd

-----------------------------------------------------------------------------
(* The chain of enclosing statements, innermost first (BlockEnv).          *)

push_break_entry(fd, name, brk, cont, drop) ==
    [fd EXCEPT !.top = <<[name |-> name, brk |-> brk, cont |-> cont, drop |-> drop,
                          fin |-> 0, level |-> fd.scope, iter |-> FALSE]>> \o @]

SetTop(fd, field, value) == [fd EXCEPT !.top[1][field] = value]

pop_break_entry(fd) == [fd EXCEPT !.top = Tail(@)]

RECURSIVE EmitTimes(_, _, _)
EmitTimes(fd, op, times) ==
    IF times <= 0 THEN fd ELSE EmitTimes(emit_op(fd, op), op, times - 1)

\* May a break or continue of this name leave for this entry?
Targets(env, name, isCont) ==
    /\ (IF isCont THEN env.cont ELSE env.brk) # 0
    /\ name = "" \/ env.name = name

\* The finally block is forgotten.
LeaveEntryNoFinally(fd, env) ==
    EmitTimes(IF env.iter THEN emit_op(fd, "iterator_close") ELSE fd, "drop",
              IF env.iter THEN env.drop - 3 ELSE env.drop)

\* What a jump emits for one entry it leaves.
LeaveEntry(fd, env) ==
    LET closed == IF env.iter THEN emit_op(fd, "iterator_close") ELSE fd
        dropped == EmitTimes(closed, "drop", IF env.iter THEN env.drop - 3 ELSE env.drop)
    IN  IF env.fin = 0 THEN dropped
        ELSE emit_op(emit_goto(emit_op(dropped, "undefined"), "gosub", env.fin), "drop")

RECURSIVE BreakFrom(_, _, _, _, _)
BreakFrom(fd, envs, scope, name, isCont) ==
    IF envs = <<>> THEN [fd EXCEPT !.err = TRUE]
    ELSE LET env == Head(envs)
             here == close_scopes(fd, scope, env.level)
         IN  IF Targets(env, name, isCont)
             THEN emit_goto(here, "goto", IF isCont THEN env.cont ELSE env.brk)
             ELSE BreakFrom(LeaveEntry(here, env), Tail(envs), env.level, name, isCont)

emit_break(fd, name, isCont) == BreakFrom(fd, fd.top, fd.scope, name, isCont)

RECURSIVE ReturnFrom(_, _, _, _)
ReturnFrom(fd, envs, drop, hasval) ==
    IF envs = <<>> THEN emit_op(fd, IF hasval THEN "return" ELSE "return_undef")
    ELSE LET env == Head(envs)
             valued == IF env.iter /\ ~hasval THEN emit_op(fd, "undefined") ELSE fd
             closed == IF env.iter
                       THEN emit_op(emit_op(valued, "iterator_close_return"),
                                    "iterator_close")
                       ELSE fd
             has1 == hasval \/ env.iter
             drop1 == (IF env.iter THEN -3 ELSE drop) + env.drop
             dropped == EmitTimes(closed, IF has1 THEN "nip" ELSE "drop", drop1)
             final == emit_goto(IF has1 THEN dropped ELSE emit_op(dropped, "undefined"),
                                "gosub", env.fin)
         IN  IF env.fin = 0 THEN ReturnFrom(closed, Tail(envs), drop1, has1)
             ELSE ReturnFrom(final, Tail(envs), 0, TRUE)

emit_return(fd, hasval) == ReturnFrom(fd, fd.top, 0, hasval)

-----------------------------------------------------------------------------
(* Expressions: only their effect on the stack and on the environment.     *)

Expr(fd, n) == emit(fd, "call", n)

Test(fd) == emit_op(fd, "test")

\* test() && call(n): js_parse_logical_and_or.
AndExpr(fd, n) ==
    LET f == emit_op(emit_op(fd, "test"), "dup")
        l == GotoLabel(f, 0)
    IN  emit_label(Expr(emit_op(emit_goto(f, "if_false", 0), "drop"), n), l)

ExprStatement(fd, s) ==
    LET f == IF s.k = "and" THEN AndExpr(fd, s.n) ELSE Expr(fd, s.n)
    IN  IF fd.ret THEN emit(f, "put_loc", 1) ELSE emit_op(f, "drop")

-----------------------------------------------------------------------------
(* Moving the code of an increment or of the assignment to the loop        *)
(* variable behind the body it was parsed before.                          *)

MoveChunk(fd, from, upto, label) ==
    LET size == Len(fd.code)
        chunk == SubSeq(fd.code, from + 1, upto)
        moved(p) == p >= from /\ p < upto
    IN  [fd EXCEPT !.code = [i \in 1..size |-> IF i > from /\ i <= upto
                                               THEN [op |-> "nop", a |-> 0]
                                               ELSE fd.code[i]] \o chunk,
                   !.last = size + (upto - from),
                   !.slot = SubSeq([i \in DOMAIN fd.slot |->
                                      IF i >= label /\ moved(fd.slot[i])
                                      THEN fd.slot[i] + (size - from) ELSE fd.slot[i]],
                                   1, Len(fd.slot))]

-----------------------------------------------------------------------------
(* The statements.                                                         *)

RECURSIVE Statement(_, _, _)

js_parse_statement(fd, s) == Statement(fd, s, "")

StatementList(fd, list) == FoldLeft(js_parse_statement, fd, list)

js_parse_block(fd, s) ==
    IF s.b = <<>> THEN fd ELSE pop_scope(StatementList(push_scope(fd), s.b))

IfStatement(fd, s) ==
    LET f1 == Test(set_eval_ret_undefined(push_scope(fd)))
        l1 == GotoLabel(f1, 0)
        f2 == js_parse_statement(emit_goto(f1, "if_false", 0), s.b[1])
        l2 == GotoLabel(f2, 0)
        f3 == js_parse_statement(emit_label(emit_goto(f2, "goto", 0), l1), s.b[2])
    IN  pop_scope(IF Len(s.b) = 1 THEN emit_label(f2, l1) ELSE emit_label(f3, l2))

WhileStatement(fd, s, name) ==
    LET cont == Len(fd.slot) + 1
        brk == cont + 1
        f1 == push_break_entry(new_label(new_label(fd)), name, brk, cont, 0)
        f2 == Test(emit_label(set_eval_ret_undefined(f1), cont))
        f3 == js_parse_statement(emit_goto(f2, "if_false", brk), s.b[1])
    IN  pop_break_entry(emit_label(emit_goto(f3, "goto", cont), brk))

DoStatement(fd, s, name) ==
    LET cont == Len(fd.slot) + 1
        brk == cont + 1
        again == cont + 2
        f1 == push_break_entry(new_label(new_label(new_label(fd))), name, brk, cont, 0)
        f2 == js_parse_statement(set_eval_ret_undefined(emit_label(f1, again)), s.b[1])
    IN  pop_break_entry(emit_label(emit_goto(Test(emit_label(f2, cont)),
                                             "if_true", again), brk))

\* for (;;): n holds 1 if there is an initialisation, 2 a test, 4 an increment,
\* 8 an increment that is test() && call().
Has(n, bit) == (n \div bit) % 2 = 1

ForStatement(fd, s, name) ==
    LET init == push_scope(set_eval_ret_undefined(fd))
        f1 == IF Has(s.n, 1)
              THEN close_scopes(emit_op(Expr(init, 7), "drop"), init.scope, fd.scope)
              ELSE init
        test == Len(f1.slot) + (IF Has(s.n, 2) THEN 1 ELSE 3)
        body == Len(f1.slot) + 3
        brk == body + 1
        hasInc == Has(s.n, 4) \/ Has(s.n, 8)
        cont == IF hasInc THEN body - 1 ELSE test
        f2 == push_break_entry(new_label(new_label(new_label(new_label(f1)))),
                               name, brk, cont, 0)
        f3 == IF Has(s.n, 2)
              THEN emit_goto(Test(emit_label(f2, test)), "if_false", brk) ELSE f2
        skip == emit_goto(f3, "goto", body)
        inc == emit_label(skip, cont)
        f4 == emit_op(IF Has(s.n, 8) THEN AndExpr(inc, 8) ELSE Expr(inc, 8), "drop")
        f5 == IF ~hasInc THEN f3
              ELSE IF test # body THEN emit_goto(f4, "goto", test) ELSE f4
        f6 == js_parse_statement(emit_label(f5, body), s.b[1])
        f7 == close_scopes(f6, f6.scope, fd.scope)
        f8 == IF test # body /\ cont # test
              THEN MoveChunk(f7, Len(skip.code), Len(f5.code), cont)
              ELSE emit_goto(f7, "goto", cont)
    IN  pop_scope(pop_break_entry(emit_label(f8, brk)))

js_parse_for_in_of(fd, s, name) ==
    LET isOf == s.k = "forof"
        cont == Len(fd.slot) + 1
        body == cont + 1
        brk == cont + 2
        next == cont + 3
        f1 == push_break_entry(push_scope(new_label(new_label(new_label(new_label(fd))))),
                               name, brk, cont, 1)
        f2 == SetTop(f1, "level", fd.scope)
        expr == GotoLabel(f2, 0)
        f3 == emit_goto(f2, "goto", 0)
        f4 == emit_goto(emit_op(emit_label(f3, next), "put_var"), "goto", body)
        f5 == emit_label(f4, expr)
        f6 == IF isOf THEN SetTop(SetTop(f5, "iter", TRUE), "drop", 3) ELSE f5
        f7 == close_scopes(Expr(f6, 9), f6.scope, fd.scope)
        f8 == emit_goto(emit_op(f7, IF isOf THEN "for_of_start" ELSE "for_in_start"),
                        "goto", cont)
        f9 == MoveChunk(f8, Len(f3.code), Len(f4.code), cont)
        f10 == js_parse_statement(emit_label(f9, body), s.b[1])
        f11 == emit_label(close_scopes(f10, f10.scope, fd.scope), cont)
        f12 == emit_goto(emit_op(f11, IF isOf THEN "for_of_next" ELSE "for_in_next"),
                         "if_false", next)
        f13 == emit_label(emit_op(f12, "drop"), brk)
    IN  pop_scope(pop_break_entry(emit_op(f13, IF isOf THEN "iterator_close" ELSE "drop")))

\* One clause of a switch.  The state also holds label_case, the position
\* of the default label, and the label of the case clauses joined so far.
SwitchClause(sw, clause, follows) ==
    LET fd == sw.fd
        \* a case: skip over its test when falling through from the one before
        l1 == IF sw.join # 0 THEN sw.join
              ELSE IF sw.label # 0 /\ ~sw.open THEN GotoLabel(fd, 0) ELSE 0
        f1 == IF sw.open THEN fd
              ELSE emit_label(IF sw.label # 0 THEN emit_goto(fd, "goto", 0) ELSE fd, sw.label)
        f2 == emit_op(Expr(emit_op(f1, "dup"), clause.n), "strict_eq")
        \* default: nothing jumps over it
        lc == IF sw.label = 0 THEN GotoLabel(fd, 0) ELSE sw.label
        f3 == emit(IF sw.label = 0 THEN emit_goto(fd, "goto", 0) ELSE fd, "label", 0)
    IN  IF clause.k = "default"
        THEN [sw EXCEPT !.fd = StatementList(f3, clause.b), !.label = lc,
                        !.def = Len(f3.code)]
        ELSE IF follows
        THEN [sw EXCEPT !.fd = emit_goto(f2, "if_true", l1), !.open = TRUE,
                        !.label = 0, !.join = GotoLabel(f2, l1)]
        ELSE [sw EXCEPT !.fd = StatementList(emit_label(emit_goto(f2, "if_false", 0), l1),
                                             clause.b),
                        !.open = FALSE, !.join = 0, !.label = GotoLabel(f2, 0)]

RECURSIVE SwitchClauses(_, _)
SwitchClauses(sw, clauses) ==
    IF clauses = <<>> THEN sw
    ELSE SwitchClauses(SwitchClause(sw, Head(clauses),
                          /\ Head(clauses).k = "case" /\ Head(clauses).b = <<>>
                          /\ Len(clauses) > 1 /\ clauses[2].k = "case"),
                       Tail(clauses))

\* The default label ends up where its clause begins, as the label the last
\* failing case jumps to.
PatchDefault(sw) ==
    LET code == [i \in DOMAIN sw.fd.code |->
                   IF i = sw.def THEN [op |-> "label", a |-> sw.label] ELSE sw.fd.code[i]]
    IN  IF sw.def = 0 THEN emit_label(sw.fd, sw.label)
        ELSE [sw.fd EXCEPT !.code = code, !.slot[sw.label] = sw.def]

SwitchStatement(fd, s, name) ==
    LET f1 == push_scope(emit_op(set_eval_ret_undefined(fd), "sw"))
        brk == Len(f1.slot) + 1
        f2 == push_break_entry(new_label(f1), name, brk, 0, 1)
        sw == SwitchClauses([fd |-> f2, label |-> 0, def |-> 0, join |-> 0, open |-> FALSE], s.b)
    IN  pop_scope(pop_break_entry(emit_op(emit_label(PatchDefault(sw), brk), "drop")))

\* What follows a try or a catch block that can fall through.
ThroughFinally(fd, fin, end) ==
    IF ~js_is_live_code(fd) THEN fd
    ELSE LET f == emit_goto(emit_op(emit_op(fd, "drop"), "undefined"), "gosub", fin)
         IN  emit_goto(emit_op(f, "drop"), "goto", end)

ProtectedBlock(fd, s, fin) ==
    pop_break_entry(js_parse_block(SetTop(push_break_entry(fd, "", 0, 0, 1), "fin", fin), s))

CatchClause(fd, s, catch, catch2, fin, end) ==
    LET f1 == emit_label(push_scope(fd), catch)
        f2 == IF s.n = 1 THEN emit_op(f1, "put_exc") ELSE emit_op(f1, "drop")
        f3 == ProtectedBlock(push_scope(emit_goto(f2, "catch", catch2)), s.b[2], fin)
        f4 == ThroughFinally(pop_scope(pop_scope(f3)), fin, end)
    IN  emit_op(emit_goto(emit_label(f4, catch2), "gosub", fin), "throw")

FinallyClause(fd, s) ==
    LET f1 == push_break_entry(fd, "", 0, 0, 2)
        saved == fd.vars + 1
        f2 == IF fd.ret
              THEN set_eval_ret_undefined(emit(emit(add_var(f1), "get_loc", 1), "put_loc", saved))
              ELSE f1
        f3 == js_parse_block(f2, s.b[3])
        f4 == IF fd.ret THEN emit(emit(f3, "get_loc", saved), "put_loc", 1) ELSE f3
    IN  pop_break_entry(f4)

TryStatement(fd, s) ==
    LET catch == Len(fd.slot) + 1
        catch2 == catch + 1
        fin == catch + 2
        end == catch + 3
        f1 == new_label(new_label(new_label(new_label(set_eval_ret_undefined(fd)))))
        f2 == ThroughFinally(ProtectedBlock(emit_goto(f1, "catch", catch), s.b[1], fin), fin, end)
        f3 == IF s.b[2] # None THEN CatchClause(f2, s, catch, catch2, fin, end)
              ELSE emit_op(emit_goto(emit_label(f2, catch), "gosub", fin), "throw")
        f4 == emit_label(f3, fin)
        f5 == IF s.b[3] # None THEN FinallyClause(f4, s) ELSE f4
    IN  emit_label(emit_op(f5, "ret"), end)

WithStatement(fd, s) ==
    LET f == emit(add_var(push_scope(Expr(fd, 6))), "put_loc", fd.vars + 1)
    IN  pop_scope(js_parse_statement(set_eval_ret_undefined(f), s.b[1]))

Loops == {"while", "do", "for", "forof", "forin"}

LabelledStatement(fd, s) ==
    LET brk == Len(fd.slot) + 1
        f == push_break_entry(new_label(fd), s.l, brk, 0, 0)
    IN  IF \E i \in DOMAIN fd.top : fd.top[i].name = s.l
        THEN [fd EXCEPT !.err = TRUE]
        ELSE IF s.b[1].k \in Loops THEN Statement(fd, s.b[1], s.l)
        ELSE pop_break_entry(emit_label(js_parse_statement(f, s.b[1]), brk))

Statement(fd, s, name) ==
    CASE s.k \in {"expr", "and"} -> ExprStatement(fd, s)
      [] s.k = "exc" -> ExprStatement(fd, [s EXCEPT !.n = -1])
      [] s.k = "empty" -> fd
      [] s.k = "block" -> js_parse_block(fd, s)
      [] s.k = "return" -> IF s.n = 0 THEN emit_return(fd, FALSE)
                           ELSE emit_return(emit(fd, "push", s.n), TRUE)
      [] s.k = "throw" -> emit_op(emit(fd, "push", s.n), "throw")
      [] s.k = "if" -> IfStatement(fd, s)
      [] s.k = "while" -> WhileStatement(fd, s, name)
      [] s.k = "do" -> DoStatement(fd, s, name)
      [] s.k = "for" -> ForStatement(fd, s, name)
      [] s.k \in {"forof", "forin"} ->
           js_parse_for_in_of(set_eval_ret_undefined(fd), s, name)
      [] s.k = "break" -> emit_break(fd, s.l, FALSE)
      [] s.k = "continue" -> emit_break(fd, s.l, TRUE)
      [] s.k = "switch" -> SwitchStatement(fd, s, name)
      [] s.k = "try" -> TryStatement(fd, s)
      [] s.k = "with" -> WithStatement(fd, s)
      [] s.k = "label" -> LabelledStatement(fd, s)

\* A program for eval (js_parse_program) ends by returning its completion
\* value, a function body (js_parse_function_decl2) by a return statement.
EndProgram(fd) ==
    IF fd.ret THEN emit_op(emit(fd, "get_loc", 1), "return")
    ELSE IF js_is_live_code(fd) THEN emit_return(fd, FALSE) ELSE fd

js_parse_program(eval, list) == EndProgram(StatementList(NewFd(eval), list))

-----------------------------------------------------------------------------
(* resolve_labels: where a jump goes is where its label was emitted.       *)

Target(code, label) ==
    CHOOSE i \in DOMAIN code : code[i] = [op |-> "label", a |-> label]

-----------------------------------------------------------------------------
(* compute_stack_size.                                                     *)

NPop(op) == CASE op \in {"drop", "throw", "return", "if_true", "if_false", "ret", "put_loc",
                         "put_var", "put_exc", "dup", "for_in_start", "for_in_next",
                         "for_of_start"} -> 1
              [] op \in {"nip", "strict_eq"} -> 2
              [] op \in {"for_of_next", "iterator_close"} -> 3
              [] op = "iterator_close_return" -> 4
              [] OTHER -> 0

NPush(op) == CASE op \in {"undefined", "push", "call", "test", "sw", "get_loc", "catch", "nip",
                          "strict_eq", "for_in_start"} -> 1
               [] op = "dup" -> 2
               [] op \in {"for_in_next", "for_of_start"} -> 3
               [] op = "iterator_close_return" -> 4
               [] op = "for_of_next" -> 5
               [] OTHER -> 0

\* ss_check: a position is queued with its depth once, and must be reached
\* with the same depth ever after.
ss_check(s, pos, depth) ==
    IF s.fail \/ pos > Len(s.tab) THEN [s EXCEPT !.fail = TRUE]
    ELSE IF s.tab[pos] = -1 THEN [s EXCEPT !.tab[pos] = depth, !.todo = Append(@, pos)]
    ELSE [s EXCEPT !.fail = @ \/ s.tab[pos] # depth]

GosubDepth(depth) == depth + 1

RECURSIVE ss_explore(_, _)
ss_explore(code, s) ==
    IF s.fail \/ s.todo = <<>> THEN s
    ELSE LET pos == Last(s.todo)
             ins == code[pos]
             from == [s EXCEPT !.todo = Front(@), !.fail = s.tab[pos] < NPop(ins.op)]
             depth == s.tab[pos] - NPop(ins.op) + NPush(ins.op)
             jumped == CASE ins.op \in {"if_true", "if_false", "catch"} ->
                              ss_check(from, Target(code, ins.a), depth)
                         [] ins.op = "gosub" -> ss_check(from, Target(code, ins.a), GosubDepth(depth))
                         [] OTHER -> from
         IN  ss_explore(code,
               CASE ins.op \in {"return", "return_undef", "throw", "ret"} -> from
                 [] ins.op = "goto" -> ss_check(from, Target(code, ins.a), depth)
                 [] OTHER -> ss_check(jumped, pos + 1, depth))

compute_stack_size(code) ==
    ss_explore(code, ss_check([tab |-> [i \in DOMAIN code |-> -1], todo |-> <<>>,
                               fail |-> FALSE], 1, 0))
-----------------------------------------------------------------------------
(***************************************************************************)
(* JS_CallInternal running the bytecode of JsStatements: one action per    *)
(* instruction, the unwinding of an exception one value of the stack at a  *)
(* time.  Whatever a call into the program's own functions does is the     *)
(* environment's choice and is recorded in hist, so hist is what the       *)
(* statements are seen to do: [e, n, a] is the event, its argument and the *)
(* answer.  An exception raised at the i-th event has the value 10 + i.    *)
(***************************************************************************)

CONSTANTS Programs,    \* [eval, body]: what is compiled and run
          MaxEvents,   \* bound on the events of a run
          MaxThrows    \* bound on the calls that throw

VARIABLES prog,    \* the program
          code,    \* its bytecode
          level,   \* the stack depth compute_stack_size found at each position
          mode,    \* "run", "unwind", "halt" or "rejected"
          pc,
          stack,   \* values [t, v]
          loc,     \* local variables; loc[1] is eval_ret_idx
          exc,     \* the pending or caught exception
          hist,    \* what the program did and was answered
          result   \* [t, v]: how the call ended

vars == <<prog, code, level, mode, pc, stack, loc, exc, hist, result>>

Undefined == [t |-> "val", v |-> 0]
TypeError == 99

Compiled(p) == js_parse_program(p.eval, p.body)

Init ==
    \E p \in Programs : \E fd \in {Compiled(p)} : \E size \in {compute_stack_size(fd.code)} :
        /\ prog = p
        /\ code = fd.code
        /\ level = size.tab
        /\ mode = IF fd.err \/ size.fail THEN "rejected" ELSE "run"
        /\ pc = 1 /\ stack = <<>> /\ exc = 0 /\ hist = <<>>
        /\ loc = [i \in 1..fd.vars |-> 0]
        /\ result = [t |-> "none", v |-> 0]

Op == code[pc].op
Arg == code[pc].a
Running(ops) == mode = "run" /\ Op \in ops
Top == Last(stack)
Below(n) == SubSeq(stack, 1, Len(stack) - n)
Val(n) == [t |-> "val", v |-> n]

Throws == Cardinality({i \in DOMAIN hist : hist[i].a = "throw"})

\* The environment answers: within the bounds, anything it may.
Answer(event, arg, answers, a) ==
    /\ Len(hist) < MaxEvents
    /\ a \in answers
    /\ a = "throw" => Throws < MaxThrows
    /\ hist' = Append(hist, [e |-> event, n |-> arg, a |-> a])

Thrown == 10 + Len(hist) + 1

Raise(n) == mode' = "unwind" /\ exc' = n /\ UNCHANGED <<pc, loc, result>>

Continue(newPc, newStack) ==
    pc' = newPc /\ stack' = newStack /\ UNCHANGED <<mode, exc, result>>

Static == UNCHANGED <<prog, code, level>>

-----------------------------------------------------------------------------
(* Instructions that only move values.                                     *)

Move ==
    /\ Running({"undefined", "push", "drop", "nip", "dup", "strict_eq", "put_var"})
    /\ Continue(pc + 1,
         CASE Op = "undefined" -> Append(stack, Undefined)
           [] Op = "push" -> Append(stack, Val(Arg))
           [] Op \in {"drop", "put_var"} -> Below(1)
           [] Op = "nip" -> Append(Below(2), Top)
           [] Op = "dup" -> Append(stack, Top)
           [] Op = "strict_eq" ->
                Append(Below(2), Val(IF stack[Len(stack) - 1] = Top THEN 1 ELSE 0)))
    /\ UNCHANGED <<loc, hist>> /\ Static

Skip ==
    /\ Running({"nop", "label", "enter_scope", "leave_scope"})
    /\ Continue(pc + 1, stack)
    /\ UNCHANGED <<loc, hist>> /\ Static

Locals ==
    /\ Running({"put_loc", "get_loc"})
    /\ IF Op = "put_loc"
       THEN loc' = [loc EXCEPT ![Arg] = Top.v] /\ Continue(pc + 1, Below(1))
       ELSE loc' = loc /\ Continue(pc + 1, Append(stack, Val(loc[Arg])))
    /\ UNCHANGED hist /\ Static

\* The exception is stored in the variable of the catch clause.
PutExc ==
    /\ Running({"put_exc"})
    /\ exc' = Top.v /\ pc' = pc + 1 /\ stack' = Below(1)
    /\ UNCHANGED <<mode, loc, hist, result>> /\ Static

Jump ==
    /\ Running({"goto", "if_true", "if_false"})
    /\ LET taken == \/ Op = "goto"
                    \/ Op = "if_true" /\ Top.v # 0
                    \/ Op = "if_false" /\ Top.v = 0
       IN  Continue(IF taken THEN Target(code, Arg) ELSE pc + 1,
                    IF Op = "goto" THEN stack ELSE Below(1))
    /\ UNCHANGED <<loc, hist>> /\ Static

Catch ==
    /\ Running({"catch"})
    /\ Continue(pc + 1, Append(stack, [t |-> "catch", v |-> Target(code, Arg)]))
    /\ UNCHANGED <<loc, hist>> /\ Static

Gosub ==
    /\ Running({"gosub"})
    /\ Continue(Target(code, Arg), Append(stack, [t |-> "ret", v |-> pc + 1]))
    /\ UNCHANGED <<loc, hist>> /\ Static

Ret ==
    /\ Running({"ret"})
    /\ Top.t = "ret"
    /\ Continue(Top.v, Below(1))
    /\ UNCHANGED <<loc, hist>> /\ Static

Throw ==
    /\ Running({"throw"})
    /\ Raise(Top.v)
    /\ stack' = Below(1)
    /\ UNCHANGED hist /\ Static

Return ==
    /\ Running({"return", "return_undef"})
    /\ mode' = "halt"
    /\ result' = [t |-> "return", v |-> IF Op = "return" THEN Top.v ELSE 0]
    /\ stack' = <<>>
    /\ UNCHANGED <<pc, loc, exc, hist>> /\ Static

-----------------------------------------------------------------------------
(* Instructions that call into the program.                                *)

Outcome(a, newStack) ==
    IF a = "throw" THEN Raise(Thrown) /\ stack' = stack
    ELSE Continue(pc + 1, newStack) /\ UNCHANGED loc

Call(a) ==
    /\ Running({"call"})
    /\ LET n == IF Arg = -1 THEN exc ELSE Arg
       IN  Answer("call", n, {"ok", "throw"}, a) /\ Outcome(a, Append(stack, Val(n)))
    /\ Static

TestCall(a) ==
    /\ Running({"test"})
    /\ Answer("test", 0, {"true", "false", "throw"}, a)
    /\ Outcome(a, Append(stack, Val(IF a = "true" THEN 1 ELSE 0)))
    /\ Static

SwitchValue(a) ==
    /\ Running({"sw"})
    /\ Answer("sw", 0, {"1", "2", "3"}, a)
    /\ Outcome(a, Append(stack, Val(IF a = "1" THEN 1 ELSE IF a = "2" THEN 2 ELSE 3)))
    /\ Static

\* js_for_of_start leaves the iterator, its next method and the catch offset
\* 0 that marks an iterator.
ForOfStart(a) ==
    /\ Running({"for_of_start"})
    /\ Answer("open", 0, {"ok", "throw"}, a)
    /\ Outcome(a, Below(1) \o <<[t |-> "iter", v |-> Len(hist)], Val(0),
                               [t |-> "catch", v |-> 0]>>)
    /\ Static

\* js_for_of_next: the iterator is forgotten once it is done or has thrown.
js_for_of_next(a) ==
    /\ Running({"for_of_next"})
    /\ LET it == Len(stack) - 2
           over == [stack EXCEPT ![it] = Undefined]
       IN  /\ stack[it].t = "iter"
           /\ Answer("next", 0, {"value", "done", "throw"}, a)
           /\ IF a = "throw" THEN Raise(Thrown) /\ stack' = over
              ELSE /\ Continue(pc + 1, (IF a = "done" THEN over ELSE stack)
                                       \o <<Undefined, Val(IF a = "done" THEN 1 ELSE 0)>>)
                   /\ UNCHANGED loc
    /\ Static

ForInStart ==
    /\ Running({"for_in_start"})
    /\ Continue(pc + 1, Append(Below(1), [t |-> "enum", v |-> 0]))
    /\ UNCHANGED <<loc, hist>> /\ Static

ForInNext(a) ==
    /\ Running({"for_in_next"})
    /\ Answer("key", 0, {"value", "done"}, a)
    /\ Continue(pc + 1, stack \o <<Undefined, Val(IF a = "done" THEN 1 ELSE 0)>>)
    /\ UNCHANGED loc /\ Static

Closings == {"absent", "object", "nonobject", "throw"}

IteratorClose(a) ==
    /\ Running({"iterator_close"})
    /\ LET it == stack[Len(stack) - 2]
       IN  IF it.t = "iter"
           THEN /\ Answer("return", 0, Closings, a)
                /\ IF a \in {"throw", "nonobject"}
                   THEN /\ Raise(IF a = "throw" THEN Thrown ELSE TypeError)
                        /\ stack' = Below(2)
                   ELSE Continue(pc + 1, Below(3)) /\ UNCHANGED loc
           ELSE /\ a = "absent"
                /\ Continue(pc + 1, Below(3)) /\ UNCHANGED <<loc, hist>>
    /\ Static

\* Everything above the iterator record goes, the value to return is put
\* below it.
IteratorCloseReturn ==
    /\ Running({"iterator_close_return"})
    /\ LET at == CHOOSE i \in 1..(Len(stack) - 1) :
                   /\ stack[i].t = "catch"
                   /\ \A j \in (i + 1)..(Len(stack) - 1) : stack[j].t # "catch"
       IN  Continue(pc + 1, SubSeq(stack, 1, at - 3) \o <<Top>> \o SubSeq(stack, at - 2, at))
    /\ UNCHANGED <<loc, hist>> /\ Static

-----------------------------------------------------------------------------
(* The exception handler: values are popped until a catch offset is met;   *)
(* the offset 0 is an iterator, closed with the exception pending.         *)

Unwind(a) ==
    /\ mode = "unwind"
    /\ LET it == stack[Len(stack) - 2]
       IN  CASE stack = <<>> ->
                  /\ mode' = "halt" /\ result' = [t |-> "throw", v |-> exc]
                  /\ UNCHANGED <<pc, stack, hist>>
             [] stack # <<>> /\ Top.t # "catch" ->
                  stack' = Below(1) /\ UNCHANGED <<mode, pc, hist, result>>
             [] stack # <<>> /\ Top.t = "catch" /\ Top.v # 0 ->
                  /\ mode' = "run" /\ pc' = Top.v /\ stack' = Append(Below(1), Val(exc))
                  /\ UNCHANGED <<hist, result>>
             [] OTHER ->
                  /\ IF it.t = "iter" THEN Answer("return", 0, Closings, a)
                     ELSE hist' = hist
                  /\ stack' = Below(2)
                  /\ UNCHANGED <<mode, pc, result>>
    /\ (a # "absent" => hist' # hist)
    /\ UNCHANGED <<loc, exc>> /\ Static

\* The bounds are a limit of the model: a run may end at them.
AtBound == Len(hist) = MaxEvents /\ UNCHANGED vars

Halted == mode \in {"halt", "rejected"} /\ UNCHANGED vars

Next ==
    \/ Move \/ Skip \/ Locals \/ PutExc \/ Jump \/ Catch \/ Gosub \/ Ret \/ Throw \/ Return
    \/ ForInStart \/ IteratorCloseReturn
    \/ \E a \in {"ok", "throw"} : Call(a) \/ ForOfStart(a)
    \/ \E a \in {"true", "false", "throw"} : TestCall(a)
    \/ \E a \in {"1", "2", "3"} : SwitchValue(a)
    \/ \E a \in {"value", "done", "throw"} : js_for_of_next(a) \/ ForInNext(a)
    \/ \E a \in Closings : IteratorClose(a) \/ Unwind(a)
    \/ AtBound
    \/ Halted

Spec == Init /\ [][Next]_vars
-----------------------------------------------------------------------------
Ref == INSTANCE StatementSpec

\* A function or an eval program does what ECMAScript says its statements do:
\* the same calls in the same order, iterators closed when and only when
\* they should be, finally blocks run on every way out, and the same result
\* or exception in the end; and a program is compiled if and only if its
\* jumps have a target.
RunsAsDefined ==
    /\ (mode = "rejected") <=> ~Ref!LegalProgram(prog)
    /\ mode = "halt" =>
         Ref!Outcome(hist, prog) = [p |-> Len(hist), t |-> result.t, v |-> result.v]

\* The stack never grows past the depth compute_stack_size found for the
\* instruction, so the frame JS_CallInternal allocates is large enough.
StackAsComputed == mode = "run" => Len(stack) <= level[pc]
=============================================================================
