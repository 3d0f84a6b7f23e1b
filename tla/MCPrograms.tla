----------------------------- MODULE MCPrograms -----------------------------
(***************************************************************************)
(* What the engine compiles and runs, for TLC.  Part "statements": nests   *)
(* of two and three statements around every kind of jump, as the body of a *)
(* function and as a program passed to eval, run against every answer of   *)
(* the environment.  Parts "exports" and "reexports": three modules that   *)
(* export and re-export names in every combination.  Part "requests":      *)
(* three modules that request each other in every order, cycles included,  *)
(* where one may be missing and one may throw.                             *)
(***************************************************************************)
EXTENDS JsStatements

VARIABLES part, files, st, last, imports

moduleVars == <<files, st, last, imports>>
-----------------------------------------------------------------------------
E(n) == St("expr", "", n, <<>>)
Jump0(k) == St(k, "", 0, <<>>)
Block(list) == St("block", "", 0, list)
Try(block, catch, final) == St("try", "", 0, <<block, catch, final>>)
TryE(block, catch, final) ==
    St("try", "", 1, <<block, Block(<<St("exc", "", 0, <<>>)>> \o catch.b), final>>)
Clause(n, list) == St("case", "", n, list)
Default(list) == St("default", "", 0, list)

BreaksAndContinues ==
    {Jump0("break"), Jump0("continue"), St("break", "a", 0, <<>>), St("continue", "a", 0, <<>>)}
Leaves(eval) ==
    BreaksAndContinues \cup {E(1), St("throw", "", 4, <<>>)}
          \cup (IF eval THEN {Jump0("empty")} ELSE {St("return", "", 5, <<>>), St("return", "", 0, <<>>)})

LoopsOf(s) ==
    {St("while", "", 0, <<s>>), St("do", "", 0, <<s>>), St("forof", "", 0, <<s>>),
     St("forin", "", 0, <<s>>)}
    \cup {St("for", "", n, <<s>>) : n \in {0, 13}}

Switches(s) ==
    {St("switch", "", 0, <<Clause(1, <<s>>), Default(<<E(2)>>), Clause(2, <<E(3)>>)>>),
     St("switch", "", 0, <<Default(<<s>>), Clause(1, <<>>), Clause(2, <<E(2)>>)>>),
     St("switch", "", 0, <<Clause(1, <<>>), Clause(2, <<E(2), s>>), Clause(2, <<>>)>>)}

Trys(s) ==
    {Try(Block(<<s>>), Block(<<E(2)>>), None), Try(Block(<<s>>), None, Block(<<E(3)>>)),
     TryE(Block(<<E(1), s>>), Block(<<E(2)>>), Block(<<E(3)>>)),
     Try(Block(<<E(1)>>), Block(<<s>>), Block(<<>>)),
     Try(Block(<<E(1)>>), None, Block(<<E(3), s>>))}

Others(s) == {Block(<<s, E(2)>>), St("if", "", 0, <<s, E(2)>>), St("with", "", 0, <<s>>)}

Wraps(s) == LoopsOf(s) \cup Switches(s) \cup Trys(s) \cup Others(s)

Outer(s) == {St("while", "", 0, <<s>>), St("forof", "", 0, <<s>>)} \cup Switches(s) \cup Trys(s)

\* s and its parts, but not the parts of statements of a kind in stop.
RECURSIVE Parts(_, _)
Parts(s, stop) ==
    {s} \cup (IF s.k \in stop THEN {} ELSE UNION {Parts(s.b[i], stop) : i \in DOMAIN s.b})

Kinds(s, kinds) == {x \in Parts(s, {}) : x.k \in kinds}

\* Two programs the engine does not run as defined: a break without a label
\* that stands in a labelled statement which is not a loop, with no loop or
\* switch between them; a return below a switch, a for-in loop or a finally
\* block that stands in a loop over an iterator that stands in a try statement.
BareBreakInLabel(s) ==
    \E x \in Kinds(s, {"label"}) :
      /\ x.b[1].k \notin Loops
      /\ Jump0("break") \in Parts(x.b[1], Loops \cup {"switch"})

ReturnThrough(s) ==
    \E x \in Kinds(s, {"try"}) : \E y \in Kinds(x, {"forof"}) :
      \/ \E z \in Kinds(y, {"switch", "forin"}) : Kinds(z, {"return"}) # {}
      \/ \E z \in Kinds(y, {"try"}) : Kinds(z.b[3], {"return"}) # {}

OneDeep(leaves) == UNION {Wraps(l) : l \in leaves}
TwoDeep == UNION {Wraps(w) : w \in OneDeep(Leaves(FALSE))}
InEval == UNION {Outer(w) : w \in OneDeep(Leaves(TRUE))}
Labelled == {St("label", "a", 0, <<w>>) : w \in UNION {Outer(v) : v \in OneDeep(BreaksAndContinues)}}
\* What surrounds a loop over an iterator, and what is in it.
ThreeDeep ==
    UNION {Trys(St("forof", "", 0, <<v>>)) \cup {St("while", "", 0, <<St("forof", "", 0, <<v>>)>>)} :
           v \in OneDeep(Leaves(FALSE))}

MCProgramSet ==
    {[eval |-> TRUE, body |-> <<E(5), s>>] : s \in InEval}
    \cup {[eval |-> FALSE, body |-> <<s, E(5)>>] :
            s \in {t \in TwoDeep \cup Labelled \cup ThreeDeep : ~BareBreakInLabel(t) /\ ~ReturnThrough(t)}}

-----------------------------------------------------------------------------
A == "a"
B == "b"
C == "c"
Three == {A, B, C}
XD == {"x", "default"}
XY == {"x", "y"}

NoEntry == [k |-> "none", local |-> "", from |-> ""]
Local(v) == [k |-> "local", local |-> v, from |-> ""]
Indirect(m, x) == [k |-> "indirect", local |-> x, from |-> m]
Ns(m) == [k |-> "ns", local |-> "*", from |-> m]
Take(v, x, m) == [var |-> v, name |-> x, from |-> m]

Lists(S) == ({<<>>} \cup {<<m>> : m \in S} \cup {<<m, n>> : m, n \in S}) \ {<<m, m>> : m \in S}

\* The requests, in the order of the source: exports first.
Requests(ex, stars, imps) ==
    LET from == [i \in 1..Len(SetToSeq({x \in DOMAIN ex : ex[x].from # ""})) |->
                   ex[SetToSeq({x \in DOMAIN ex : ex[x].from # ""})[i]].from]
        all  == from \o stars \o [i \in DOMAIN imps |-> imps[i].from]
    IN  FoldLeft(LAMBDA r, m : IF m \in ToSet(r) THEN r ELSE Append(r, m), <<>>, all)
Source(ex, stars, imps) ==
    [req |-> Requests(ex, stars, imps), exports |-> ex, stars |-> stars, imports |-> imps]

\* Exports of x and y in every combination of star exports and re-exports.
EX(kx, ky) == [e \in XY |-> IF e = "x" THEN kx ELSE ky]
ExportGraphs ==
    {[n \in Three |-> CASE n = A -> sa [] n = B -> sb [] OTHER -> sc] :
        sa \in {Source(EX(k, NoEntry), s, i) : k \in {NoEntry, Indirect(B, "y")}, s \in {<<B>>, <<B, C>>},
                                               i \in {<<Take("v", "x", B)>>, <<Take("v", "*", C)>>}},
        sb \in {Source(EX(k, l), s, <<>>) : k \in {NoEntry, Local("p"), Indirect(C, "x"), Ns(C)},
                                            l \in {NoEntry, Indirect(A, "x")}, s \in Lists({A, C})},
        sc \in {Source(EX(k, NoEntry), s, <<>>) : k \in {NoEntry, Local("p"), Indirect(A, "x")},
                                                  s \in {<<>>, <<B, A>>}}}

\* Requests in every order, cycles included.
RequestGraphs ==
    {[n \in Three |-> Source([e \in XD |-> IF e = "x" THEN Local("p") ELSE NoEntry], <<>>,
                             [i \in DOMAIN r[n] |-> Take(IF i = 1 THEN "u" ELSE "v", "x", r[n][i])])] :
        r \in {f \in [Three -> Lists(Three)] : \A n \in Three : n \notin ToSet(f[n])}}

\* c re-exports under "default" what it imports from b, and a imports both from c.
ReexportGraphs ==
    {[n \in Three |->
        CASE n = A -> Source([e \in XD |-> IF e = "x" THEN Local("p") ELSE NoEntry], sa, ia)
          [] n = B -> Source([e \in XD |-> IF e = "x" THEN Local("p") ELSE Local("q")], <<>>, ib)
          [] OTHER -> Source([e \in XD |-> IF e = "x" THEN NoEntry ELSE Local("u")], sc, <<Take("u", "x", B)>>)] :
        sa \in Lists({B, C}), sc \in {<<>>, <<B>>},
        ia \in {<<Take("v", "default", C)>>, <<Take("v", "*", C)>>, <<Take("v", "x", C), Take("w", "default", C)>>},
        ib \in {<<>>, <<Take("v", "x", A)>>, <<Take("v", "*", A)>>, <<Take("v", "default", C)>>}}

OneOrNone == {{}} \cup {{n} : n \in Three}

Exporting == INSTANCE JsModules WITH Names <- Three, Exports <- XY, Graphs <- ExportGraphs,
                                     Missing <- {{}}, Bad <- {{}}, MaxImports <- 1
Reexporting == INSTANCE JsModules WITH Names <- Three, Exports <- XD, Graphs <- ReexportGraphs,
                                       Missing <- {{}}, Bad <- {{}}, MaxImports <- 2
Requesting == INSTANCE JsModules WITH Names <- Three, Exports <- XD, Graphs <- RequestGraphs,
                                      Missing <- OneOrNone, Bad <- OneOrNone, MaxImports <- 2
-----------------------------------------------------------------------------
NoProgram ==
    /\ prog = <<>> /\ code = <<>> /\ level = <<>> /\ mode = "" /\ pc = 0 /\ stack = <<>>
    /\ loc = <<>> /\ exc = 0 /\ hist = <<>> /\ result = <<>>
NoModules == files = <<>> /\ st = <<>> /\ last = <<>> /\ imports = 0

MCInit ==
    \/ part = "statements" /\ Init /\ NoModules
    \/ part = "exports" /\ Exporting!Init /\ NoProgram
    \/ part = "reexports" /\ Reexporting!Init /\ NoProgram
    \/ part = "requests" /\ Requesting!Init /\ NoProgram

StatementSteps == part = "statements" /\ Next /\ UNCHANGED <<part, moduleVars>>
ExportSteps == part = "exports" /\ Exporting!Next /\ UNCHANGED <<part, vars>>
ReexportSteps == part = "reexports" /\ Reexporting!Next /\ UNCHANGED <<part, vars>>
RequestSteps == part = "requests" /\ Requesting!Next /\ UNCHANGED <<part, vars>>

MCNext == StatementSteps \/ ExportSteps \/ ReexportSteps \/ RequestSteps

MCSpec == MCInit /\ [][MCNext]_<<part, vars, moduleVars>>
-----------------------------------------------------------------------------
(***************************************************************************)
(* A program does what the language says its statements do, and is         *)
(* rejected only if a jump in it has no target; on the way its stack stays *)
(* within the size computed for it.  See JsStatements.                     *)
(***************************************************************************)
ProgramsRunAsDefined == part = "statements" => RunsAsDefined /\ StackAsComputed


(***************************************************************************)
(* Bodies run once and after those they depend on, and an import() that    *)
(* succeeds leaves everything it needs loaded and evaluated, also after    *)
(* earlier imports of parts of the graph have failed.  See JsModules.      *)
(***************************************************************************)
ImportComplete ==
    part = "requests" =>
        /\ Requesting!BodiesOnce /\ Requesting!DependenciesFirst
        /\ Requesting!ImportComplete /\ Requesting!NothingDangles
=============================================================================
