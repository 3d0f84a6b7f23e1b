----------------------------- MODULE MCLibrary ------------------------------
(* The standard library for TLC: regular expressions ("match", and the sets of      *)
(* characters, "ranges") and typed arrays ("typed": a buffer of four bytes of two   *)
(* bits with up to two views of it).                                                *)
(*                                                                                  *)
(* What a regular expression matches is defined from ECMAScript's semantics: each   *)
(* node yields, from a position and captures, its results in order of preference.   *)
(* Patterns are trees; Text gives the tokens the engine reads.                      *)
EXTENDS JsRegexp

Node(k) == [k |-> k, c |-> 0, name |-> "", kids |-> << >>, min |-> 0, max |-> 0, on |-> FALSE, items |-> << >>]
Char(c)         == [Node("char") EXCEPT !.c = c]
Dot             == Node(".")
Assertion(k)    == Node(k)                       \* "^", "$", "b", "B"
Class(its, inv) == [Node("class") EXCEPT !.items = its, !.on = inv]
Interval(lo, hi) == [e |-> "", lo |-> lo, hi |-> hi]
Escape(e)       == [e |-> e, lo |-> 0, hi |-> 0]
Ref(n)          == [Node("ref") EXCEPT !.c = n]
KRef(s, n)      == [Node("kref") EXCEPT !.name = s, !.c = n]
Concat(ks)      == [Node("seq") EXCEPT !.kids = ks]
Alt(a, b)       == [Node("alt") EXCEPT !.kids = <<a, b>>]
Non(a)          == [Node("(?:") EXCEPT !.kids = <<a>>]
Cap(n, a)       == [Node("(") EXCEPT !.kids = <<a>>, !.c = n]
Named(s, n, a)  == [Node("(?<") EXCEPT !.kids = <<a>>, !.c = n, !.name = s]
Look(k, a)      == [Node(k) EXCEPT !.kids = <<a>>]    \* "(?=", "(?!", "(?<=", "(?<!"
Quant(a, min, max, greedy) == [Node("quant") EXCEPT !.kids = <<a>>, !.min = min, !.max = max, !.on = greedy]

Looks == {"(?=", "(?!", "(?<=", "(?<!"}

RECURSIVE Text(_)
Text(x) ==
  CASE x.k \in {"^", "$", "b", "B", "."} -> <<[t |-> x.k]>>
    [] x.k \in {"char", "ref"} -> <<[t |-> x.k, c |-> x.c]>>
    [] x.k = "kref"  -> <<[t |-> "kref", name |-> x.name]>>
    [] x.k = "class" -> <<[t |-> "class", items |-> x.items, inv |-> x.on]>>
    [] x.k = "seq"   -> FoldLeft(LAMBDA s, y : s \o Text(y), << >>, x.kids)
    [] x.k = "alt"   -> Text(x.kids[1]) \o <<[t |-> "|"]>> \o Text(x.kids[2])
    [] x.k = "(?<"   -> <<[t |-> "(?<", name |-> x.name]>> \o Text(x.kids[1]) \o <<[t |-> ")"]>>
    [] x.k \in Looks \cup {"(", "(?:"} -> <<[t |-> x.k]>> \o Text(x.kids[1]) \o <<[t |-> ")"]>>
    [] x.k = "quant" -> Text(x.kids[1]) \o <<[t |-> "quant", min |-> x.min, max |-> x.max, greedy |-> x.on]>>

Pattern(x) == [ast |-> x, toks |-> Text(x)]

\* The groups inside a node.
RECURSIVE Groups(_)
Groups(x) == (IF x.k \in {"(", "(?<"} THEN {x.c} ELSE {})
             \cup UNION {Groups(x.kids[i]) : i \in DOMAIN x.kids}

Canon(c) == IF ~f.i THEN c
            ELSE IF c \in LowerA .. LowerZ THEN (c + UpperA) - LowerA ELSE c

\* Does the character c belong to the class?
InClass(x, c) ==
  LET Has(it, d) == IF it.e = "w" THEN d \in UpperA .. LowerZ
                    ELSE IF it.e = "W" THEN d \notin UpperA .. LowerZ
                    ELSE d \in it.lo .. it.hi
  IN x.on # (\E i \in DOMAIN x.items : \E d \in Chars : Canon(d) = Canon(c) /\ Has(x.items[i], d))

\* The characters of the text by the position where they start: <<character, next position>>.
NextOf(p) ==
  IF f.u /\ p + 2 <= End /\ text[p + 1] = Hi /\ text[p + 2] = Lo THEN <<Pair, p + 2>> ELSE <<text[p + 1], p + 1>>
PrevOf(p) ==
  IF f.u /\ p >= 2 /\ text[p] = Lo /\ text[p - 1] = Hi THEN <<Pair, p - 2>> ELSE <<text[p], p - 1>>
Read(p, back) == IF back THEN PrevOf(p) ELSE NextOf(p)
AtEdge(p, back) == p = (IF back THEN 0 ELSE End)

InPair(p) == f.u /\ p \in 1 .. End - 1 /\ text[p] = Hi /\ text[p + 1] = Lo

\* The characters between two positions, without regard to case where the flag says so.
RECURSIVE CharsOf(_, _)
CharsOf(p, e) == IF p >= e THEN << >> ELSE <<Canon(NextOf(p)[1])>> \o CharsOf(NextOf(p)[2], e)

FlatMap(s, Op1(_)) == FoldLeft(LAMBDA a, y : a \o Op1(y), << >>, s)

Unset == <<None, None>>

RECURSIVE Results(_, _, _)
RECURSIVE Repeated(_, _, _, _, _)

\* RepeatMatcher: the captures of the atom are forgotten at each iteration, and an iteration that is
\* not required must advance.
Repeated(x, min, max, st, back) ==
  IF max = 0 THEN <<st>>
  ELSE LET atom  == x.kids[1]
           clear == [st EXCEPT !.caps = [g \in DOMAIN @ |-> IF g \in Groups(atom) THEN Unset ELSE @[g]]]
           More(y) == IF min = 0 /\ y.p = st.p THEN << >>
                      ELSE Repeated(x, IF min = 0 THEN 0 ELSE min - 1, IF max = Inf THEN Inf ELSE max - 1, y, back)
           more  == FlatMap(Results(atom, clear, back), More)
       IN IF min > 0 THEN more ELSE IF x.on THEN more \o <<st>> ELSE <<st>> \o more

Results(x, st, back) ==
  LET p == st.p
      One(Ok(_)) == IF AtEdge(p, back) \/ ~Ok(Read(p, back)[1]) THEN << >>
                    ELSE <<[st EXCEPT !.p = Read(p, back)[2]]>>
      If(b)  == IF b THEN <<st>> ELSE << >>
      Word(q) == q \in 0 .. End - 1 /\ NextOf(q)[1] \in UpperA .. LowerZ
      kids == IF back THEN Reverse(x.kids) ELSE x.kids
      \* the characters of the group again, from here on
      Again(g) ==
        LET ends == {q \in 0 .. End : (IF back THEN q <= p ELSE q >= p) /\ ~InPair(q)
                       /\ CharsOf(IF back THEN q ELSE p, IF back THEN p ELSE q) = CharsOf(g[1], g[2])}
        IN IF g = Unset THEN <<st>>
           ELSE IF ends = {} THEN << >> ELSE <<[st EXCEPT !.p = CHOOSE q \in ends : TRUE]>>
  IN CASE x.k = "char" -> One(LAMBDA c : Canon(c) = Canon(x.c))
       [] x.k = "."    -> One(LAMBDA c : f.s \/ c # Lf)
       [] x.k = "class" -> One(LAMBDA c : InClass(x, c))
       [] x.k = "^"    -> If(p = 0 \/ (f.m /\ PrevOf(p)[1] = Lf))
       [] x.k = "$"    -> If(p = End \/ (f.m /\ NextOf(p)[1] = Lf))
       [] x.k = "b"    -> If(Word(p - 1) # Word(p))
       [] x.k = "B"    -> If(Word(p - 1) = Word(p))
       [] x.k \in {"ref", "kref"} -> Again(st.caps[x.c])
       [] x.k = "seq"  -> FoldLeft(LAMBDA rs, y : FlatMap(rs, LAMBDA r : Results(y, r, back)), <<st>>, kids)
       [] x.k = "alt"  -> Results(x.kids[1], st, back) \o Results(x.kids[2], st, back)
       [] x.k = "(?:"  -> Results(x.kids[1], st, back)
       [] x.k \in {"(", "(?<"} ->
            LET rs == Results(x.kids[1], st, back)
            IN [i \in DOMAIN rs |-> [rs[i] EXCEPT !.caps[x.c] =
                                       IF back THEN <<rs[i].p, p>> ELSE <<p, rs[i].p>>]]
       [] x.k \in {"(?=", "(?<="} ->
            LET rs == Results(x.kids[1], st, x.k = "(?<=")
            IN IF rs = << >> THEN << >> ELSE <<[st EXCEPT !.caps = rs[1].caps]>>
       [] x.k \in {"(?!", "(?<!"} -> If(Results(x.kids[1], st, x.k = "(?<!") = << >>)
       [] x.k = "quant" -> Repeated(x, x.min, x.max, st, back)

\* The captures of the first position with a result, from p on; the empty sequence for none.
RECURSIVE Search(_)
Search(p) ==
  LET st == [p |-> p, caps |-> [g \in 1 .. prog.ncap - 1 |-> Unset]]
      rs == Results(re.ast, st, FALSE)
  IN IF rs # << >> THEN [g \in 1 .. prog.ncap |-> IF g = 1 THEN <<p, rs[1].p>> ELSE rs[1].caps[g - 1]]
     ELSE IF f.y \/ p = End THEN << >> ELSE Search(NextOf(p)[2])

Found ==
  [g \in 1 .. prog.ncap |->
     IF m.capture[2 * g - 1] = None \/ m.capture[2 * g] = None THEN Unset
     ELSE <<m.capture[2 * g - 1], m.capture[2 * g]>>]

\* The engine finds the match that the definition of the language prefers, with the same captures,
\* or none where there is none (libregexp.c lre_compile, lre_exec_backtrack).
MatchesAsPreferred ==
  /\ m.ret = "match"   => Search(m.start) = Found
  /\ m.ret = "nomatch" => Search(m.start) = << >>
-----------------------------------------------------------------------------
(***************************************************************************)
(* Regular expressions for TLC: part "match" compiles patterns and runs    *)
(* them, part "ranges" builds a set of characters by any sequence of the   *)
(* operations on lists of points.                                          *)
(*                                                                         *)
(* Characters: 0, '\n' = 1, A = 2, B = 3, a = 4, b = 5, '-' = 6, a high    *)
(* and a low surrogate 7 and 8, 0xffff = 9, the character of the pair 10.  *)
(***************************************************************************)

VARIABLES part,
          cr, set,            \* ranges
          data, det, views    \* typed arrays

a == Char(4)
b == Char(5)
Plain == [m |-> FALSE, i |-> FALSE, s |-> FALSE, u |-> FALSE, y |-> FALSE]
Strings(alphabet, n) == UNION {[1 .. k -> alphabet] : k \in 0 .. n}

\* Atoms that never match the empty string and always set their groups, under every quantifier.
Atoms  == {a, Dot, Cap(1, a), Non(Alt(a, b)), Cap(1, Alt(a, Concat(<<b, a>>))), Non(Concat(<<a, b>>)),
           Cap(1, Quant(a, 1, Inf, TRUE)), Cap(1, Concat(<<Cap(2, Dot), Ref(2)>>))}
Counts == {<<0, Inf>>, <<1, Inf>>, <<0, 1>>, <<0, 2>>, <<2, 2>>, <<1, 2>>, <<2, Inf>>, <<0, 0>>}
Quantifieds(atoms) == {Quant(x, c[1], c[2], g) : x \in atoms, c \in Counts, g \in BOOLEAN}
Loops  == {Pattern(Concat(<<q, t>>)) : q \in Quantifieds(Atoms), t \in {b, Assertion("$")}}
          \cup {Pattern(Concat(<<Quant(Non(Quant(x, 1, 2, g)), 2, 3, TRUE), b>>)) :
                   x \in {a, Cap(1, Dot)}, g \in BOOLEAN}

\* Look-around, boundaries, classes and references, in either direction.
Upper == Class(<<Interval(2, 2), Interval(5, 5)>>, FALSE)
Wide  == Class(<<Interval(7, 10), Interval(1, 1)>>, FALSE)
Looking ==
  {Pattern(x) : x \in
    {Concat(<<Look("(?<=", Concat(<<Cap(1, Quant(a, 1, Inf, TRUE)), Cap(2, Quant(a, 0, Inf, g))>>)), b>>) : g \in BOOLEAN}
    \cup {Concat(<<Look("(?<=", Concat(<<Ref(1), Cap(1, Dot)>>)), Cap(2, Dot)>>),
          Concat(<<Look("(?<!", Concat(<<a, b>>)), Cap(1, Dot), Look("(?!", Ref(1)), Dot>>),
          Concat(<<Look("(?=", Cap(1, Quant(a, 1, Inf, TRUE))), Quant(Dot, 0, Inf, FALSE), Ref(1), b>>),
          Concat(<<Quant(Non(Alt(Concat(<<a, Assertion("b")>>), Concat(<<b, Assertion("B")>>))), 0, Inf, TRUE), Dot>>),
          Concat(<<Assertion("^"), Quant(Dot, 0, Inf, TRUE), Assertion("$")>>),
          Concat(<<Quant(Upper, 1, Inf, TRUE), Assertion("$")>>),
          Concat(<<Quant(Class(<<Escape("w")>>, TRUE), 0, Inf, TRUE), Dot, Cap(1, Quant(Wide, 0, 1, TRUE))>>),
          Concat(<<Named("n", 1, Char(2)), KRef("n", 1)>>),
          Concat(<<Look("(?<=", Concat(<<KRef("n", 1), Named("n", 1, Dot)>>)), Assertion("b")>>),
          Quant(Look("(?=", a), 2, 2, TRUE),
          Alt(Alt(Char(10), Concat(<<Char(1), Assertion("^")>>)), Concat(<<Assertion("$"), Quant(Char(7), 0, 1, FALSE)>>))}}
TextsAll == Strings({1, 2, 4}, 3) \cup Strings({4, 5}, 3) \cup Strings({7, 8}, 3) \cup {<<4, 7, 8, 7, 8, 6>>, <<8, 9, 7, 8>>}
FlagsAll == {Plain, [Plain EXCEPT !.m = TRUE], [Plain EXCEPT !.i = TRUE], [Plain EXCEPT !.s = TRUE],
             [Plain EXCEPT !.u = TRUE], [Plain EXCEPT !.y = TRUE, !.u = TRUE, !.m = TRUE]}

\* Atoms that may match the empty string, greedily repeated; what they match is not compared.
Uncompared(p) == [p EXCEPT !.ast = Node("uncompared")]
Empties == {Uncompared(Pattern(Concat(<<Quant(x, c[1], c[2], TRUE), b>>))) :
             x \in {Non(Quant(a, 0, 1, TRUE)), Cap(1, Quant(a, 0, Inf, FALSE)), Non(Alt(Non(Concat(<< >>)), a)),
                    Non(Concat(<<Cap(1, Quant(a, 0, Inf, TRUE)), Quant(Cap(2, b), 0, 1, TRUE)>>))}, c \in Counts}

\* Every sequence of up to four of these tokens.
Tokens == {[t |-> k] : k \in {"(", "(?:", ")", "|", "(?=", "(?<!"}}
          \cup {[t |-> "char", c |-> 4], [t |-> "ref", c |-> 1],
                [t |-> "quant", min |-> 0, max |-> Inf, greedy |-> TRUE],
                [t |-> "quant", min |-> 2, max |-> 1, greedy |-> TRUE]}
NoTree == Node("none")
TokenSeqs == {[ast |-> NoTree, toks |-> s] : s \in Strings(Tokens, 4)}

MCCases ==
  {[patterns |-> Loops, texts |-> Strings({4, 5}, 4), flags |-> {Plain}],
   [patterns |-> Looking, texts |-> TextsAll, flags |-> FlagsAll],
   [patterns |-> Empties, texts |-> Strings({4, 5}, 3), flags |-> {Plain}],
   [patterns |-> TokenSeqs, texts |-> {<<4, 5>>}, flags |-> {Plain, [Plain EXCEPT !.u = TRUE]}]}
-----------------------------------------------------------------------------
UnionInterval == \E c1, c2 \in Chars :
  /\ c1 <= c2
  /\ cr' = cr_union_interval(cr, c1, c2) /\ set' = set \cup (c1 .. c2)

Combine(op) == \E c1, c2 \in Chars :
  /\ c1 <= c2
  /\ cr' = cr_op(cr, <<c1, c2 + 1>>, op)
  /\ set' = IF op = "inter" THEN set \cap (c1 .. c2) ELSE (set \ (c1 .. c2)) \cup ((c1 .. c2) \ set)

Invert == cr' = cr_invert(cr) /\ set' = Chars \ set

Canonicalize ==
  /\ cr' = cr_canonicalize(cr)
  /\ set' = set \cup {(c + UpperA) - LowerA : c \in set \cap (LowerA .. LowerZ)}

RangeNext == UnionInterval \/ Combine("inter") \/ Combine("xor") \/ Invert \/ Canonicalize
-----------------------------------------------------------------------------
View(c, o, l) == [cls |-> c, off |-> o, len |-> l]
NoLength == 99

Typed ==
  INSTANCE JsTypedArray
    WITH Byte <- 4, Size <- 4, MaxViews <- 2,
         Menu <- {View("i8", 0, 3), View("u16", 0, 2), View("u8c", 1, NoLength)},
         Nums <- {5}, Positions <- {-2, 0, 9}
typedVars == <<data, det, views>>
-----------------------------------------------------------------------------
MCInit ==
  /\ cr = << >> /\ set = {}
  /\ \/ part = "match" /\ Init /\ data = << >> /\ det = << >> /\ views = << >>
     \/ /\ re = << >> /\ f = << >> /\ text = << >> /\ prog = NoProg /\ m = Idle
        /\ \/ part = "ranges" /\ data = << >> /\ det = << >> /\ views = << >>
           \/ part = "typed" /\ Typed!Init

\* The trees of the cases are matched; a sequence of tokens that stands for no tree is only compiled.
MatchSteps == part = "match" /\ (re.ast = NoTree => prog = NoProg) /\ Next /\ UNCHANGED <<part, cr, set, typedVars>>
RangeSteps == part = "ranges" /\ RangeNext /\ UNCHANGED <<part, vars, typedVars>>
TypedSteps == part = "typed" /\ Typed!Next /\ UNCHANGED <<part, cr, set, vars>>

MCSpec == MCInit /\ [][MatchSteps \/ RangeSteps \/ TypedSteps]_<<part, cr, set, vars, typedVars>>
-----------------------------------------------------------------------------

\* Whatever the operations, the points are strictly increasing and come in pairs, and stand for the
\* set that the same operations give on sets of characters (libunicode.c cr_op, cr_invert); and the
\* instruction made of them accepts exactly the characters of the set, in its 16 bit form with the
\* 0xffff convention and in its 32 bit form (libregexp.c re_emit_range, REOP_range).
PointsAreTheSet ==
  part = "ranges" =>
    /\ Len(cr) % 2 = 0
    /\ \A i \in 1 .. Len(cr) - 1 : cr[i] < cr[i + 1]
    /\ set = {c \in Chars : \E k \in 1 .. Len(cr) \div 2 : cr[2 * k - 1] <= c /\ c < cr[2 * k]}
    /\ \A c \in Chars : RangeMatch(re_emit_range(cr), c) <=> c \in set

=============================================================================
