------------------------------ MODULE ArraySpec ------------------------------
(***************************************************************************)
(* What the methods of an array return and leave: an array is a length and *)
(* its elements, some of which may be missing; a missing element is looked *)
(* for in the prototypes.                                                  *)
(***************************************************************************)
EXTENDS Integers, Sequences, SequencesExt, FiniteSets, TLC

CONSTANTS Undef, Rank,
          Pushed,      \* the value a program pushes while a method runs
          Inner        \* the arrays among the values: value -> [len, els]

VARIABLES len, els, inherited

Arr(n, f) == [len |-> n, els |-> f]
NoArr == Arr(0, <<>>)
Ordered(S) == SetToSortSeq(S, <)

\* The elements of f, and of the prototypes where f has none.
Seen(f) == f @@ inherited
SeenBelow(f, n) == {k \in DOMAIN Seen(f) : k < n}
Get(f, k) == IF k \in DOMAIN Seen(f) THEN Seen(f)[k] ELSE Undef

\* The array of length n whose element k is kept, moved from an old place, or new.
Keep == <<"keep">>
Old(i) == <<"old", i>>
New(v) == <<"new", v>>
Moved(n, src) ==
    Arr(n, [k \in {j \in DOMAIN src : CASE src[j][1] = "keep" -> j \in DOMAIN els
                                        [] src[j][1] = "old" -> src[j][2] \in DOMAIN Seen(els)
                                        [] OTHER -> TRUE} |->
               CASE src[k][1] = "keep" -> els[k] [] src[k][1] = "old" -> Seen(els)[src[k][2]] [] OTHER -> src[k][2]])
Same == Arr(len, els)
Places(n) == 0..n - 1

Pos(n) == LET p == IF n < 0 THEN n + len ELSE n IN IF p < 0 THEN 0 ELSE IF p > len THEN len ELSE p

\* The elements after an argument was converted by code that changes the array.
Now(h) == CASE h = "none" -> els [] h = "push" -> els @@ (len :> Pushed) [] h = "cut" -> <<>>
NowArr(h) == CASE h = "none" -> Same [] h = "push" -> Arr(len + 1, Now(h)) [] h = "cut" -> NoArr

\* A call leaves an array, makes one and returns a value.
R(a, out, res) == [a |-> a, arr |-> out, res |-> res]

Splice(f, d, items) ==
    LET s == Pos(f)
        del == IF d < 0 THEN 0 ELSE IF d > len - s THEN len - s ELSE d
        c == Len(items)
    IN  R(Moved(len + c - del, [k \in Places(len + c - del) |->
              IF k < s THEN Keep ELSE IF k < s + c THEN New(items[k - s + 1])
              ELSE IF c = del THEN Keep ELSE Old(k - c + del)]),
          Arr(del, [k \in {j \in Places(del) : s + j \in DOMAIN Seen(els)} |-> Seen(els)[s + k]]), <<>>)

CopyWithin(t, f, e) ==
    LET to == Pos(t)
        from == Pos(f)
        c == IF Pos(e) - from < len - to THEN Pos(e) - from ELSE len - to
    IN  Moved(len, [k \in Places(len) |-> IF k \in to..to + c - 1 THEN Old(k - to + from) ELSE Keep])

\* Sorted: the place of an element is the number of those that come before it;
\* undefined comes after the others, holes after undefined.
Sorted ==
    LET S == SeenBelow(els, len)
        V == {k \in S : Seen(els)[k] # Undef}
        Place(k) == Cardinality({j \in V : \/ Rank[Seen(els)[j]] < Rank[Seen(els)[k]]
                                           \/ Rank[Seen(els)[j]] = Rank[Seen(els)[k]] /\ j < k})
    IN  Arr(len, [n \in Places(Cardinality(S)) |->
                     IF n < Cardinality(V) THEN Seen(els)[CHOOSE k \in V : Place(k) = n] ELSE Undef])

Values(f, n) == [i \in 1..Cardinality(SeenBelow(f, n)) |-> Seen(f)[Ordered(SeenBelow(f, n))[i]]]
Visits(S) == [i \in 1..Cardinality(S) |-> <<Ordered(S)[i], Get(els, Ordered(S)[i])>>]
FromSeq(s) == Arr(Len(s), [k \in Places(Len(s)) |-> s[k + 1]])

RECURSIVE Flat(_, _)
\* The values of a sequence, its arrays opened to a depth.
Flat(s, depth) ==
    IF s = <<>> THEN <<>>
    ELSE (IF depth > 0 /\ Head(s) \in DOMAIN Inner
          THEN LET a == Inner[Head(s)] IN Flat(Values(a.els, a.len), depth - 1)
          ELSE <<Head(s)>>) \o Flat(Tail(s), depth)

\* Arrays one after the other.
RECURSIVE Joined(_)
Joined(arrays) ==
    IF arrays = <<>> THEN NoArr
    ELSE LET a == Head(arrays)
             b == Joined(Tail(arrays))
         IN  Arr(a.len + b.len, [k \in SeenBelow(a.els, a.len) \cup {j + a.len : j \in DOMAIN b.els} |->
                                    IF k < a.len THEN Seen(a.els)[k] ELSE b.els[k - a.len]])

\* The first and the last place of a set, -1 if it is empty.
First(S) == IF S = {} THEN -1 ELSE CHOOSE k \in S : \A j \in S : k <= j
Greatest(S) == IF S = {} THEN -1 ELSE CHOOSE k \in S : \A j \in S : k >= j

\* Calls that change the array.
Changing(c) ==
    CASE c[1] = "pop" -> R(IF len = 0 THEN Same ELSE Moved(len - 1, [k \in Places(len - 1) |-> Keep]), NoArr,
                           <<IF len = 0 THEN Undef ELSE Get(els, len - 1)>>)
      [] c[1] = "shift" -> R(IF len = 0 THEN Same ELSE Moved(len - 1, [k \in Places(len - 1) |-> Old(k + 1)]), NoArr,
                             <<IF len = 0 THEN Undef ELSE Get(els, 0)>>)
      [] c[1] = "push" -> LET n == len + Len(c[2])
                          IN  R(Moved(n, [k \in Places(n) |-> IF k < len THEN Keep ELSE New(c[2][k - len + 1])]), NoArr, <<n>>)
      [] c[1] = "unshift" -> LET m == Len(c[2])
                             IN  R(Moved(len + m, [k \in Places(len + m) |->
                                       IF k < m THEN New(c[2][k + 1]) ELSE IF m = 0 THEN Keep ELSE Old(k - m)]),
                                   NoArr, <<len + m>>)
      [] c[1] = "reverse" -> R(Moved(len, [k \in Places(len) |-> IF 2 * k + 1 = len THEN Keep ELSE Old(len - 1 - k)]), NoArr, <<>>)
      [] c[1] = "splice" -> Splice(c[2], c[3], c[4])
      [] c[1] = "copyWithin" -> R(CopyWithin(c[2], c[3], c[4]), NoArr, <<>>)
      [] c[1] = "fill" -> R(Moved(len, [k \in Places(len) |-> IF k >= Pos(c[3]) /\ k < Pos(c[4]) THEN New(c[2]) ELSE Keep]), NoArr, <<>>)
      [] c[1] = "sort" -> R(Sorted, NoArr, <<>>)

\* Calls that read it; those that take a position may change it while they convert it.
Reading(c) ==
    CASE c[1] = "slice" -> LET s == Pos(c[2])
                               n == IF Pos(c[3]) > s THEN Pos(c[3]) - s ELSE 0
                               f == Now(c[4])
                           IN  R(NowArr(c[4]), Arr(n, [k \in {j \in Places(n) : s + j \in DOMAIN Seen(f)} |-> Seen(f)[s + k]]), <<>>)
      [] c[1] = "indexOf" -> LET f == Now(c[4])
                             IN  R(NowArr(c[4]), NoArr, <<First({k \in SeenBelow(f, len) : k >= Pos(c[3]) /\ Seen(f)[k] = c[2]})>>)
      [] c[1] = "includes" -> R(NowArr(c[4]), NoArr, <<\E k \in Pos(c[3])..len - 1 : Get(Now(c[4]), k) = c[2]>>)
      [] c[1] = "lastIndexOf" -> LET f == Now(c[4])
                                     last == IF c[3] < 0 THEN len + c[3] ELSE c[3]
                                 IN  R(NowArr(c[4]), NoArr, <<Greatest({k \in SeenBelow(f, len) : k <= last /\ Seen(f)[k] = c[2]})>>)
      [] c[1] = "join" -> R(Same, NoArr, [i \in 1..len |-> IF Get(els, i - 1) = Undef THEN "" ELSE Get(els, i - 1)])
      [] c[1] = "concat" -> R(Same, Joined(<<Same>> \o [i \in DOMAIN c[2] |->
                                      IF c[2][i] \in DOMAIN Inner THEN Inner[c[2][i]] ELSE Arr(1, 0 :> c[2][i])]),
                              <<Joined(<<Same>> \o [i \in DOMAIN c[2] |->
                                      IF c[2][i] \in DOMAIN Inner THEN Inner[c[2][i]] ELSE Arr(1, 0 :> c[2][i])]).len>>)
      [] c[1] = "of" -> R(Same, FromSeq(c[2]), <<>>)
      [] c[1] = "every" -> R(Same, NoArr, <<\A k \in SeenBelow(els, len) : Seen(els)[k] = c[2]>>)
      [] c[1] = "some" -> R(Same, NoArr, <<\E k \in SeenBelow(els, len) : Seen(els)[k] = c[2]>>)
      [] c[1] = "forEach" -> R(Same, NoArr, Visits(SeenBelow(els, len)))
      [] c[1] = "map" -> R(Same, Arr(len, [k \in SeenBelow(els, len) |-> Seen(els)[k]]), <<>>)
      [] c[1] = "filter" -> R(Same, FromSeq(SelectSeq(Values(els, len), LAMBDA v : v = c[2])), <<>>)
      [] c[1] = "find" -> LET k == First({j \in Places(len) : Get(els, j) = c[2]})
                          IN  R(Same, NoArr, <<k, IF k = -1 THEN Undef ELSE c[2]>>)
      [] c[1] = "reduce" -> R(Same, NoArr, Visits(SeenBelow(els, len)))
      [] c[1] = "reduceRight" -> R(Same, NoArr, Reverse(Visits(SeenBelow(els, len))))
      [] c[1] = "flat" -> LET s == Flat(Values(els, len), c[2]) IN R(Same, FromSeq(s), <<Len(s)>>)

Result(c) ==
    IF c[1] \in {"pop", "shift", "push", "unshift", "reverse", "splice", "copyWithin", "fill", "sort"}
    THEN Changing(c) ELSE Reading(c)
=============================================================================
