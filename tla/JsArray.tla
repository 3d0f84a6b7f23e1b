------------------------------- MODULE JsArray -------------------------------
(***************************************************************************)
(* The methods of arrays (quickjs.c, "Array"), on the arrays of JsProps: a *)
(* method works on the vector of a fast array where it can and through the *)
(* properties where it cannot (elements missing, inherited ones, a length  *)
(* that cannot be written). A method reads the length once; then it calls  *)
(* the program, to convert its arguments or as a callback, and the program *)
(* may change the array.                                                   *)
(*                                                                         *)
(* A method under way is [o, ok, arr, res]: the array, whether it has not  *)
(* thrown, the array it makes, and what else it found.                     *)
(***************************************************************************)
EXTENDS JsProps, TLC

CONSTANTS Positions,   \* numbers given for positions
          Items,       \* sequences of values given
          Nested,      \* the arrays among the values: value -> array
          Rank,        \* the order of sort: value -> number
          Wanted,      \* values looked for
          MaxLen       \* bound: the length of the array

Larger(a, b) == IF a > b THEN a ELSE b
Smaller(a, b) == IF a < b THEN a ELSE b
Upto(n) == [i \in 1..n |-> i - 1]
\* `js_array_constructor` with one number.
Fresh(n) == [cls |-> "array", fast |-> TRUE, vals |-> <<>>, slots |-> <<>>, len |-> n, lenW |-> TRUE, ext |-> TRUE]
Start(o) == [o |-> o, ok |-> TRUE, arr |-> Fresh(0), res |-> <<>>]

\* `JS_GetPropertyInt64`, `JS_SetPropertyInt64`, `JS_DeletePropertyInt64` and
\* the assignment of "length".
Value(o, k) == GetResult(o, k)[2]
After(s, r) == [s EXCEPT !.o = r.o, !.ok = r.ok]
AfterSet(s, r) == [s EXCEPT !.o = r.o, !.ok = r.res = <<"true">>]
Put(s, k, v) == IF s.ok THEN AfterSet(s, SetValue(s.o, k, v, cell)) ELSE s
Del(s, k) == IF s.ok THEN After(s, Delete(s.o, k)) ELSE s
PutLength(s, n) == IF s.ok THEN After(s, SetLength(s.o, n)) ELSE s
PutAll(s, from, items) == FoldLeft(LAMBDA t, i : Put(t, from + i, items[i + 1]), s, Upto(Len(items)))

\* `JS_CreateDataPropertyUint32` of the array a method makes.
Out(s, k, v) == [s EXCEPT !.arr = Create(@, k, AllHave(v)).o]
OutLength(s, n) == [s EXCEPT !.arr = SetLength(@, n).o]

\* `js_get_fast_array`: the number of elements in the vector.
Count(o) == IF o.fast THEN Len(o.vals) ELSE 0
Whole(o) == o.fast /\ Len(o.vals) = o.len

\* `JS_ToInt64Clamp`
Clamp(n, low, high, neg) ==
    LET p == IF n < 0 THEN n + neg ELSE n IN IF p < low THEN low ELSE IF p > high THEN high ELSE p

\* Mutation: upwards, whatever overlaps.
CopySubArrayUp(s, to, from, count, dir) ==
    FoldLeft(LAMBDA t, i : IF Has(t.o, from + i) THEN Put(t, to + i, Value(t.o, from + i)) ELSE Del(t, to + i),
             s, Upto(count))

\* `JS_CopySubArray`
CopySubArray(s, to, from, count, dir) ==
    FoldLeft(LAMBDA t, i : LET d == IF dir < 0 THEN count - i - 1 ELSE i
                           IN  IF Has(t.o, from + d) THEN Put(t, to + d, Value(t.o, from + d)) ELSE Del(t, to + d),
             s, Upto(count))

\* `js_array_of`
js_array_of(items) ==
    OutLength(FoldLeft(LAMBDA t, i : Out(t, i, items[i + 1]), [Start(obj) EXCEPT !.arr = Fresh(Len(items))], Upto(Len(items))),
              Len(items))

\* `js_array_pop`, of pop and shift.
js_array_pop(o, shift) ==
    LET n == o.len - 1
        s == [Start(o) EXCEPT !.res = <<Value(o, IF shift THEN 0 ELSE n)>>]
    IN  PutLength(IF o.len = 0 THEN [Start(o) EXCEPT !.res = <<Undef>>]
                  ELSE IF Whole(o) THEN [s EXCEPT !.o.vals = IF shift THEN Tail(@) ELSE Front(@)]
                  ELSE Del(IF shift THEN CopySubArray(s, 0, 1, n, 1) ELSE s, n),
                  Larger(n, 0))

\* `js_array_push`, of push and unshift.
js_array_push(o, items, unshift) ==
    LET n == o.len + Len(items)
        moved == unshift /\ items # <<>>
        s == [Start(o) EXCEPT !.res = <<n>>]
        g == IF moved THEN CopySubArray(s, Len(items), 0, o.len, -1) ELSE s
    IN  IF Whole(o) /\ o.ext /\ o.lenW /\ n <= TagMax
        THEN [s EXCEPT !.o.vals = IF unshift THEN items \o @ ELSE @ \o items, !.o.len = n]
        ELSE PutLength(PutAll(g, IF moved THEN 0 ELSE o.len, items), n)

\* The loop of `js_array_reverse` exchanges two elements.
Exchange(s, l, h) ==
    LET lv == Value(s.o, l)
        t == IF Has(s.o, h) THEN Put(s, l, Value(s.o, h)) ELSE IF Has(s.o, l) THEN Del(s, l) ELSE s
    IN  IF Has(s.o, l) THEN Put(t, h, lv) ELSE IF Has(s.o, h) THEN Del(t, h) ELSE t

\* `js_array_reverse`
js_array_reverse(o) ==
    IF Whole(o) THEN [Start(o) EXCEPT !.o.vals = Reverse(@)]
    ELSE FoldLeft(LAMBDA t, l : IF t.ok THEN Exchange(t, l, o.len - 1 - l) ELSE t, Start(o), Upto(o.len \div 2))

\* The elements slice and splice copy from the array q: those of the vector,
\* then what is present.
SliceOut(q, start, count) ==
    OutLength(FoldLeft(LAMBDA t, n : LET k == start + n
                                     IN  IF k < Count(q) THEN Out(t, n, q.vals[k + 1])
                                         ELSE IF Has(q, k) THEN Out(t, n, Value(q, k)) ELSE t,
                       [Start(q) EXCEPT !.arr = Fresh(count)], Upto(count)),
              count)

\* `js_array_slice` of slice: q is the array after its arguments were converted.
js_array_slice(o, q, from, to) ==
    LET start == Clamp(from, 0, o.len, o.len)
    IN  SliceOut(q, start, Larger(Clamp(to, 0, o.len, o.len) - start, 0))

\* `js_array_slice` of splice.
js_array_splice(o, from, dels, items) ==
    LET start == Clamp(from, 0, o.len, o.len)
        del == Clamp(dels, 0, o.len - start, 0)
        c == Len(items)
        n == o.len + c - del
        kept == IF c = del THEN 0 ELSE o.len - (start + del)
        copied == CopySubArray(SliceOut(o, start, del), start + c, start + del, kept, IF c <= del THEN 1 ELSE -1)
        moved == FoldLeft(LAMBDA t, i : Del(t, o.len - 1 - i), copied, Upto(Larger(o.len - n, 0)))
    IN  PutLength(PutAll(moved, start, items), n)

\* `js_array_copyWithin`
js_array_copyWithin(o, t, f, e) ==
    LET to == Clamp(t, 0, o.len, o.len)
        from == Clamp(f, 0, o.len, o.len)
        count == Smaller(Clamp(e, 0, o.len, o.len) - from, o.len - to)
    IN  CopySubArray(Start(o), to, from, Larger(count, 0), IF from < to /\ to < from + count THEN -1 ELSE 1)

\* `js_array_fill`
js_array_fill(o, v, from, to) ==
    LET start == Clamp(from, 0, o.len, o.len)
        end == Clamp(to, 0, o.len, o.len)
    IN  FoldLeft(LAMBDA t, i : Put(t, start + i, v), Start(o), Upto(Larger(end - start, 0)))

FirstOf(S) == IF S = {} THEN -1 ELSE CHOOSE k \in S : \A j \in S : k <= j
LastOf(S) == IF S = {} THEN -1 ELSE CHOOSE k \in S : \A j \in S : k >= j

\* `js_array_indexOf` and `js_array_includes`: the vector q has now, then the
\* properties up to the length the array had.
js_array_indexOf(o, q, v, from) ==
    LET n == Clamp(from, 0, o.len, o.len)
        found == FirstOf({k \in n..Count(q) - 1 : q.vals[k + 1] = v})
        rest == FirstOf({k \in Larger(n, Count(q))..o.len - 1 : Has(q, k) /\ Value(q, k) = v})
    IN  [Start(q) EXCEPT !.res = <<IF o.len = 0 THEN -1 ELSE IF found # -1 THEN found ELSE rest>>]
js_array_includes(o, q, v, from) ==
    LET n == Clamp(from, 0, o.len, o.len)
        found == \E k \in n..Count(q) - 1 : q.vals[k + 1] = v
        rest == \E k \in Larger(n, Count(q))..o.len - 1 : Value(q, k) = v
    IN  [Start(q) EXCEPT !.res = <<o.len > 0 /\ (found \/ rest)>>]

\* `js_array_lastIndexOf`
js_array_lastIndexOf(o, q, v, from) ==
    LET n == Clamp(from, -1, o.len - 1, o.len)
    IN  [Start(q) EXCEPT !.res = <<IF o.len = 0 THEN -1 ELSE LastOf({k \in 0..n : Has(q, k) /\ Value(q, k) = v})>>]

\* What the program does to the array while an argument is converted or the
\* first time a callback is called.
Hooks == {"none", "push", "pop", "delete", "cut"}
Hook(o, h) ==
    CASE h = "none" -> o
      [] h = "push" -> js_array_push(o, <<CHOOSE v \in Vals : TRUE>>, FALSE).o
      [] h = "pop" -> js_array_pop(o, FALSE).o
      [] h = "delete" -> Delete(o, 1).o
      [] h = "cut" -> SetLength(o, 0).o

\* Whether a loop ends at a value; the callback answers whether it is p.
Ends(special, p, v) == IF special = "every" THEN v # p ELSE special \in {"some", "find"} /\ v = p

\* One turn of a loop that calls back with element k: [o, visits, stop]; the
\* callback leaves q.  find visits the holes too.
Visit(s, q, k, special, p) ==
    IF s.stop \/ (special # "find" /\ ~Has(s.o, k)) THEN s
    ELSE [o |-> q, visits |-> Append(s.visits, <<k, Value(s.o, k)>>), stop |-> Ends(special, p, Value(s.o, k))]

\* The loop, over the places it has at the start.
VisitAll(o, q, order, special, p) ==
    FoldLeft(LAMBDA s, k : Visit(s, q, k, special, p), [o |-> o, visits |-> <<>>, stop |-> FALSE], order)

\* What `js_array_every` makes of its loop.
EveryResult(loop, n, special, p) ==
    LET kept == SelectSeq(loop.visits, LAMBDA x : x[2] = p)
        s == [Start(loop.o) EXCEPT !.arr = Fresh(IF special = "map" THEN n ELSE 0)]
    IN  CASE special = "every" -> [s EXCEPT !.res = <<~loop.stop>>]
          [] special = "some" -> [s EXCEPT !.res = <<loop.stop>>]
          [] special = "forEach" -> [s EXCEPT !.res = loop.visits]
          [] special = "map" -> FoldLeft(LAMBDA t, x : Out(t, x[1], x[2]), s, loop.visits)
          [] special = "filter" -> FoldLeft(LAMBDA t, i : Out(t, i, kept[i + 1][2]), s, Upto(Len(kept)))

\* `js_array_every` (every, some, forEach, map, filter)
js_array_every(o, q, special, p) == EveryResult(VisitAll(o, q, Upto(o.len), special, p), o.len, special, p)

\* `js_array_find`, of find and findIndex.
FindResult(loop) == [Start(loop.o) EXCEPT !.res = IF loop.stop THEN Last(loop.visits) ELSE <<-1, Undef>>]
js_array_find(o, q, p) == FindResult(VisitAll(o, q, Upto(o.len), "find", p))

\* `js_array_reduce`: without a first value the first element is one, for which
\* the callback is not called; res is what was combined.
Combined(k, v, loop) == [Start(loop.o) EXCEPT !.res = <<<<k, v>>>> \o loop.visits]
js_array_reduce(o, q, right) ==
    LET order == IF right THEN Reverse(Upto(o.len)) ELSE Upto(o.len)
        first == SelectInSeq(order, LAMBDA k : Has(o, k))
    IN  IF first = 0 THEN [Start(o) EXCEPT !.ok = FALSE]
        ELSE Combined(order[first], Value(o, order[first]),
                      VisitAll(o, q, SubSeq(order, first + 1, o.len), "reduce", Undef))

\* `js_array_join`: what comes between the separators; "" for undefined.
js_array_join(o) ==
    [Start(o) EXCEPT !.res = [i \in 1..o.len |-> IF Value(o, i - 1) = Undef THEN "" ELSE Value(o, i - 1)]]

IsArray(v) == v \in DOMAIN Nested

\* `js_array_concat`: s.res is <<n>>, the elements so far, holes included.
ConcatOne(s, e) ==
    LET n == s.res[1]
        t == FoldLeft(LAMBDA u, k : IF Has(e, k) THEN Out(u, n + k, Value(e, k)) ELSE u, s, Upto(e.len))
    IN  [t EXCEPT !.res = <<n + e.len>>]
js_array_concat(o, items) ==
    LET Ended(s) == OutLength(s, s.res[1])
    IN  Ended(FoldLeft(LAMBDA t, v : IF IsArray(v) THEN ConcatOne(t, Nested[v])
                                     ELSE [Out(t, t.res[1], v) EXCEPT !.res = <<t.res[1] + 1>>],
                       ConcatOne([Start(o) EXCEPT !.res = <<0>>], o), items))

RECURSIVE JS_FlattenIntoArray(_, _, _)
\* `JS_FlattenIntoArray`: s.res is <<targetIndex>>.
JS_FlattenIntoArray(s, source, depth) ==
    FoldLeft(LAMBDA t, k : IF ~Has(source, k) THEN t
                           ELSE LET v == Value(source, k)
                                IN  IF depth > 0 /\ IsArray(v) THEN JS_FlattenIntoArray(t, Nested[v], depth - 1)
                                    ELSE [Out(t, t.res[1], v) EXCEPT !.res = <<t.res[1] + 1>>],
             s, Upto(source.len))
js_array_flatten(o, depth) == JS_FlattenIntoArray([Start(o) EXCEPT !.res = <<0>>], o, depth)

\* `js_array_cmp_generic`, whose order `rqsort` sorts by: equal elements stay in order.
CmpGeneric(a, b) == Rank[a.v] < Rank[b.v] \/ (Rank[a.v] = Rank[b.v] /\ a.pos < b.pos)

\* `js_array_sort`: an element that is in its place is not written.
js_array_sort(o) ==
    LET present == SelectSeq(Upto(o.len), LAMBDA k : Has(o, k))
        slots == [i \in DOMAIN present |-> [v |-> Value(o, present[i]), pos |-> present[i]]]
        array == SortSeq(SelectSeq(slots, LAMBDA x : x.v # Undef), CmpGeneric)
        undefs == Len(slots) - Len(array)
        s == FoldLeft(LAMBDA t, n : IF array[n + 1].pos = n THEN t ELSE Put(t, n, array[n + 1].v), Start(o), Upto(Len(array)))
        u == FoldLeft(LAMBDA t, i : Put(t, Len(array) + i, Undef), s, Upto(undefs))
    IN  FoldLeft(LAMBDA t, i : Del(t, Len(slots) + i), u, Upto(o.len - Len(slots)))

\* The calls that convert a position, and those that call back.
Converts == {"slice", "indexOf", "includes", "lastIndexOf"}
CallsBack == {"every", "some", "forEach", "map", "filter", "find"}

\* The calls of a program.
ArrayCalls ==
         {<<m>> : m \in {"pop", "shift", "reverse", "sort", "join"}}
    \cup {<<m, is>> : m \in {"push", "unshift", "concat", "of"}, is \in Items}
    \cup {<<"slice", f, t, h>> : f, t \in Positions, h \in {"none", "push", "cut"}}
    \cup {<<"splice", f, d, is>> : f, d \in Positions, is \in Items}
    \cup {<<"copyWithin", t, f, e>> : t, f, e \in Positions}
    \cup {<<"fill", v, f, t>> : v \in Wanted, f, t \in Positions}
    \cup {<<m, v, f, h>> : m \in {"indexOf", "includes", "lastIndexOf"}, v \in Wanted \cup {Undef}, f \in Positions,
                           h \in {"none", "push", "cut"}}
    \cup {<<m, v, h>> : m \in CallsBack, v \in Wanted, h \in Hooks \ {"cut"}}
    \cup {<<m, h>> : m \in {"reduce", "reduceRight"}, h \in Hooks \ {"cut"}}
    \cup {<<"flat", d>> : d \in 0..2}
    \cup {<<"delete", k>> : k \in 0..MaxLen - 1} \cup {<<"set", k, v>> : k \in 0..MaxLen - 1, v \in Vals}
    \cup {<<"setLength", n>> : n \in 0..MaxLen}

HookOf(c) ==
    CASE c[1] \in Converts -> c[4]
      [] c[1] \in CallsBack -> c[3]
      [] c[1] \in {"reduce", "reduceRight"} -> c[2]
      [] OTHER -> "none"

\* What the code does for a call on the array o, which the program makes q
\* meanwhile.
MethodDuring(o, q, c) ==
    CASE c[1] \in {"pop", "shift"} -> js_array_pop(o, c[1] = "shift")
      [] c[1] \in {"push", "unshift"} -> js_array_push(o, c[2], c[1] = "unshift")
      [] c[1] = "reverse" -> js_array_reverse(o)
      [] c[1] = "sort" -> js_array_sort(o)
      [] c[1] = "join" -> js_array_join(o)
      [] c[1] = "concat" -> js_array_concat(o, c[2])
      [] c[1] = "of" -> [js_array_of(c[2]) EXCEPT !.o = o]
      [] c[1] = "slice" -> js_array_slice(o, q, c[2], c[3])
      [] c[1] = "splice" -> js_array_splice(o, c[2], c[3], c[4])
      [] c[1] = "copyWithin" -> js_array_copyWithin(o, c[2], c[3], c[4])
      [] c[1] = "fill" -> js_array_fill(o, c[2], c[3], c[4])
      [] c[1] = "indexOf" -> js_array_indexOf(o, q, c[2], c[3])
      [] c[1] = "includes" -> js_array_includes(o, q, c[2], c[3])
      [] c[1] = "lastIndexOf" -> js_array_lastIndexOf(o, q, c[2], c[3])
      [] c[1] \in {"every", "some", "forEach", "map", "filter"} -> js_array_every(o, q, c[1], c[2])
      [] c[1] = "find" -> js_array_find(o, q, c[2])
      [] c[1] \in {"reduce", "reduceRight"} -> js_array_reduce(o, q, c[1] = "reduceRight")
      [] c[1] = "flat" -> js_array_flatten(o, c[2])
      [] c[1] = "delete" -> Del(Start(o), c[2])
      [] c[1] = "set" -> Put(Start(o), c[2], c[3])
      [] c[1] = "setLength" -> PutLength(Start(o), c[2])
Method(o, c) == MethodDuring(o, Hook(o, HookOf(c)), c)

\* A call whose argument makes the array longer is searched for beyond the
\* length it had.
ArrayAllowed(c) == ~(c[1] \in {"indexOf", "includes"} /\ c[4] = "push")

\* Calls that only look at the array.
Reads(c) ==
    \/ c[1] \in {"join", "concat", "of", "flat"}
    \/ c[1] \in Converts \cup CallsBack \cup {"reduce", "reduceRight"} /\ HookOf(c) = "none"

ArrayCall(c) ==
    /\ ArrayAllowed(c) /\ ~Reads(c)
    /\ obj' = Method(obj, c).o
    /\ obj'.len <= MaxLen /\ Len(obj'.slots) <= MaxSlots
    /\ UNCHANGED <<cell, protos>>

ArrayNext == \E c \in ArrayCalls : ArrayCall(c)

ArrayInit == Init

ArrayModelSpec == ArrayInit /\ [][ArrayNext]_propVars

\* What an array is to a program: a length and elements.
ViewOf(o) == [len |-> o.len, els |-> [k \in {j \in 0..o.len + MaxLen : Own(o, j)} |-> GetOwn(o, k, Undef).v]]

Methods ==
    INSTANCE ArraySpec WITH len <- obj.len, els <- ViewOf(obj).els,
        inherited <- [k \in {j \in 0..MaxLen - 1 : \E i \in DOMAIN protos : Own(protos[i], j)} |->
                         LET i == SelectInSeq(protos, LAMBDA q : Own(q, k)) IN GetOwn(protos[i], k, cell).v],
        Pushed <- CHOOSE v \in Vals : TRUE,
        Inner <- [v \in DOMAIN Nested |-> ViewOf(Nested[v])]

\* The calls whose result is stated: their callbacks leave the array alone. What
\* sort does with inherited elements is left to the engine.
Stated(c) ==
    /\ ArrayAllowed(c)
    /\ c[1] \notin {"delete", "set", "setLength"}
    /\ c[1] \in CallsBack \cup {"reduce", "reduceRight"} => HookOf(c) = "none"
    /\ c[1] = "sort" => \A k \in 0..obj.len - 1, i \in DOMAIN protos : ~Own(protos[i], k)

\* What the code did for a call, r, is what the definition says, s.
AsDefined(c, r, s) ==
    IF c[1] \in {"reduce", "reduceRight"} /\ s.res = <<>> THEN ~r.ok
    ELSE r.ok /\ ViewOf(r.o) = s.a /\ ViewOf(r.arr) = s.arr /\ r.res = s.res

\* A method does to an array, which can be extended and shortened, and returns
\* what its definition on lengths and elements says (ArraySpec), whichever path
\* it takes and whatever its arguments do while they are converted; reduce of
\* nothing throws.
MethodsAsDefined ==
    \A c \in ArrayCalls : Stated(c) => AsDefined(c, Method(obj, c), Methods!Result(c))

=============================================================================
