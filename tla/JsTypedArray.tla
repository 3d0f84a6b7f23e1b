----------------------------- MODULE JsTypedArray -----------------------------
(***************************************************************************)
(* ArrayBuffer, the typed arrays, DataView and the operations of Atomics   *)
(* on one buffer (quickjs.c, "Typed Arrays"). A view keeps a pointer into  *)
(* the bytes of its buffer and a count of elements; when the buffer is     *)
(* detached the bytes are freed and the counts of its views become 0. Any  *)
(* conversion of an argument and any callback can detach the buffer.       *)
(*                                                                         *)
(* A byte has Byte values. A call is computed on [data, det, views, bad,   *)
(* ok, res]: bad is set when bytes of a detached buffer, or outside the    *)
(* buffer, are read or written through a pointer.                          *)
(***************************************************************************)
EXTENDS Integers, Sequences, SequencesExt, FiniteSets, TLC

CONSTANTS Byte, Size,      \* values of a byte; bytes of the buffer
          Menu,            \* views a program makes: [cls, off, len]
          MaxViews,
          Nums,            \* numbers given as values
          Positions        \* numbers given as positions

VARIABLES data, det, views

taVars == <<data, det, views>>

Undef == -100
Auto == 99         \* a length that is not given
Classes == {"u8c", "i8", "u8", "i16", "u16"}
Width(cls) == IF cls \in {"i16", "u16"} THEN 2 ELSE 1
Mod(cls) == IF Width(cls) = 2 THEN Byte * Byte ELSE Byte
Signed(cls, n) == IF cls \in {"i8", "i16"} /\ n >= Mod(cls) \div 2 THEN n - Mod(cls) ELSE n

\* The number in bytes, low byte first, and the conversion of a number to them:
\* `JS_ToUint8ClampFree` clamps, `JS_ToUint32` keeps the low bits.
Decode(cls, b) == Signed(cls, IF Width(cls) = 2 THEN b[1] + Byte * b[2] ELSE b[1])
Low(cls, n) ==
    IF cls = "u8c" THEN IF n < 0 THEN 0 ELSE IF n >= Byte THEN Byte - 1 ELSE n ELSE n % Mod(cls)
Encode(cls, n) ==
    LET m == Low(cls, n) IN IF Width(cls) = 2 THEN <<m % Byte, m \div Byte>> ELSE <<m>>

Init ==
    /\ data = [i \in 1..Size |-> i % Byte]
    /\ det = FALSE
    /\ views = <<>>

State == [data |-> data, det |-> det, views |-> views, bad |-> FALSE, ok |-> TRUE, res |-> <<>>]
Throw(s) == [s EXCEPT !.ok = FALSE]
Return(s, r) == [s EXCEPT !.res = r]

\* `JS_DetachArrayBuffer`
JS_DetachArrayBuffer(s) ==
    [s EXCEPT !.data = <<>>, !.det = TRUE, !.views = [i \in DOMAIN @ |-> [@[i] EXCEPT !.count = 0]]]
Hook(s, h) == IF h = "detach" THEN JS_DetachArrayBuffer(s) ELSE s

\* Access through a pointer: n bytes at position p.
Inside(s, p, n) == ~s.det /\ p + n <= Len(s.data)
Peek(s, p, n) == IF Inside(s, p, n) THEN SubSeq(s.data, p + 1, p + n) ELSE [i \in 1..n |-> 0]
Poke(s, p, b) ==
    IF Inside(s, p, Len(b))
    THEN [s EXCEPT !.data = SubSeq(@, 1, p) \o b \o SubSeq(@, p + Len(b) + 1, Len(@))]
    ELSE [s EXCEPT !.bad = TRUE]
Touch(s, p, n) == IF n = 0 \/ Inside(s, p, n) THEN s ELSE [s EXCEPT !.bad = TRUE]

Upto(n) == [i \in 1..n |-> i - 1]
Larger(a, b) == IF a > b THEN a ELSE b
Smaller(a, b) == IF a < b THEN a ELSE b
Clamp(n, low, high, neg) ==
    LET p == IF n < 0 THEN n + neg ELSE n IN IF p < low THEN low ELSE IF p > high THEN high ELSE p

\* An element through `JS_GetPropertyValue` and `JS_SetPropertyValue`, which
\* look at the count.
Get(s, v, k) ==
    IF k < s.views[v].count
    THEN Decode(s.views[v].cls, Peek(s, s.views[v].off + k * Width(s.views[v].cls), Width(s.views[v].cls)))
    ELSE Undef
Put(s, v, k, n) ==
    IF k < s.views[v].count
    THEN Poke(s, s.views[v].off + k * Width(s.views[v].cls), Encode(s.views[v].cls, n)) ELSE s

\* `js_array_buffer_slice`: detached is asked again after the conversions.
js_array_buffer_slice(s, from, to, h) ==
    LET len == Len(s.data)
        start == Clamp(from, 0, len, len)
        n == Larger(Clamp(to, 0, len, len) - start, 0)
        t == Hook(s, h)
    IN  IF s.det THEN Throw(s)
        ELSE IF t.det THEN Throw(t)
        ELSE Return(Touch(t, start, n), Peek(t, start, n))

\* `typed_array_init`
typed_array_init(s, cls, off, len) ==
    [s EXCEPT !.views = Append(@, [cls |-> cls, off |-> off, len |-> len * Width(cls), count |-> len])]

\* `js_typed_array_constructor` on a buffer. The hook runs while an argument is
\* converted, or ("create") in `js_create_from_ctor`, which gets the prototype.
js_typed_array_constructor(s, cls, off, len, h) ==
    LET t == IF h = "detach" THEN JS_DetachArrayBuffer(s) ELSE s
        n == IF len = Auto THEN (Len(t.data) - off) \div Width(cls) ELSE len
        u == IF h = "create" THEN JS_DetachArrayBuffer(t) ELSE t
    IN  IF t.det THEN Throw(t)
        ELSE IF off % Width(cls) # 0 \/ off > Len(t.data) THEN Throw(t)
        ELSE IF len = Auto /\ Len(t.data) % Width(cls) # 0 THEN Throw(t)
        ELSE IF len # Auto /\ off + len * Width(cls) > Len(t.data) THEN Throw(t)
        ELSE typed_array_init(u, cls, off, n)

\* `js_typed_array_constructor_ta`: the elements of the new array, which has
\* a buffer of its own.
js_typed_array_constructor_ta(s, v, cls) ==
    LET w == s.views[v]
        copy == Touch(s, w.off, w.count * Width(cls))
    IN  IF s.det THEN Throw(s)
        ELSE IF w.cls = cls
        THEN Return(copy, [i \in 1..w.count |-> Decode(cls, Peek(s, w.off + (i - 1) * Width(cls), Width(cls)))])
        ELSE Return(s, [i \in 1..w.count |-> Decode(cls, Encode(cls, Get(s, v, i - 1)))])

\* `js_typed_array_set_internal` of the view w into the view v.
js_typed_array_set_internal(s, v, w, offset, h) ==
    LET t == Hook(s, h)
        d == t.views[v]
        e == t.views[w]
        width == Width(d.cls)
    IN  IF offset < 0 \/ t.det THEN Throw(t)
        ELSE IF offset > d.count - e.count THEN Throw(t)
        ELSE IF d.cls = e.cls
        THEN IF e.count = 0 THEN t
             ELSE Poke(Touch(t, e.off, e.count * width), d.off + offset * width, Peek(t, e.off, e.count * width))
        ELSE FoldLeft(LAMBDA u, i : Put(u, v, offset + i, Get(u, w, i)), t, Upto(e.count))


\* `js_typed_array_copyWithin`
js_typed_array_copyWithin(s, v, a, b, e, h) ==
    LET len == s.views[v].count
        to == Clamp(a, 0, len, len)
        from == Clamp(b, 0, len, len)
        n == Smaller(Clamp(e, 0, len, len) - from, len - to)
        t == Hook(s, h)
        d == t.views[v]
        width == Width(d.cls)
    IN  IF s.det THEN Throw(s)
        ELSE IF n <= 0 THEN t
        ELSE IF t.det THEN Throw(t)
        ELSE Poke(Touch(t, d.off + from * width, n * width), d.off + to * width, Peek(t, d.off + from * width, n * width))

\* `js_typed_array_fill`: the bytes of the value are stored from k on.
js_typed_array_fill(s, v, n, from, to, h) ==
    LET d == s.views[v]
        k == Clamp(from, 0, d.count, d.count)
        final == Clamp(to, 0, d.count, d.count)
        t == Hook(s, h)
    IN  IF s.det THEN Throw(s)
        ELSE IF t.det THEN Throw(t)
        ELSE FoldLeft(LAMBDA u, i : Poke(u, d.off + (k + i) * Width(d.cls), Encode(d.cls, n)), t, Upto(Larger(final - k, 0)))

\* `js_typed_array_reverse`
js_typed_array_reverse(s, v) ==
    LET d == s.views[v]
        width == Width(d.cls)
        el(i) == Peek(s, d.off + i * width, width)
    IN  IF s.det THEN Throw(s)
        ELSE FoldLeft(LAMBDA u, i : Poke(u, d.off + i * width, el(d.count - 1 - i)), s, Upto(d.count))

\* The comparison of the scans of `js_typed_array_indexOf`: the elements are
\* read unsigned; in the loop that scans single bytes downwards the value looked for has
\* two bytes.
Scans(cls, raw, n, special) ==
    IF Width(cls) = 1 /\ special = "lastIndexOf" THEN raw = n % (Byte * Byte) ELSE raw = n % Mod(cls)

\* `js_typed_array_indexOf`
js_typed_array_indexOf(s, v, special, n, from, h) ==
    LET d == s.views[v]
        len == d.count
        k == IF special = "lastIndexOf" THEN IF from < 0 THEN from + len ELSE Smaller(from, len - 1)
             ELSE Clamp(from, 0, len, len)
        t == Hook(s, h)
        width == Width(d.cls)
        at(i) == Peek(t, d.off + i * width, width)
        raw(i) == IF width = 2 THEN at(i)[1] + Byte * at(i)[2] ELSE at(i)[1]
        range == IF special = "lastIndexOf" THEN 0..k ELSE k..len - 1
        found == {i \in range : Scans(d.cls, raw(i), n, special)}
        fits == Signed(d.cls, n % Mod(d.cls)) = n
    IN  IF s.det THEN Throw(s)
        ELSE IF len = 0 THEN Return(s, <<-1>>)
        ELSE IF t.det THEN Return(t, <<IF special = "includes" /\ n = Undef THEN 0 ELSE -1>>)
        ELSE IF n = Undef \/ ~fits \/ found = {} THEN Return(t, <<-1>>)
        ELSE Return(Touch(t, d.off, len * width),
                    <<IF special = "lastIndexOf" THEN CHOOSE i \in found : \A j \in found : j <= i
                      ELSE CHOOSE i \in found : \A j \in found : i <= j>>)

\* `js_typed_array_slice`: the new array has the type of this one.
js_typed_array_slice(s, v, from, to, h) ==
    LET d == s.views[v]
        start == Clamp(from, 0, d.count, d.count)
        n == Larger(Clamp(to, 0, d.count, d.count) - start, 0)
        t == Hook(s, h)
        width == Width(d.cls)
    IN  IF s.det THEN Throw(s)
        ELSE IF n = 0 THEN Return(t, <<>>)
        ELSE IF t.det THEN Throw(t)
        ELSE Return(Touch(t, d.off + start * width, n * width),
                    [i \in 1..n |-> Decode(d.cls, Peek(t, d.off + (start + i - 1) * width, width))])

\* `js_typed_array_subarray`: another view of the buffer.
js_typed_array_subarray(s, v, from, to, h) ==
    LET d == s.views[v]
        start == Clamp(from, 0, d.count, d.count)
        n == Larger(Clamp(to, 0, d.count, d.count) - start, 0)
        t == Hook(s, h)
        byteOffset == IF t.det THEN 0 ELSE d.off
    IN  js_typed_array_constructor(t, d.cls, byteOffset + start * Width(d.cls), n, "none")

\* `js_TA_cmp_generic` of a comparator that looks at half of the number, and
\* `js_typed_array_sort`; a comparator may detach the buffer when it is called.
Before(cmp, a, b) ==
    IF cmp = "none" THEN a[1] < b[1] ELSE a[1] \div 2 < b[1] \div 2 \/ (a[1] \div 2 = b[1] \div 2 /\ a[2] < b[2])
js_typed_array_sort(s, v, cmp, h) ==
    LET d == s.views[v]
        width == Width(d.cls)
        els == [i \in 1..d.count |-> <<Get(s, v, i - 1), i>>]
        sorted == SortSeq(els, LAMBDA a, b : Before(cmp, a, b))
        t == IF cmp # "none" /\ d.count > 1 THEN Hook(s, h) ELSE s
    IN  IF s.det THEN Throw(s)
        ELSE IF d.count <= 1 THEN s
        ELSE IF t.det THEN Throw(t)
        ELSE FoldLeft(LAMBDA u, i : Poke(u, d.off + i * width, Encode(IF d.cls = "u8c" THEN "u8" ELSE d.cls, sorted[i + 1][1])),
                      t, Upto(d.count))

\* `js_dataview_constructor`, which asks for a third time whether the buffer is
\* detached; a DataView has no count.
js_dataview_constructor(s, off, len, h) ==
    LET t == IF h = "detach" THEN JS_DetachArrayBuffer(s) ELSE s
        rest == Len(t.data) - off
        u == IF h = "create" THEN JS_DetachArrayBuffer(t) ELSE t
    IN  IF t.det \/ off > Len(t.data) THEN Throw(t)
        ELSE IF len # Auto /\ len > rest THEN Throw(t)
        ELSE IF u.det THEN Throw(u)
        ELSE [u EXCEPT !.views = Append(@, [cls |-> "dv", off |-> off, len |-> IF len = Auto THEN rest ELSE len, count |-> 0])]

\* `js_dataview_getValue` and `js_dataview_setValue`: bytes are swapped unless
\* little endian is asked for.
Swapped(b, little) == IF little THEN b ELSE Reverse(b)
js_dataview_getValue(s, v, cls, pos, little, h) ==
    LET d == s.views[v]
        t == Hook(s, h)
        n == Width(cls)
    IN  IF t.det \/ pos + n > d.len THEN Throw(t)
        ELSE Return(Touch(t, d.off + pos, n), <<Decode(cls, Swapped(Peek(t, d.off + pos, n), little))>>)
js_dataview_setValue(s, v, cls, pos, n, little, h) ==
    LET d == s.views[v]
        t == Hook(s, h)
    IN  IF t.det \/ pos + Width(cls) > d.len THEN Throw(t)
        ELSE Poke(t, d.off + pos, Swapped(Encode(cls, n), little))

\* `js_atomics_get_ptr` finds an element; `js_atomics_op` asks again whether the
\* buffer is detached after it converted the value.
js_atomics_get_ptr(s, v, k) == s.views[v].cls # "u8c" /\ ~s.det /\ k < s.views[v].count
Atomic(op, old, n, expected) ==
    CASE op = "add" -> old + n
      [] op = "sub" -> old - n
      [] op = "exchange" -> n
      [] op = "compareExchange" -> IF old = expected THEN n ELSE old
js_atomics_op(s, v, k, op, n, expected, h) ==
    LET d == s.views[v]
        p == d.off + k * Width(d.cls)
        t == Hook(s, h)
        old == Decode(d.cls, Peek(t, p, Width(d.cls)))
        unsigned(x) == x % Mod(d.cls)
    IN  IF ~js_atomics_get_ptr(s, v, k) THEN Throw(s)
        ELSE IF t.det THEN Throw(t)
        ELSE Return(Poke(t, p, Encode(d.cls, Atomic(op, unsigned(old), unsigned(n), unsigned(expected)))), <<old>>)

\* The calls of a program: on the buffer, to make views, on a typed array, on a
\* DataView. A hook detaches the buffer while an argument is converted.
Hooks == {"none", "detach"}
BufferCalls ==
         {<<"detach">>} \cup {<<"bufferSlice", f, t, h>> : f, t \in Positions, h \in Hooks}
    \cup {<<"new", m, h>> : m \in Menu, h \in Hooks}
    \cup {<<"newDataView", 1, l, h>> : l \in {2, Auto}, h \in Hooks \cup {"create"}}
Arrays == {v \in DOMAIN views : views[v].cls # "dv"}
ArrayCalls ==
         {<<"from", v, c>> : v \in Arrays, c \in Classes}
    \cup {<<"set", v, w, o, h>> : v, w \in Arrays, o \in {-1, 0, 1}, h \in Hooks}
    \cup {<<"copyWithin", v, a, b, e, h>> : v \in Arrays, a, b, e \in Positions, h \in Hooks}
    \cup {<<"fill", v, n, a, e, h>> : v \in Arrays, n \in Nums, a, e \in Positions, h \in Hooks}
    \cup {<<"reverse", v>> : v \in Arrays}
    \cup {<<"search", v, m, n, a, h>> : v \in Arrays, m \in {"indexOf", "lastIndexOf", "includes"},
                                        n \in Nums \cup {Undef}, a \in Positions, h \in Hooks}
    \cup {<<"slice", v, a, e, h>> : v \in Arrays, a, e \in Positions, h \in Hooks}
    \cup {<<"subarray", v, a, e, h>> : v \in Arrays, a, e \in Positions, h \in Hooks}
    \cup {<<"sort", v, c, h>> : v \in Arrays, c \in {"none", "half"}, h \in Hooks}
    \cup {<<"atomic", v, k, o, n, x, h>> : v \in Arrays, k \in {p \in Positions : p >= 0},
              o \in {"add", "sub", "exchange", "compareExchange"}, n, x \in Nums, h \in Hooks}
DataViewCalls ==
         {<<"getValue", v, c, p, l, h>> : v \in DOMAIN views \ Arrays, c \in Classes \ {"u8c"}, p \in 0..2, l \in BOOLEAN, h \in Hooks}
    \cup {<<"setValue", v, c, p, n, l, h>> : v \in DOMAIN views \ Arrays, c \in {"i8", "u16"}, p \in 0..2,
                                             n \in Nums, l \in BOOLEAN, h \in Hooks}
Calls == BufferCalls \cup ArrayCalls \cup DataViewCalls

Do(c) ==
    CASE c[1] = "detach" -> JS_DetachArrayBuffer(State)
      [] c[1] = "bufferSlice" -> js_array_buffer_slice(State, c[2], c[3], c[4])
      [] c[1] = "new" -> js_typed_array_constructor(State, c[2].cls, c[2].off, c[2].len, c[3])
      [] c[1] = "newDataView" -> js_dataview_constructor(State, c[2], c[3], c[4])
      [] c[1] = "from" -> js_typed_array_constructor_ta(State, c[2], c[3])
      [] c[1] = "set" -> js_typed_array_set_internal(State, c[2], c[3], c[4], c[5])
      [] c[1] = "copyWithin" -> js_typed_array_copyWithin(State, c[2], c[3], c[4], c[5], c[6])
      [] c[1] = "fill" -> js_typed_array_fill(State, c[2], c[3], c[4], c[5], c[6])
      [] c[1] = "reverse" -> js_typed_array_reverse(State, c[2])
      [] c[1] = "search" -> js_typed_array_indexOf(State, c[2], c[3], c[4], c[5], c[6])
      [] c[1] = "slice" -> js_typed_array_slice(State, c[2], c[3], c[4], c[5])
      [] c[1] = "subarray" -> js_typed_array_subarray(State, c[2], c[3], c[4], c[5])
      [] c[1] = "sort" -> js_typed_array_sort(State, c[2], c[3], c[4])
      [] c[1] = "atomic" -> js_atomics_op(State, c[2], c[3], c[4], c[5], c[6], c[7])
      [] c[1] = "getValue" -> js_dataview_getValue(State, c[2], c[3], c[4], c[5], c[6])
      [] c[1] = "setValue" -> js_dataview_setValue(State, c[2], c[3], c[4], c[5], c[6], c[7])

\* Two views of different types overlap in the bytes set copies, or a byte
\* is looked for that is negative, from the end: the
\* engine and the language differ on these calls.
Overlap(v, w, o) ==
    LET d == views[v]
        e == views[w]
        at == d.off + o * Width(d.cls)
    IN  d.cls # e.cls /\ at < e.off + e.len /\ e.off < at + e.count * Width(d.cls)
Special(c) ==
    \/ c[1] = "set" /\ Overlap(c[2], c[3], c[4])
    \/ c[1] = "search" /\ c[3] = "lastIndexOf" /\ c[4] < 0
Allowed(c) == ~Special(c)

\* Calls that only look at the buffer.
Reads(c) ==
    \/ c[1] \in {"search", "getValue"} /\ c[6] = "none"
    \/ c[1] = "bufferSlice" /\ c[4] = "none"
    \/ c[1] = "from"

Call(c) ==
    /\ Allowed(c) /\ ~Reads(c)
    /\ LET r == Do(c) IN data' = r.data /\ det' = r.det /\ views' = r.views
    /\ Len(views') <= MaxViews

Next == \E c \in Calls : Call(c)

Spec == Init /\ [][Next]_taVars

\* The numbers in a view, and the bytes of the buffer with other numbers there.
Vals(v) == [i \in 1..views[v].count |-> Decode(views[v].cls, SubSeq(data, views[v].off + (i - 1) * Width(views[v].cls) + 1,
                                                                          views[v].off + i * Width(views[v].cls)))]
With(v, nums) ==
    LET d == views[v]
    IN  [p \in 1..Len(data) |->
            IF p > d.off /\ p <= d.off + d.len
            THEN LET k == (p - d.off - 1) \div Width(d.cls)
                 IN  Encode(d.cls, nums[k + 1])[((p - d.off - 1) % Width(d.cls)) + 1]
            ELSE data[p]]
Pos(n, len) == LET p == IF n < 0 THEN n + len ELSE n IN Larger(0, Smaller(p, len))

\* The numbers a call leaves in its view.
NewVals(c) ==
    LET old == Vals(c[2])
        len == Len(old)
    IN  CASE c[1] = "set" -> [i \in 1..len |-> IF i > c[4] /\ i <= c[4] + Len(Vals(c[3])) THEN Vals(c[3])[i - c[4]] ELSE old[i]]
          [] c[1] = "copyWithin" ->
                 LET to == Pos(c[3], len)
                     from == Pos(c[4], len)
                     n == Smaller(Pos(c[5], len) - from, len - to)
                 IN  [i \in 1..len |-> IF i > to /\ i <= to + n THEN old[i - to + from] ELSE old[i]]
          [] c[1] = "fill" -> [i \in 1..len |-> IF i > Pos(c[4], len) /\ i <= Pos(c[5], len) THEN c[3] ELSE old[i]]
          [] c[1] = "reverse" -> Reverse(old)
          [] c[1] = "sort" ->
                 LET key(i) == IF c[3] = "none" THEN old[i] ELSE old[i] \div 2
                     place(i) == Cardinality({j \in 1..len : key(j) < key(i) \/ (key(j) = key(i) /\ j < i)})
                 IN  [n \in 1..len |-> old[CHOOSE i \in 1..len : place(i) = n - 1]]

\* The answer of a search: a number is there, or is first or last there.
Found(c) ==
    LET old == Vals(c[2])
        len == Len(old)
        up == {i \in 0..len - 1 : i >= Pos(c[5], len) /\ old[i + 1] = c[4]}
        down == {i \in 0..len - 1 : i <= (IF c[5] < 0 THEN c[5] + len ELSE c[5]) /\ old[i + 1] = c[4]}
        S == IF c[3] = "lastIndexOf" THEN down ELSE up
    IN  IF S = {} THEN -1
        ELSE IF c[3] = "lastIndexOf" THEN CHOOSE i \in S : \A j \in S : j <= i ELSE CHOOSE i \in S : \A j \in S : i <= j


\* Every view lies in its buffer, at a multiple of its element's size, and the
\* views of a detached buffer have no elements (`JS_DetachArrayBuffer`).
ViewsInBuffer ==
    \A v \in DOMAIN views :
        LET w == views[v]
        IN  IF det THEN w.count = 0
            ELSE /\ w.off + w.len <= Len(data)
                 /\ w.cls # "dv" => w.count * Width(w.cls) = w.len /\ w.off % Width(w.cls) = 0

=============================================================================
