------------------------------- MODULE JsProps -------------------------------
(***************************************************************************)
(* Own properties of objects and arrays (quickjs.c). An object keeps its   *)
(* properties in slots; an array keeps its elements in a vector (it is     *)
(* "fast") until a program does something to them that a vector cannot     *)
(* hold, and then moves them to slots. A property is a value, a pair of    *)
(* accessors, a reference to a variable (the elements of `arguments`), or  *)
(* a value that is made when it is first needed.                           *)
(*                                                                         *)
(* An object is [cls, fast, vals, slots, len, lenW, ext]: of an array the  *)
(* slot of "length" is kept as len and lenW. The object the calls are made *)
(* on has prototypes that stay as they are.                                *)
(***************************************************************************)
EXTENDS Integers, Sequences, SequencesExt, FiniteSets

CONSTANTS Keys,        \* array indices
          TagMax,      \* the largest index that is its own atom (2^31 - 1)
          Vals, Fns,   \* values; functions for accessors
          Lengths,     \* lengths a program sets
          Descs,       \* descriptors a program defines properties with
          Objects,     \* objects to start from, [obj, cell]
          Chains,      \* prototypes, nearest first
          CompactMin,  \* deleted slots before the slots are compacted (8)
          MaxSlots     \* bound: slots of the object

VARIABLES obj,     \* the object
          cell,    \* the variable that a reference is to
          protos   \* its prototypes

propVars == <<obj, cell, protos>>

Undef == "undefined"
NoFn == "none"
NoKey == -1

Data(v, w, e, c) == [t |-> "data", v |-> v, g |-> NoFn, s |-> NoFn, w |-> w, e |-> e, c |-> c]
Accessor(g, s, e, c) == [t |-> "accessor", v |-> Undef, g |-> g, s |-> s, w |-> FALSE, e |-> e, c |-> c]
Gone == [k |-> NoKey, p |-> Data(Undef, FALSE, FALSE, FALSE)]
Plain(v) == Data(v, TRUE, TRUE, TRUE)

Init ==
    /\ \E o \in Objects : obj = o.obj /\ cell = o.cell
    /\ protos \in Chains

\* `find_own_property`: the number of the slot, or 0.
Slot(o, k) == SelectInSeq(o.slots, LAMBDA s : s.k = k)
InVals(o, k) == o.fast /\ k <= TagMax /\ k < Len(o.vals)

\* `add_property`
Add(o, k, p) == [o EXCEPT !.slots = Append(@, [k |-> k, p |-> p])]
PutSlot(o, k, p) == [o EXCEPT !.slots[Slot(o, k)].p = p]

\* `JS_AutoInitProperty`: the value is made; the reference stays one.
Made(p) == IF p.t = "auto" THEN [p EXCEPT !.t = "data"] ELSE p

\* `JS_GetOwnPropertyInternal`: the property, or none.
NoProp == Accessor(NoFn, NoFn, FALSE, FALSE)
Own(o, k) == InVals(o, k) \/ Slot(o, k) # 0
GetOwn(o, k, cl) ==
    IF Slot(o, k) # 0
    THEN LET p == Made(o.slots[Slot(o, k)].p) IN IF p.t = "ref" THEN [p EXCEPT !.t = "data", !.v = cl] ELSE p
    ELSE IF InVals(o, k) THEN Plain(o.vals[k + 1]) ELSE NoProp

Chain(o) == <<o>> \o protos

\* `JS_HasProperty`
Has(o, k) == \E i \in DOMAIN Chain(o) : Own(Chain(o)[i], k)

\* `JS_GetPropertyInternal`: a value, or the getter that is called.
GetResult(o, k) ==
    LET i == SelectInSeq(Chain(o), LAMBDA q : Own(q, k))
        p == GetOwn(Chain(o)[i], k, cell)
    IN  IF i = 0 THEN <<"value", Undef>>
        ELSE IF p.t = "data" THEN <<"value", p.v>>
        ELSE IF p.g = NoFn THEN <<"value", Undef>> ELSE <<"calls", p.g>>

\* `convert_fast_array_to_array`
ToSlow(o) ==
    [o EXCEPT !.fast = FALSE, !.vals = <<>>,
              !.slots = @ \o [i \in DOMAIN o.vals |-> [k |-> i - 1, p |-> Plain(o.vals[i])]]]

Deleted(o) == Len(SelectSeq(o.slots, LAMBDA s : s.k = NoKey))
PropCount(o) == Len(o.slots) + (IF o.cls = "array" THEN 1 ELSE 0)

\* `compact_properties`
Compacted(o) ==
    IF Deleted(o) >= CompactMin /\ Deleted(o) >= PropCount(o) \div 2
    THEN [o EXCEPT !.slots = SelectSeq(@, LAMBDA s : s.k # NoKey)] ELSE o

\* The slot i of q is deleted, if it can be.
DeleteSlot(q, i) ==
    IF q.slots[i].p.c THEN [o |-> Compacted([q EXCEPT !.slots[i] = Gone]), ok |-> TRUE]
    ELSE [o |-> q, ok |-> FALSE]

\* `delete_property`: the last element of a vector goes, another one makes
\* the array slow.
Delete(o, k) ==
    IF Slot(o, k) # 0 THEN DeleteSlot(o, Slot(o, k))
    ELSE IF ~InVals(o, k) THEN [o |-> o, ok |-> TRUE]
    ELSE IF k = Len(o.vals) - 1 THEN [o |-> [o EXCEPT !.vals = Front(@)], ok |-> TRUE]
    ELSE DeleteSlot(ToSlow(o), Len(o.slots) + k + 1)

RECURSIVE DeleteDown(_, _, _)
\* The loop of `set_array_length` over the indices, from the last one down: d
\* is what the deletion of index `cur` did.
DeleteDown(d, cur, n) ==
    IF ~d.ok THEN [o |-> d.o, len |-> cur + 1]
    ELSE IF cur <= n THEN [o |-> d.o, len |-> n]
    ELSE DeleteDown(Delete(d.o, cur - 1), cur - 1, n)

RECURSIVE DeleteSlots(_, _, _)
\* Its loop over the slots, which a deletion may compact.
DeleteSlots(o, i, n) ==
    IF i > Len(o.slots) THEN o
    ELSE IF o.slots[i].k >= n THEN DeleteSlots(Delete(o, o.slots[i].k).o, i + 1, n)
    ELSE DeleteSlots(o, i + 1, n)

\* The new length, above every element that cannot be deleted.
LengthKept(o, n) ==
    LET fixed == {s.k + 1 : s \in {t \in Range(o.slots) : t.k >= n /\ ~t.p.c}}
    IN  IF fixed = {} THEN n ELSE CHOOSE m \in fixed : \A x \in fixed : x <= m

\* The end of `set_array_length`: r is what is left and the length it allows.
WithLength(r, n) == [o |-> [r.o EXCEPT !.len = r.len], ok |-> r.len = n]

\* `set_array_length`
SetLength(o, n) ==
    IF ~o.lenW THEN [o |-> o, ok |-> FALSE]
    ELSE IF o.fast
    THEN [o |-> [o EXCEPT !.len = n, !.vals = SubSeq(@, 1, IF n < Len(@) THEN n ELSE Len(@))], ok |-> TRUE]
    ELSE WithLength(IF n >= o.len THEN [o |-> o, len |-> n]
                    ELSE IF o.len - n <= PropCount(o) THEN DeleteDown([o |-> o, ok |-> TRUE], o.len, n)
                    ELSE [o |-> DeleteSlots(o, 1, LengthKept(o, n)), len |-> LengthKept(o, n)],
                    n)

\* `add_fast_array_element`: a length that is not an int is not looked at.
AddFast(o, v) ==
    LET n == Len(o.vals) + 1
    IN  IF o.len <= TagMax /\ n > o.len /\ ~o.lenW THEN [o |-> o, ok |-> FALSE]
        ELSE [o |-> [o EXCEPT !.vals = Append(@, v), !.len = IF @ <= TagMax /\ n > @ THEN n ELSE @], ok |-> TRUE]

\* A descriptor is [has, v, g, s, w, e, c]; what it does not have is FALSE,
\* undefined or none.
HasAccessor(d) == d.has \cap {"g", "s"} # {}
AllSet(d) == d.w /\ d.e /\ d.c

\* The property `JS_CreateProperty` makes of a descriptor.
NewProp(d) == IF HasAccessor(d) THEN Accessor(d.g, d.s, d.e, d.c) ELSE Data(d.v, d.w, d.e, d.c)

\* The end of `JS_CreateProperty`.
CreateSlot(o, k, d) ==
    IF o.ext THEN [o |-> Add(o, k, NewProp(d)), ok |-> TRUE] ELSE [o |-> o, ok |-> FALSE]

\* `JS_CreateProperty` of an array that is slow, or is made slow: the length
\* comes before the property.
CreateIndex(o, k, d) ==
    IF k + 1 > o.len
    THEN IF o.lenW THEN CreateSlot([o EXCEPT !.len = k + 1], k, d) ELSE [o |-> o, ok |-> FALSE]
    ELSE CreateSlot(o, k, d)

\* `JS_CreateProperty`
Create(o, k, d) ==
    IF o.cls = "object" THEN CreateSlot(o, k, d)
    ELSE IF ~o.fast THEN CreateIndex(o, k, d)
    ELSE IF k <= TagMax /\ k = Len(o.vals) /\ ~o.ext THEN [o |-> o, ok |-> FALSE]
    ELSE IF k <= TagMax /\ k = Len(o.vals) /\ ~HasAccessor(d) /\ AllSet(d) THEN AddFast(o, d.v)
    ELSE CreateIndex(ToSlow(o), k, d)

\* `check_define_prop_flags`
CheckDefine(p, d) ==
    \/ p.c
    \/ /\ ~("c" \in d.has /\ d.c)
       /\ "e" \in d.has => d.e = p.e
       /\ d.has \cap {"v", "w", "g", "s"} # {} =>
              /\ HasAccessor(d) = (p.t = "accessor")
              /\ (~HasAccessor(d) /\ ~p.w) => ~("w" \in d.has /\ d.w)

WithFlags(p, d) == [p EXCEPT !.e = IF "e" \in d.has THEN d.e ELSE @, !.c = IF "c" \in d.has THEN d.c ELSE @]

\* `JS_DefineProperty` of accessors for a property that exists.
DefineAccessor(p, d) ==
    LET q == IF p.t = "accessor" THEN p ELSE Accessor(NoFn, NoFn, p.e, p.c)
    IN  [ok |-> p.t # "accessor" \/ p.c \/ (("g" \in d.has => d.g = p.g) /\ ("s" \in d.has => d.s = p.s)),
         p |-> [q EXCEPT !.g = IF "g" \in d.has THEN d.g ELSE @, !.s = IF "s" \in d.has THEN d.s ELSE @]]

\* `JS_DefineProperty` of a value or of writable for a property that exists.
DefineData(p, d) ==
    LET q == IF p.t = "accessor" THEN Data(Undef, FALSE, p.e, p.c) ELSE p
    IN  [ok |-> p.t = "accessor" \/ p.c \/ p.w \/ ("v" \in d.has => d.v = p.v),
         p |-> [q EXCEPT !.v = IF "v" \in d.has THEN d.v ELSE @, !.w = IF "w" \in d.has THEN d.w ELSE @]]


\* Of a reference: the variable is written; it is a value from the moment it
\* cannot be written any more.
DefineRef(p, d, cl) ==
    LET v == IF "v" \in d.has THEN d.v ELSE cl
    IN  [cell |-> v, p |-> IF "w" \in d.has /\ ~d.w THEN [p EXCEPT !.t = "data", !.v = v, !.w = FALSE] ELSE p]

\* `JS_DefineProperty` of a property in a slot.
DefineSlot(o, k, d, cl) ==
    LET p == Made(o.slots[Slot(o, k)].p)
        a == DefineAccessor(p, d)
        r == DefineRef(p, d, cl)
        v == DefineData(p, d)
        Done(q, newCell) == [o |-> PutSlot(o, k, WithFlags(q, d)), cell |-> newCell, ok |-> TRUE]
        Fail == [o |-> PutSlot(o, k, p), cell |-> cl, ok |-> FALSE]
    IN  IF ~CheckDefine(o.slots[Slot(o, k)].p, d) THEN [o |-> o, cell |-> cl, ok |-> FALSE]
        ELSE IF HasAccessor(d) THEN IF a.ok THEN Done(a.p, cl) ELSE Fail
        ELSE IF d.has \cap {"v", "w"} = {} THEN Done(p, cl)
        ELSE IF p.t = "ref" THEN Done(r.p, r.cell)
        ELSE IF v.ok THEN Done(v.p, cl) ELSE Fail

\* `JS_DefineProperty`
DefineKey(o, k, d, cl) ==
    LET flags == [f \in {"w", "e", "c"} |-> IF f \in d.has THEN d[f] ELSE TRUE]
        r == Create(o, k, d)
    IN  IF Slot(o, k) # 0 THEN DefineSlot(o, k, d, cl)
        ELSE IF InVals(o, k)
        THEN IF HasAccessor(d) \/ \E f \in DOMAIN flags : ~flags[f] THEN DefineSlot(ToSlow(o), k, d, cl)
             ELSE [o |-> IF "v" \in d.has THEN [o EXCEPT !.vals[k + 1] = d.v] ELSE o, cell |-> cl, ok |-> TRUE]
        ELSE [o |-> r.o, cell |-> cl, ok |-> r.ok]

\* `JS_DefineProperty` of "length", with a number n if the descriptor has one.
DefineLength(o, n, d) ==
    LET r == IF "v" \in d.has THEN SetLength(o, n) ELSE [o |-> o, ok |-> TRUE]
    IN  IF ~CheckDefine(Data(Undef, o.lenW, FALSE, FALSE), d) THEN [o |-> o, ok |-> FALSE]
        ELSE IF ~o.lenW /\ "v" \in d.has THEN [o |-> o, ok |-> n = o.len]
        ELSE [o |-> [r.o EXCEPT !.lenW = IF "w" \in d.has THEN d.w ELSE @], ok |-> r.ok]

\* What a call that sets a property does: [o, cell, res].
Answer(o, cl, ok) == [o |-> o, cell |-> cl, res |-> IF ok THEN <<"true">> ELSE <<"false">>]
AnswerOf(r, cl) == Answer(r.o, cl, r.ok)
CallSetter(o, cl, p) ==
    IF p.s = NoFn THEN Answer(o, cl, FALSE) ELSE [o |-> o, cell |-> cl, res |-> <<"calls", p.s>>]
AllHave(v) == [has |-> {"v", "w", "e", "c"}, v |-> v, g |-> NoFn, s |-> NoFn, w |-> TRUE, e |-> TRUE, c |-> TRUE]

\* The part of `JS_SetPropertyInternal` that adds the property.
SetNew(o, k, v, cl) ==
    IF ~o.ext THEN Answer(o, cl, FALSE)
    ELSE IF o.cls = "array" /\ o.fast /\ k <= TagMax /\ k = Len(o.vals) THEN AnswerOf(AddFast(o, v), cl)
    ELSE AnswerOf(Create(o, k, AllHave(v)), cl)

RECURSIVE SetInherited(_, _, _, _, _)
\* Its walk along the prototypes: it ends at an element of a vector, at an
\* accessor and at a property that is not writable.
SetInherited(o, k, v, cl, i) ==
    IF i > Len(protos) THEN SetNew(o, k, v, cl)
    ELSE LET p == GetOwn(protos[i], k, cl)
         IN  IF Slot(protos[i], k) # 0 /\ p.t = "accessor" THEN CallSetter(o, cl, p)
             ELSE IF Slot(protos[i], k) # 0 /\ ~p.w THEN Answer(o, cl, FALSE)
             ELSE IF InVals(protos[i], k) THEN SetNew(o, k, v, cl)
             ELSE SetInherited(o, k, v, cl, i + 1)

\* `JS_SetPropertyInternal`
SetInternal(o, k, v, cl) ==
    LET p == Made(o.slots[Slot(o, k)].p)
    IN  IF Slot(o, k) # 0
        THEN IF p.t = "accessor" THEN CallSetter(o, cl, p)
             ELSE IF p.t = "ref" THEN Answer(o, v, TRUE)
             ELSE IF p.w THEN Answer(PutSlot(o, k, [p EXCEPT !.v = v]), cl, TRUE) ELSE Answer(o, cl, FALSE)
        ELSE IF InVals(o, k) THEN Answer([o EXCEPT !.vals[k + 1] = v], cl, TRUE)
        ELSE SetInherited(o, k, v, cl, 1)

\* Whether a prototype may have an index, as the fast path asks.
MayHaveIndex(p) == IF p.cls = "array" THEN ~p.fast ELSE \E s \in Range(p.slots) : s.k <= TagMax

\* `JS_SetPropertyValue`
SetValue(o, k, v, cl) ==
    IF k <= TagMax /\ o.cls = "array" /\ o.fast /\ o.ext /\ k = Len(o.vals)
       /\ \A i \in DOMAIN protos : ~MayHaveIndex(protos[i])
    THEN AnswerOf(AddFast(o, v), cl)
    ELSE SetInternal(o, k, v, cl)

\* `JS_SetPropertyGeneric`, of Reflect.set: found from the i-th object of the
\* chain on, set on the object.
SetGeneric(o, k, v, cl, i) ==
    LET from == SubSeq(Chain(o), i, Len(protos) + 1)
        j == SelectInSeq(from, LAMBDA q : Own(q, k))
        p == GetOwn(from[j], k, cl)
        own == GetOwn(o, k, cl)
        r == IF Own(o, k) THEN DefineKey(o, k, [AllHave(v) EXCEPT !.has = {"v"}], cl)
             ELSE [cell |-> cl] @@ Create(o, k, AllHave(v))
    IN  IF j # 0 /\ p.t = "accessor" THEN CallSetter(o, cl, p)
        ELSE IF j # 0 /\ ~p.w THEN Answer(o, cl, FALSE)
        ELSE IF Own(o, k) /\ (own.t = "accessor" \/ ~own.w) THEN Answer(o, cl, FALSE)
        ELSE Answer(r.o, r.cell, r.ok)

\* The calls a program makes; `arg` assigns the variable a reference is to.
Calls ==
         {<<"get", k>> : k \in Keys} \cup {<<"delete", k>> : k \in Keys} \cup {<<"has", k>> : k \in Keys}
    \cup {<<"set", k, v>> : k \in Keys, v \in Vals}
    \cup {<<"reflectSet", k, v, i>> : k \in Keys, v \in Vals, i \in {1, 2}}
    \cup {<<"define", k, d>> : k \in Keys, d \in Descs}
    \cup {<<"arg", v>> : v \in Vals} \cup {<<"prevent">>}
    \cup {<<"setLength", n>> : n \in Lengths}
    \cup {<<"defineLength", n, d>> : n \in Lengths, d \in {e \in Descs : e.has \subseteq {"v", "w"}}}

Do(c) ==
    CASE c[1] = "get" -> [o |-> obj, cell |-> cell, res |-> GetResult(obj, c[2])]
      [] c[1] = "has" -> Answer(obj, cell, Has(obj, c[2]))
      [] c[1] = "delete" -> AnswerOf(Delete(obj, c[2]), cell)
      [] c[1] = "set" -> SetValue(obj, c[2], c[3], cell)
      [] c[1] = "reflectSet" -> SetGeneric(obj, c[2], c[3], cell, c[4])
      [] c[1] = "define" -> LET r == DefineKey(obj, c[2], c[3], cell) IN Answer(r.o, r.cell, r.ok)
      [] c[1] = "arg" -> Answer(obj, c[2], TRUE)
      [] c[1] = "prevent" -> Answer([obj EXCEPT !.ext = FALSE], cell, TRUE)
      [] c[1] = "setLength" -> AnswerOf(SetLength(obj, c[2]), cell)
      [] c[1] = "defineLength" -> AnswerOf(DefineLength(obj, c[2], c[3]), cell)

\* Calls the language answers otherwise: to add an element to an array that
\* cannot be extended, and to set what a prototype shadows.
Shadowed(k) ==
    \E i, j \in DOMAIN protos : /\ i < j /\ Slot(protos[i], k) # 0 /\ Slot(protos[j], k) # 0
                                /\ ~Own(obj, k)
Special(c) ==
    \/ obj.cls = "array" /\ ~obj.ext /\ c[1] \in {"define", "reflectSet"} /\ c[2] >= obj.len
    \/ c[1] = "set" /\ Shadowed(c[2])

Allowed(c) ==
    /\ ~Special(c)
    /\ c[1] \in {"setLength", "defineLength"} => obj.cls = "array"

Call(c) ==
    /\ Allowed(c) /\ c[1] \notin {"get", "has"}
    /\ \E r \in {Do(c)} : obj' = r.o /\ cell' = r.cell
    /\ Len(obj'.slots) + Len(obj'.vals) <= MaxSlots
    /\ UNCHANGED protos

Next == \E c \in Calls : Call(c)

Spec == Init /\ [][Next]_propVars

\* What the object is to a program.
AbsObj(o, cl) ==
    [cls |-> o.cls, len |-> o.len, lenW |-> o.lenW, ext |-> o.ext,
     props |-> [k \in {x \in Keys : Own(o, x)} |-> GetOwn(o, k, cl)],
     mapped |-> {s.k : s \in {t \in Range(o.slots) : t.k # NoKey /\ t.p.t = "ref"}}]

Language ==
    INSTANCE PropSpec WITH object <- AbsObj(obj, cell), variable <- cell,
                           chain <- [i \in DOMAIN protos |-> AbsObj(protos[i], Undef)]

\* What the code did, r, is what the language says, s.
SameAnswer(r, s) == AbsObj(r.o, r.cell) = s.o /\ r.cell = s.var /\ r.res = s.res


=============================================================================
