------------------------------ MODULE JsShapes -------------------------------
(***************************************************************************)
(* Shapes (quickjs.c): objects with the same prototype whose properties    *)
(* were added in the same order share the table that says which slot has   *)
(* which name and flags. A shape in the hash table of the runtime can be   *)
(* shared and is found again by the next object; one that is changed is    *)
(* taken out, or copied first.                                             *)
(*                                                                         *)
(* An operation takes a heap [sh, ob] to the set of heaps it may leave:    *)
(* memory may fail. Names are numbers, NoName marks a deleted property.    *)
(***************************************************************************)
EXTENDS Integers, Sequences, SequencesExt, FiniteSets

CONSTANTS Objs, ShapeIds,  \* the objects; memory for shapes
          Names, Flags, Vals,
          InitialSize, InitialHash,  \* JS_PROP_INITIAL_SIZE and _HASH_SIZE (2 and 4)
          CompactMin,      \* deleted properties before a shape is compacted (8)
          HashMod,         \* the range of the hash of a shape (2^32)
          MaxProps         \* bound: slots of a shape

VARIABLES heap

NoName == 0
NoShape == 0
Unused == [rc |-> 0, hashed |-> FALSE, proto |-> NoShape, props |-> <<>>, size |-> 0, chains |-> <<>>, hash |-> 0]
Dead == [sh |-> NoShape, vals |-> <<>>, cap |-> 0]

Alive(h) == {o \in Objs : h.ob[o].sh # NoShape}
ShapeOf(h, o) == h.sh[h.ob[o].sh]
Larger(a, b) == IF a > b THEN a ELSE b

\* `shape_hash`
Mix(x, v) == ((x + v) * 3) % HashMod

\* The chains of a shape, from its properties: the latest comes first.
Bucket(n, size) == (n % size) + 1
Chained(props, size) ==
    [b \in 1..size |-> Reverse(SelectSeq([i \in DOMAIN props |-> i],
                                         LAMBDA i : props[i].n # NoName /\ Bucket(props[i].n, size) = b))]

\* `find_own_property`: the slot, or 0.
Find(s, n) ==
    LET chain == s.chains[Bucket(n, Len(s.chains))]
        i == SelectInSeq(chain, LAMBDA j : s.props[j].n = n)
    IN  IF i = 0 THEN 0 ELSE chain[i]

Fresh(h) == {i \in ShapeIds : h.sh[i].rc = 0}
NewId(h) == CHOOSE i \in Fresh(h) : \A j \in Fresh(h) : i <= j

\* `js_free_shape`: with the last reference the shape leaves the table too.
FreeShape(h, i) ==
    [h EXCEPT !.sh[i] = IF @.rc = 1 THEN Unused ELSE [@ EXCEPT !.rc = @ - 1]]

\* Mutation: the copy is not made when the shape is shared.
PrepareUpdateShared(h, o) == {[h EXCEPT !.sh[h.ob[o].sh].hashed = FALSE]}

\* `js_shape_prepare_update`: the shape of the object may now be changed.
PrepareUpdate(h, o) ==
    LET i == h.ob[o].sh
        s == h.sh[i]
        j == NewId(h)
    IN  IF ~s.hashed THEN {h}
        ELSE IF s.rc = 1 THEN {[h EXCEPT !.sh[i].hashed = FALSE]}
        ELSE IF Fresh(h) = {} THEN {}
        ELSE {FreeShape([h EXCEPT !.sh[j] = [s EXCEPT !.rc = 1, !.hashed = FALSE], !.ob[o].sh = j], i)}

\* It may fail to copy the shape; the operation then leaves all as it was.
NoMemory(h, o) == IF ShapeOf(h, o).hashed /\ ShapeOf(h, o).rc # 1 THEN {h} ELSE {}

\* `resize_properties`: room for count properties, chains for as many.
RECURSIVE DoubleTo(_, _)
DoubleTo(n, size) == IF n < size THEN DoubleTo(2 * n, size) ELSE n
Resized(s, count) ==
    LET size == Larger(count, (s.size * 3) \div 2)
        buckets == DoubleTo(Len(s.chains), size)
    IN  [s EXCEPT !.size = size, !.chains = IF buckets = Len(@) THEN @ ELSE Chained(s.props, buckets)]

\* `add_shape_property`
AddShapeProperty(h, o, n, f) ==
    LET s0 == ShapeOf(h, o)
        s == IF Len(s0.props) >= s0.size THEN Resized(s0, Len(s0.props) + 1) ELSE s0
        b == Bucket(n, Len(s.chains))
    IN  [h EXCEPT !.sh[h.ob[o].sh] =
                      [s EXCEPT !.props = Append(@, [n |-> n, f |-> f]),
                                !.hash = IF s.hashed THEN Mix(Mix(@, n), f) ELSE @,
                                !.chains[b] = <<Len(s.props) + 1>> \o @],
                  !.ob[o].cap = IF Len(s0.props) >= s0.size THEN s.size ELSE @]

\* `find_hashed_shape_prop`
FindShapeProp(h, s, n, f) ==
    {i \in ShapeIds : LET t == h.sh[i]
                      IN  /\ t.rc > 0 /\ t.hashed /\ t.hash = Mix(Mix(s.hash, n), f) /\ t.proto = s.proto
                          /\ t.props = Append(s.props, [n |-> n, f |-> f])}

\* `add_property`, before the value is stored: the shape that has the
\* property already, or the object's own, copied if it is shared.
AddProperty(h, o, n, f, v) ==
    LET i == h.ob[o].sh
        s == h.sh[i]
        found == FindShapeProp(h, s, n, f)
        j == NewId(h)
        Adopt(k) == FreeShape([h EXCEPT !.ob[o].sh = k, !.ob[o].cap = h.sh[k].size, !.sh[k].rc = @ + 1], i)
        cloned == FreeShape([h EXCEPT !.sh[j] = [s EXCEPT !.rc = 1], !.ob[o].sh = j], i)
        Stored(g) == [g EXCEPT !.ob[o].vals = Append(@, v)]
    IN  IF s.hashed /\ found # {} THEN {h} \cup {Stored(Adopt(k)) : k \in found}
        ELSE IF s.hashed /\ s.rc # 1
        THEN IF Fresh(h) = {} THEN {h} ELSE {cloned, Stored(AddShapeProperty(cloned, o, n, f))}
        ELSE {h, Stored(AddShapeProperty(h, o, n, f))}

\* `compact_properties`
RECURSIVE HalveTo(_, _)
HalveTo(n, size) == IF n \div 2 >= size THEN HalveTo(n \div 2, size) ELSE n
Compacted(h, o) ==
    LET s == ShapeOf(h, o)
        kept == SelectSeq([i \in DOMAIN s.props |-> i], LAMBDA i : s.props[i].n # NoName)
        props == [i \in DOMAIN kept |-> s.props[kept[i]]]
        size == Larger(InitialSize, Len(kept))
    IN  [h EXCEPT !.sh[h.ob[o].sh] = [s EXCEPT !.props = props, !.size = size,
                                               !.chains = Chained(props, HalveTo(Len(s.chains), size))],
                  !.ob[o].vals = [i \in DOMAIN kept |-> @[kept[i]]], !.ob[o].cap = size]

DeletedIn(s) == Len(SelectSeq(s.props, LAMBDA p : p.n = NoName))

\* `delete_property` of a property in slot i.
DeleteSlot(h, o, i) ==
    LET s == ShapeOf(h, o)
        b == Bucket(s.props[i].n, Len(s.chains))
        g == [h EXCEPT !.sh[h.ob[o].sh] = [s EXCEPT !.props[i] = [n |-> NoName, f |-> 0],
                                                    !.chains[b] = SelectSeq(@, LAMBDA j : j # i)],
                       !.ob[o].vals[i] = "undefined"]
        t == ShapeOf(g, o)
    IN  IF DeletedIn(t) >= CompactMin /\ DeletedIn(t) >= Len(t.props) \div 2 THEN {g, Compacted(g, o)} ELSE {g}

DeleteProperty(h, o, n) ==
    IF Find(ShapeOf(h, o), n) = 0 THEN {h}
    ELSE NoMemory(h, o) \cup UNION {DeleteSlot(g, o, Find(ShapeOf(g, o), n)) : g \in PrepareUpdate(h, o)}

\* `js_update_property_flags`
UpdateFlags(h, o, n, f) ==
    LET i == Find(ShapeOf(h, o), n)
    IN  IF ShapeOf(h, o).props[i].f = f THEN {h}
        ELSE NoMemory(h, o) \cup {[g EXCEPT !.sh[g.ob[o].sh].props[i].f = f] : g \in PrepareUpdate(h, o)}

RECURSIVE Up(_, _)
\* The object and the prototypes above it.
Up(h, o) == IF o = NoShape THEN {} ELSE {o} \cup Up(h, ShapeOf(h, o).proto)

\* The search of `JS_SetPrototypeInternal` for a cycle.
MakesCycle(h, o, p) == o \in Up(h, p)

\* `JS_SetPrototypeInternal`
SetPrototype(h, o, p) ==
    IF ShapeOf(h, o).proto = p \/ MakesCycle(h, o, p) THEN {h}
    ELSE NoMemory(h, o) \cup {[g EXCEPT !.sh[g.ob[o].sh].proto = p] : g \in PrepareUpdate(h, o)}

\* `JS_NewObjectProtoClass`: from an empty shape of the table, or a new one.
NewObject(h, o, p) ==
    LET empty == {i \in ShapeIds : h.sh[i].rc > 0 /\ h.sh[i].hashed /\ h.sh[i].proto = p /\ h.sh[i].props = <<>>}
        j == NewId(h)
        new == [rc |-> 1, hashed |-> TRUE, proto |-> p, props |-> <<>>, size |-> InitialSize,
                chains |-> [b \in 1..InitialHash |-> <<>>], hash |-> Mix(1, p)]
        From(i) == [sh |-> i, vals |-> <<>>, cap |-> h.sh[i].size]
    IN  IF empty # {} THEN {[h EXCEPT !.sh[i].rc = @ + 1, !.ob[o] = From(i)] : i \in empty}
        ELSE IF Fresh(h) = {} THEN {}
        ELSE {[h EXCEPT !.sh[j] = new, !.ob[o] = [From(j) EXCEPT !.cap = InitialSize]]}

\* `free_object`
FreeObject(h, o) == {FreeShape([h EXCEPT !.ob[o] = Dead], h.ob[o].sh)}

\* The operations there are in a heap.
Ops(h) ==
         {<<"new", o, p>> : o \in Objs \ Alive(h), p \in Alive(h) \cup {NoShape}}
    \cup {<<"add", o, n, f, v>> : o \in {x \in Alive(h) : Len(ShapeOf(h, x).props) < MaxProps}, n \in Names, f \in Flags, v \in Vals}
    \cup {<<"flags", o, n, f>> : o \in Alive(h), n \in Names, f \in Flags}
    \cup {<<"delete", o, n>> : o \in Alive(h), n \in Names}
    \cup {<<"proto", o, p>> : o \in Alive(h), p \in Alive(h) \cup {NoShape}}
    \cup {<<"free", o>> : o \in {x \in Alive(h) : \A i \in ShapeIds : h.sh[i].proto # x}}

Has(h, o, n) == Find(ShapeOf(h, o), n) # 0
Possible(h, op) == (op[1] = "add" => ~Has(h, op[2], op[3])) /\ (op[1] = "flags" => Has(h, op[2], op[3]))

Do(h, op) ==
    CASE op[1] = "new" -> NewObject(h, op[2], op[3])
      [] op[1] = "add" -> AddProperty(h, op[2], op[3], op[4], op[5])
      [] op[1] = "flags" -> UpdateFlags(h, op[2], op[3], op[4])
      [] op[1] = "delete" -> DeleteProperty(h, op[2], op[3])
      [] op[1] = "proto" -> SetPrototype(h, op[2], op[3])
      [] op[1] = "free" -> FreeObject(h, op[2])

Init == heap = [sh |-> [i \in ShapeIds |-> Unused], ob |-> [o \in Objs |-> Dead]]
Step(op) == Possible(heap, op) /\ heap' \in Do(heap, op)
Next == \E op \in Ops(heap) : Step(op)
Spec == Init /\ [][Next]_heap

\* What a program sees of an object: its prototype, and its properties in the
\* order they were added.
Seen(h, o) ==
    IF h.ob[o].sh = NoShape THEN <<"dead">>
    ELSE LET s == ShapeOf(h, o)
             live == SelectSeq([i \in DOMAIN s.props |-> i], LAMBDA i : s.props[i].n # NoName)
         IN  <<"object", s.proto, [i \in DOMAIN live |-> <<s.props[live[i]].n, s.props[live[i]].f, h.ob[o].vals[live[i]]>>]>>

\* What the operation makes of its object.
Expected(h, op) ==
    LET was == Seen(h, op[2])
        n == op[3]
    IN  CASE op[1] = "new" -> {<<"object", op[3], <<>> >>}
          [] op[1] = "free" -> {<<"dead">>}
          [] op[1] = "add" -> {was, <<"object", was[2], Append(was[3], <<n, op[4], op[5]>>)>>}
          [] op[1] = "delete" -> {was, <<"object", was[2], SelectSeq(was[3], LAMBDA p : p[1] # n)>>}
          [] op[1] = "flags" -> {was, <<"object", was[2], [i \in DOMAIN was[3] |->
                                     IF was[3][i][1] = n THEN <<n, op[4], was[3][i][3]>> ELSE was[3][i]]>>}
          [] op[1] = "proto" -> {was, <<"object", n, was[3]>>}

\* Shapes are shared, found again, copied and compacted, and no program can
\* tell: an operation does to its object what it should and nothing to the
\* other objects, also when memory runs out in the middle of it.
SharingInvisible ==
    \A op \in Ops(heap) : Possible(heap, op) => \A g \in Do(heap, op) :
        /\ Seen(g, op[2]) \in Expected(heap, op)
        /\ \A o \in Objs \ {op[2]} : Seen(g, o) = Seen(heap, o)

\* Every reference to a shape is counted, and a shape outside the hash table
\* has one owner: `add_property` asserts it before it changes the shape.
OwnersCounted ==
    \A i \in ShapeIds : LET n == Cardinality({o \in Objs : heap.ob[o].sh = i})
                        IN  heap.sh[i].rc = n /\ (n > 1 => heap.sh[i].hashed)

\* The slots of an object have room for the properties of its shape, and as
\* many values as the shape has properties.
RoomForProperties ==
    \A o \in Alive(heap) : /\ Len(ShapeOf(heap, o).props) <= heap.ob[o].cap
                           /\ ShapeOf(heap, o).size <= heap.ob[o].cap
                           /\ Len(heap.ob[o].vals) = Len(ShapeOf(heap, o).props)

\* The chains of a shape hold each of its properties once, under its name,
\* and no deleted one.
ChainsExact ==
    \A i \in ShapeIds : LET s == heap.sh[i]
                        IN  \A b \in DOMAIN s.chains :
                                /\ Range(s.chains[b]) = {k \in DOMAIN s.props : s.props[k].n # NoName
                                                                             /\ Bucket(s.props[k].n, Len(s.chains)) = b}
                                /\ IsInjective(s.chains[b])

\* No object is above itself (`JS_SetPrototypeInternal`); the walks along the
\* prototypes end.
RECURSIVE ClimbsOut(_, _)
ClimbsOut(o, n) == o = NoShape \/ (n > 0 /\ ClimbsOut(ShapeOf(heap, o).proto, n - 1))
NoPrototypeCycle == \A o \in Alive(heap) : ClimbsOut(o, Cardinality(Objs))
=============================================================================
