----------------------------- MODULE MCObjects -----------------------------
(***************************************************************************)
(* The objects of the JavaScript engine for TLC, in three parts. "object": *)
(* an arguments object and a lazily made property, with every kind of      *)
(* descriptor and prototypes that have accessors.  "array": an array whose *)
(* indices are 0, 1 and one that is not its own atom; lengths from         *)
(* TagMax + 1 on are not ints.  "methods": the methods of Array.prototype  *)
(* on an array of up to three elements, with an element of the prototype   *)
(* or without.                                                             *)
(***************************************************************************)
EXTENDS Integers, Sequences

VARIABLES part, obj, cell, protos

allVars == <<part, obj, cell, protos>>

Undef == "undefined"
NoFn == "none"

Obj(cls, fast, vals, slots) ==
    [cls |-> cls, fast |-> fast, vals |-> vals, slots |-> slots,
     len |-> Len(vals), lenW |-> TRUE, ext |-> TRUE]
Slotted(k, p) == Obj("object", FALSE, <<>>, <<[k |-> k, p |-> p]>>)
Prop(t, v, g, s, w, e) == [t |-> t, v |-> v, g |-> g, s |-> s, w |-> w, e |-> e, c |-> TRUE]
Accessor(g, s) == Prop("accessor", Undef, g, s, FALSE, TRUE)

Desc(has, v, g, s, w, e, c) == [has |-> has, v |-> v, g |-> g, s |-> s, w |-> w, e |-> e, c |-> c]
DataDescs ==
    {Desc({"v", "w", "e", "c"}, "a", NoFn, NoFn, w, TRUE, c) : w, c \in BOOLEAN}
        \cup {Desc({"v"}, "b", NoFn, NoFn, FALSE, FALSE, FALSE)}
        \cup {Desc({"w"}, Undef, NoFn, NoFn, w, FALSE, FALSE) : w \in BOOLEAN}
        \cup {Desc({"v", "w"}, "b", NoFn, NoFn, FALSE, FALSE, FALSE)}
FlagDescs ==
    {Desc({"e"}, Undef, NoFn, NoFn, FALSE, e, FALSE) : e \in BOOLEAN}
        \cup {Desc({"c"}, Undef, NoFn, NoFn, FALSE, FALSE, c) : c \in BOOLEAN}
        \cup {Desc({}, Undef, NoFn, NoFn, FALSE, FALSE, FALSE)}
AccessorDescs ==
    {Desc({"g"}, Undef, "f", NoFn, FALSE, FALSE, FALSE)}
        \cup {Desc({"s", "c"}, Undef, NoFn, "f", FALSE, FALSE, c) : c \in BOOLEAN}
\* Arrays: what makes the array slow, fixes an element or fails.
ArrayDescs ==
    {Desc({"g", "c"}, Undef, "f", NoFn, FALSE, FALSE, TRUE),
     Desc({"w"}, Undef, NoFn, NoFn, FALSE, FALSE, FALSE),
     Desc({"v"}, "a", NoFn, NoFn, FALSE, FALSE, FALSE)}

Arguments == [obj |-> Slotted(0, Prop("ref", Undef, NoFn, NoFn, TRUE, TRUE)), cell |-> "a"]
Lazy == [obj |-> Slotted(0, Prop("auto", "b", NoFn, NoFn, TRUE, FALSE)), cell |-> Undef]
EmptyArray == [obj |-> Obj("array", TRUE, <<>>, <<>>), cell |-> Undef]

PlainObject ==
    INSTANCE JsProps
        WITH Keys <- {0, 1}, TagMax <- 8, Vals <- {"a"}, Fns <- {"f"}, Lengths <- {0},
             Descs <- DataDescs \cup FlagDescs \cup AccessorDescs,
             Objects <- {Arguments, Lazy},
             Chains <- {<<Obj("object", FALSE, <<>>, <<>>), Slotted(1, Accessor(NoFn, "f"))>>},
             CompactMin <- 8, MaxSlots <- 2

ArrayObject ==
    INSTANCE JsProps
        WITH Keys <- {0, 1, 9}, TagMax <- 8, Vals <- {"a"}, Fns <- {"f"}, Lengths <- {0, 10},
             Descs <- ArrayDescs, Objects <- {EmptyArray},
             Chains <- {<<Obj("array", TRUE, <<"a">>, <<>>), Slotted(1, Accessor(NoFn, NoFn))>>},
             CompactMin <- 8, MaxSlots <- 2

\* "n" is an array with a hole and an array in it, "m" a short one; "a" and
\* "b" are equal for sort.
El(k, v) == [k |-> k, p |-> Prop("data", v, NoFn, NoFn, TRUE, TRUE)]
NestedArrays ==
    [v \in {"n", "m"} |->
        IF v = "m" THEN Obj("array", TRUE, <<"c">>, <<>>)
        ELSE [Obj("array", FALSE, <<>>, <<El(0, "b"), El(2, "m")>>) EXCEPT !.len = 3]]
Ranks == [v \in {"a", "b", "c", "n", "m"} |-> IF v \in {"a", "b"} THEN 2 ELSE 1]
Inherits == [Obj("array", FALSE, <<>>, <<El(1, "b")>>) EXCEPT !.len = 2]

Methods ==
    INSTANCE JsArray
        WITH Keys <- {0, 1, 2, 3, 4, 5}, TagMax <- 8, Vals <- {"a", "b"}, Fns <- {}, Lengths <- {},
             Descs <- {}, Objects <- {EmptyArray}, Chains <- {<<>>, <<Inherits>>},
             CompactMin <- 8, MaxSlots <- 3,
             Positions <- {-1, 0, 3}, Items <- {<<>>, <<"b", "n">>},
             Nested <- NestedArrays, Rank <- Ranks, Wanted <- {"a"}, MaxLen <- 3

Init ==
    \/ part = "object" /\ PlainObject!Init
    \/ part = "array" /\ ArrayObject!Init
    \/ part = "methods" /\ Methods!ArrayInit

ObjectSteps == part = "object" /\ PlainObject!Next /\ UNCHANGED part
ArraySteps == part = "array" /\ ArrayObject!Next /\ UNCHANGED part
MethodSteps == part = "methods" /\ Methods!ArrayNext /\ UNCHANGED part

Next == ObjectSteps \/ ArraySteps \/ MethodSteps

Spec == Init /\ [][Next]_allVars
-----------------------------------------------------------------------------

(***************************************************************************)
(* Every method of Array.prototype does what its definition says, on fast  *)
(* and on slow arrays.  See MethodsAsDefined of JsArray.                   *)
(***************************************************************************)
MethodsAsDefined == part = "methods" => Methods!MethodsAsDefined
=============================================================================
