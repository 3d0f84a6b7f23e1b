------------------------------- MODULE MCHeap -------------------------------
(***************************************************************************)
(* The engine's memory for TLC: the reference counts and the collector,    *)
(* the shapes that objects share, the records of maps, the lists of weak   *)
(* maps and the timers of the event loop.  A behaviour exercises one of    *)
(* these parts; the event loop then stays as it starts, and the variables  *)
(* of the other parts are <<>>.                                            *)
(***************************************************************************)
EXTENDS OsLoop, TLC

CONSTANTS Values, Inner, Roots, Null,   \* the collector
          Objects, Maps                 \* weak maps

VARIABLES part,
          heap, root, phase, at, swept,                     \* the collector; shapes: heap
          rec, records, table, count, threshold, cur, out,  \* maps; weak maps: rec, records
          live, weak                                        \* weak maps

gcOnly == <<root, phase, at, swept>>
mapOnly == <<table, count, threshold, cur, out>>
listVars == <<rec, records>>
weakOnly == <<live, weak>>
allVars == <<part, heap, gcOnly, mapOnly, listVars, weakOnly, loopVars>>

Gc == INSTANCE JsGc WITH Slots <- {1, 2}

\* Shapes that fill up with their second property, are compacted after one
\* deletion and collide in a table of one list.
Shapes == INSTANCE JsShapes WITH
    Objs <- {1, 2}, ShapeIds <- {1, 2, 3}, Names <- {1, 2}, Flags <- {0, 1}, Vals <- {"x"},
    InitialSize <- 1, InitialHash <- 1, CompactMin <- 1, HashMod <- 2, MaxProps <- 2

\* A table that grows at its second record, which takes the keys apart.
Map == INSTANCE JsMap WITH
    Keys <- {"a", "b"}, Vals <- {"x"}, Iterators <- {"i"}, Loops <- {"f"},
    Hash <- [k \in {"a", "b"} |-> IF k = "b" THEN 6 ELSE 1],
    Recs <- 1..4, FirstThreshold <- 2, Slacks <- {1}

Weak == INSTANCE JsWeakMap WITH Recs <- 1..4

Idle(v) == v = <<>>
NoGc == Idle(root) /\ Idle(phase) /\ Idle(at) /\ Idle(swept)
NoMap == Idle(table) /\ Idle(count) /\ Idle(threshold) /\ Idle(cur) /\ Idle(out)
NoLists == Idle(rec) /\ Idle(records)
NoWeak == Idle(live) /\ Idle(weak)

HeapInit ==
    /\ Init
    /\ \/ part = "gc" /\ Gc!Init /\ NoMap /\ NoLists /\ NoWeak
       \/ part = "shapes" /\ Shapes!Init /\ NoGc /\ NoMap /\ NoLists /\ NoWeak
       \/ part = "map" /\ Map!Init /\ Idle(heap) /\ NoGc /\ NoWeak
       \/ part = "weak" /\ Weak!Init /\ Idle(heap) /\ NoGc /\ NoMap
       \/ part = "timers" /\ Idle(heap) /\ NoGc /\ NoMap /\ NoLists /\ NoWeak

GcSteps == part = "gc" /\ Gc!Next /\ UNCHANGED <<part, mapOnly, listVars, weakOnly, loopVars>>
ShapeSteps == part = "shapes" /\ Shapes!Next /\ UNCHANGED <<part, gcOnly, mapOnly, listVars, weakOnly, loopVars>>
MapSteps == part = "map" /\ Map!Next /\ UNCHANGED <<part, heap, gcOnly, weakOnly, loopVars>>
WeakSteps == part = "weak" /\ Weak!Next /\ UNCHANGED <<part, heap, gcOnly, mapOnly, loopVars>>
TimerSteps == part = "timers" /\ Next /\ UNCHANGED <<part, heap, gcOnly, mapOnly, listVars, weakOnly>>

HeapNext == GcSteps \/ ShapeSteps \/ MapSteps \/ WeakSteps \/ TimerSteps

HeapSpec == HeapInit /\ [][HeapNext]_allVars

\* Sound: the property of maps is one of steps, and these values are not in maps.
Symmetry == Permutations(Values) \cup Permutations(Roots) \cup Permutations(Inner)

-----------------------------------------------------------------------------
(***************************************************************************)
(* Nothing that is in use refers to memory that was given back, at any     *)
(* point of the removal of a cycle (free_cycles), and outside a collection *)
(* every count is the number of references (gc_decref and gc_scan put back *)
(* what they take).                                                        *)
(***************************************************************************)
NoDangling == part = "gc" => Gc!TypeOK /\ Gc!NoDangling /\ Gc!CountsExact

(***************************************************************************)
(* After JS_RunGC everything is gone that the program cannot reach, in     *)
(* whatever order the objects were created.                                *)
(***************************************************************************)
CollectsAll == part = "gc" => Gc!CollectsAll

(***************************************************************************)
(* Sharing a shape is invisible: an object has the properties it was       *)
(* given, with the flags it was given, whatever the objects do that share  *)
(* its shape or once did. A shape counts its owners, its table finds each  *)
(* of its properties, an object has a slot for every property, and         *)
(* prototypes make no cycle.                                               *)
(***************************************************************************)
SharingInvisible ==
    part = "shapes" =>
        /\ Shapes!SharingInvisible
        /\ Shapes!OwnersCounted
        /\ Shapes!ChainsExact
        /\ Shapes!RoomForProperties
        /\ Shapes!NoPrototypeCycle

(***************************************************************************)
(* Every call on a map, every step of an iterator and of forEach does what *)
(* it does to a list of entries in the order of their insertion, whatever  *)
(* was deleted, cleared or rebuilt since the iterator stopped at its       *)
(* record.                                                                 *)
(***************************************************************************)
IsAMap == [][part = "map" => Map!StepsAsAMap]_allVars

(***************************************************************************)
(* A record of a map is counted by what refers to it and found in the      *)
(* table exactly while it is not deleted; a record of a weak map is in the *)
(* list of its map and in the list of its key, until one of them goes.     *)
(***************************************************************************)
RecordsAgree ==
    /\ part = "map" => Map!TypeOK /\ Map!RecordsCounted /\ Map!TableExact
    /\ part = "weak" => Weak!WeakListsAgree
=============================================================================
