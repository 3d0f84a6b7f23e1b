-------------------------------- MODULE JsGc --------------------------------
(***************************************************************************)
(* The memory management of QuickJS (quickjs.c): reference counts, the     *)
(* queue of objects whose count fell to zero, and the collector of cycles, *)
(* one object per step.                                                    *)
(*                                                                         *)
(* Two kinds of node are told apart.  A value (an object, the bytecode of  *)
(* a function) is queued when its count falls to zero.  An inner node (a   *)
(* detached variable, a shape) is freed at once, with the reference it     *)
(* holds on a value, and only nodes that are values hold inner nodes.      *)
(***************************************************************************)
EXTENDS Integers, Sequences, FiniteSets, SequencesExt

CONSTANTS Values,   \* memory for objects
          Inner,    \* memory for detached variables and shapes
          Slots,    \* the references an object has
          Roots,    \* the references of the running program
          Null

Nodes == Values \cup Inner



VARIABLES
    heap,    \* [mem, rc, mark, ref, list, tmp, zero]: see HeapOf
    root,    \* what the program refers to
    phase,   \* "none", "decref" (gc_phase), and the passes of JS_RunGC
    at,      \* the place of a pass in its list
    swept    \* history: a collection has just ended

gcVars == <<heap, root, phase, at, swept>>

Without(s, o) == SelectSeq(s, LAMBDA x : x # o)
\* The references of a node, one by one.
Refs(h, o) == SelectSeq(SetToSeq({<<s, h.ref[o][s]>> : s \in Slots}), LAMBDA x : x[2] # Null)

TypeOK ==
    /\ heap.mem \in [Nodes -> {"free", "live", "zombie"}]
    /\ heap.rc \in [Nodes -> Nat]
    /\ heap.mark \in [Nodes -> {0, 1}]
    /\ heap.ref \in [Nodes -> [Slots -> Nodes \cup {Null}]]
    /\ root \in [Roots -> Values \cup {Null}]
    /\ phase \in {"none", "decref", "gcdecref", "gcscan", "gcrestore", "gcfree"}
-----------------------------------------------------------------------------
NoRefs == [s \in Slots |-> Null]

Init ==
    /\ heap = [mem |-> [o \in Nodes |-> "free"], rc |-> [o \in Nodes |-> 0],
               mark |-> [o \in Nodes |-> 0], ref |-> [o \in Nodes |-> NoRefs],
               list |-> <<>>, tmp |-> <<>>, zero |-> <<>>]
    /\ root = [r \in Roots |-> Null]
    /\ phase = "none" /\ at = 1 /\ swept = FALSE

\* `js_free_rt`: the memory of the node may be used again.
Dispose(h, o) ==
    [h EXCEPT !.mem[o] = "free", !.rc[o] = 0, !.mark[o] = 0, !.ref[o] = NoRefs,
              !.list = Without(@, o), !.tmp = Without(@, o), !.zero = Without(@, o)]

\* `JS_FreeValueRT` on a value: at zero it is queued, unless cycles are removed.
FreeValue(h, o, removing) ==
    LET d == [h EXCEPT !.rc[o] = @ - 1]
    IN  IF d.rc[o] > 0 \/ removing THEN d
        ELSE [d EXCEPT !.list = Without(@, o), !.zero = <<o>> \o @]

\* `free_var_ref`, `js_free_shape`: at zero the node goes, with its reference.
FreeInner(h, o, removing) ==
    LET d == [h EXCEPT !.rc[o] = @ - 1]
        drop(acc, x) == FreeValue(acc, x[2], removing)
    IN  IF d.rc[o] > 0 THEN d
        ELSE Dispose(FoldLeft(drop, d, Refs(d, o)), o)

Release(h, o, removing) ==
    IF o \in Inner THEN FreeInner(h, o, removing) ELSE FreeValue(h, o, removing)

\* Mutation: the memory is given back though the cycle still refers to it.
FreeObjectAtOnce(h, o, removing) ==
    LET drop(acc, x) == Release(acc, x[2], removing)
        done == FoldLeft(drop, [h EXCEPT !.ref[o] = NoRefs], Refs(h, o))
    IN  Dispose(done, o)

\* `free_object` (and `free_function_bytecode`): the references are released.
\* While cycles are removed, a node that is still referred to stays as a
\* zombie until the end.
FreeObject(h, o, removing) ==
    LET drop(acc, x) == Release(acc, x[2], removing)
        done == FoldLeft(drop, [h EXCEPT !.ref[o] = NoRefs], Refs(h, o))
    IN  IF removing /\ done.rc[o] # 0
        THEN [done EXCEPT !.mem[o] = "zombie", !.tmp = Without(@, o), !.list = Without(@, o),
                          !.zero = Append(Without(@, o), o)]
        ELSE Dispose(done, o)
-----------------------------------------------------------------------------
\* The program.  It creates objects, stores references and drops them; a count
\* that falls to zero starts `free_zero_refcount` before the program goes on.
Idle == phase = "none"
After(h) == phase' = IF h.zero # <<>> THEN "decref" ELSE "none"

\* A new object, in a variable of the program that was empty.
New(o, r) ==
    /\ Idle /\ heap.mem[o] = "free" /\ root[r] = Null
    /\ heap' = [heap EXCEPT !.mem[o] = "live", !.rc[o] = 1, !.list = Append(@, o)]
    /\ root' = [root EXCEPT ![r] = o]
    /\ swept' = FALSE
    /\ UNCHANGED <<phase, at>>

\* A new inner node in a slot of o, for a value the program has.
NewInner(o, s, n, r) ==
    /\ Idle /\ heap.mem[n] = "free" /\ o \in {root[q] : q \in Roots} \ {Null} /\ root[r] # Null
    /\ heap.ref[o][s] = Null
    /\ heap' = [heap EXCEPT !.mem[n] = "live", !.rc[n] = 1, !.list = Append(@, n),
                            !.ref[o][s] = n,
                            !.ref[n] = [x \in Slots |-> IF x = s THEN root[r] ELSE Null],
                            !.rc[root[r]] = @ + 1]
    /\ swept' = FALSE
    /\ UNCHANGED <<root, phase, at>>

\* A field is set to what the program has, or to what a field of it holds: the
\* new reference is taken before the old one is given back.
SetField(r, s, x) ==
    /\ Idle /\ root[r] # Null
    /\ x = Null \/ (\E q \in Roots : root[q] = x)
       \/ (x \in Inner /\ \E q \in Roots, t \in Slots : root[q] # Null /\ heap.ref[root[q]][t] = x)
    /\ LET o == root[r]
           old == heap.ref[o][s]
           dup == IF x = Null THEN heap ELSE [heap EXCEPT !.rc[x] = @ + 1]
           set == [dup EXCEPT !.ref[o][s] = x]
       IN  /\ heap' = IF old = Null THEN set ELSE Release(set, old, FALSE)
           /\ After(heap')
    /\ swept' = FALSE
    /\ UNCHANGED <<root, at>>

\* The program forgets a variable.
Drop(r) ==
    /\ Idle /\ root[r] # Null
    /\ heap' = Release(heap, root[r], FALSE)
    /\ root' = [root EXCEPT ![r] = Null]
    /\ After(heap')
    /\ swept' = FALSE
    /\ UNCHANGED at

\* `free_zero_refcount`: the first object of the queue.
FreeZero ==
    /\ phase = "decref"
    /\ heap' = FreeObject(heap, Head(heap.zero), FALSE)
    /\ After(heap')
    /\ UNCHANGED <<root, at, swept>>
-----------------------------------------------------------------------------
\* `JS_RunGC`
StartGc ==
    /\ Idle /\ ~swept
    /\ phase' = "gcdecref"
    /\ UNCHANGED <<heap, root, at, swept>>

Unmarked == SelectSeq(heap.list, LAMBDA o : heap.mark[o] = 0)

\* Mutation: a node that was visited already is not looked at again.
DecrefChildStays(h, o) == [h EXCEPT !.rc[o] = @ - 1]

\* `gc_decref_child`: a node visited before this one may lose its last reference.
DecrefChild(h, o) ==
    LET d == [h EXCEPT !.rc[o] = @ - 1]
    IN  IF d.rc[o] = 0 /\ d.mark[o] = 1
        THEN [d EXCEPT !.list = Without(@, o), !.tmp = Append(@, o)]
        ELSE d

\* `gc_decref`: one node; its children lose the reference it holds on them.
GcDecref ==
    /\ phase = "gcdecref" /\ Unmarked # <<>>
    /\ LET o == Head(Unmarked)
           drop(acc, x) == DecrefChild(acc, x[2])
           d == [FoldLeft(drop, heap, Refs(heap, o)) EXCEPT !.mark[o] = 1]
       IN  heap' = IF d.rc[o] = 0
                   THEN [d EXCEPT !.list = Without(@, o), !.tmp = Append(@, o)]
                   ELSE d
    /\ UNCHANGED <<root, phase, at, swept>>

GcDecrefEnds ==
    /\ phase = "gcdecref" /\ Unmarked = <<>>
    /\ phase' = "gcscan" /\ at' = 1
    /\ UNCHANGED <<heap, root, swept>>

\* `gc_scan_incref_child`: a child of a node that stays stays, too.
IncrefChild(h, o) ==
    LET d == [h EXCEPT !.rc[o] = @ + 1]
    IN  IF d.rc[o] = 1
        THEN [d EXCEPT !.tmp = Without(@, o), !.list = Append(@, o), !.mark[o] = 0]
        ELSE d

\* `gc_scan`, first pass: one node of the list, which grows meanwhile.
GcScan ==
    /\ phase = "gcscan" /\ at <= Len(heap.list)
    /\ LET o == heap.list[at]
           take(acc, x) == IncrefChild(acc, x[2])
       IN  heap' = FoldLeft(take, [heap EXCEPT !.mark[o] = 0], Refs(heap, o))
    /\ at' = at + 1
    /\ UNCHANGED <<root, phase, swept>>

GcScanEnds ==
    /\ phase = "gcscan" /\ at > Len(heap.list)
    /\ phase' = "gcrestore" /\ at' = 1
    /\ UNCHANGED <<heap, root, swept>>

\* Second pass: the counts of what is to be freed are restored.
GcRestore ==
    /\ phase = "gcrestore" /\ at <= Len(heap.tmp)
    /\ LET take(acc, x) == [acc EXCEPT !.rc[x[2]] = @ + 1]
       IN  heap' = FoldLeft(take, heap, Refs(heap, heap.tmp[at]))
    /\ at' = at + 1
    /\ UNCHANGED <<root, phase, swept>>

GcRestoreEnds ==
    /\ phase = "gcrestore" /\ at > Len(heap.tmp)
    /\ phase' = "gcfree" /\ at' = 1
    /\ UNCHANGED <<heap, root, swept>>

\* `gc_free_cycles`: values are freed; the others wait for the last reference.
GcFree ==
    /\ phase = "gcfree" /\ heap.tmp # <<>>
    /\ LET o == Head(heap.tmp)
       IN  heap' = IF o \in Values THEN FreeObject(heap, o, TRUE)
                   ELSE [heap EXCEPT !.tmp = Tail(@), !.zero = Append(@, o)]
    /\ UNCHANGED <<root, phase, at, swept>>

\* The zombies are given back.
GcFreeEnds ==
    /\ phase = "gcfree" /\ heap.tmp = <<>>
    /\ heap' = FoldLeft(LAMBDA acc, o : Dispose(acc, o), heap, heap.zero)
    /\ phase' = "none" /\ swept' = TRUE
    /\ UNCHANGED <<root, at>>

Mutator ==
    \/ \E o \in Values, r \in Roots : New(o, r)
    \/ \E o \in Values, s \in Slots, n \in Inner, r \in Roots : NewInner(o, s, n, r)
    \/ \E r \in Roots, s \in Slots, x \in Nodes \cup {Null} : SetField(r, s, x)
    \/ \E r \in Roots : Drop(r)

Collector ==
    \/ StartGc \/ GcDecref \/ GcDecrefEnds \/ GcScan \/ GcScanEnds
    \/ GcRestore \/ GcRestoreEnds \/ GcFree \/ GcFreeEnds

Next == Mutator \/ FreeZero \/ Collector

Spec == Init /\ [][Next]_gcVars
-----------------------------------------------------------------------------
\* What the program can reach.
Reachable ==
    LET start == {root[r] : r \in Roots} \ {Null}
        step(S) == S \cup ({heap.ref[o][s] : o \in S, s \in Slots} \ {Null})
        reach[n \in Nat] == IF n = 0 THEN start ELSE step(reach[n - 1])
    IN  reach[Cardinality(Nodes)]

InUse(o) == heap.mem[o] # "free"
Held(o) == Cardinality({<<p, s>> \in {q \in Nodes : InUse(q)} \X Slots : heap.ref[p][s] = o})
           + Cardinality({r \in Roots : root[r] = o})

(***************************************************************************)
(* No memory is given back while something refers to it, at no moment of a *)
(* collection either: what the program can reach is live, and no reference *)
(* of a node that is still in memory, zombies and the queue included,      *)
(* leads to memory that was freed.                                         *)
(***************************************************************************)
NoDangling ==
    /\ \A o \in Reachable : heap.mem[o] = "live"
    /\ \A o \in Nodes, s \in Slots :
           InUse(o) /\ heap.ref[o][s] # Null => InUse(heap.ref[o][s])

(***************************************************************************)
(* Between collections the counts are exact: `ref_count` is the number of  *)
(* references to a node, and a node whose count is zero is in the queue.   *)
(* The passes of a collection, which take the counts apart, put them back  *)
(* before the first node is freed, and what they keep has a reference.     *)
(***************************************************************************)
CountsExact ==
    /\ phase \in {"none", "decref", "gcfree"} =>
        \A o \in Nodes : InUse(o) =>
            /\ heap.rc[o] = Held(o)
            /\ heap.rc[o] = 0 => o \in Range(heap.zero) \cup Range(heap.tmp)
    /\ phase = "gcscan" => \A i \in DOMAIN heap.list : heap.rc[heap.list[i]] > 0

(***************************************************************************)
(* A collection is complete: when it ends, every node in memory can be     *)
(* reached, and each is in gc_obj_list once, with its mark reset for the   *)
(* next collection.  The assertion at its end, that only values are left   *)
(* as zombies, is part of it.                                              *)
(***************************************************************************)
CollectsAll ==
    /\ swept /\ phase = "none" =>
        /\ {o \in Nodes : InUse(o)} = Reachable
        /\ \A o \in Reachable : heap.mark[o] = 0 /\ Len(SelectSeq(heap.list, LAMBDA x : x = o)) = 1
    /\ phase = "gcfree" /\ heap.tmp = <<>> => Range(heap.zero) \subseteq Values
=============================================================================
