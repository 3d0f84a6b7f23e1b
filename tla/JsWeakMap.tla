------------------------------ MODULE JsWeakMap ------------------------------
(***************************************************************************)
(* WeakMap and WeakSet (quickjs.c): a record is in the list of its map and *)
(* in the list first_weak_ref of its key, which it does not keep alive.    *)
(* The key, the map and the record each may go first.                      *)
(***************************************************************************)
EXTENDS Integers, Sequences, SequencesExt, FiniteSets

CONSTANTS Objects, Maps,
          Recs       \* memory for records: numbers, used again when free

VARIABLES live,      \* the objects and maps that are not freed
          rec,       \* the records: [map, key], or NoRecord
          records,   \* the list of each map
          weak       \* the list of each object

weakVars == <<live, rec, records, weak>>

NoRecord == <<>>
Without(s, r) == SelectSeq(s, LAMBDA x : x # r)

Init ==
    /\ live = Objects \cup Maps
    /\ rec = [r \in Recs |-> NoRecord]
    /\ records = [m \in Maps |-> <<>>] /\ weak = [o \in Objects |-> <<>>]

Find(m, o) == SelectSeq(records[m], LAMBDA r : rec[r][2] = o)

\* `js_map_set` on a weak map: a new record goes to the head of the key's list.
Set(m, o, r) ==
    /\ {m, o} \subseteq live /\ Find(m, o) = <<>>
    /\ rec[r] = NoRecord /\ \A q \in Recs : rec[q] = NoRecord => r <= q
    /\ rec' = [rec EXCEPT ![r] = <<m, o>>]
    /\ records' = [records EXCEPT ![m] = Append(@, r)]
    /\ weak' = [weak EXCEPT ![o] = <<r>> \o @]
    /\ UNCHANGED live

\* Mutation: the record stays in the list of its key.
DeleteKeepsWeak(m, o) ==
    /\ {m, o} \subseteq live /\ Find(m, o) # <<>>
    /\ LET r == Head(Find(m, o))
       IN  /\ rec' = [rec EXCEPT ![r] = NoRecord]
           /\ records' = [records EXCEPT ![m] = Without(@, r)]
    /\ UNCHANGED <<live, weak>>

\* `js_map_delete`, with `delete_weak_ref`
Delete(m, o) ==
    /\ {m, o} \subseteq live /\ Find(m, o) # <<>>
    /\ LET r == Head(Find(m, o))
       IN  /\ rec' = [rec EXCEPT ![r] = NoRecord]
           /\ records' = [records EXCEPT ![m] = Without(@, r)]
           /\ weak' = [weak EXCEPT ![o] = Without(@, r)]
    /\ UNCHANGED live

\* `reset_weak_ref`: the object is freed, and its records with it.
FreeObject(o) ==
    /\ o \in live
    /\ live' = live \ {o}
    /\ records' = [m \in Maps |-> SelectSeq(records[m], LAMBDA r : r \notin Range(weak[o]))]
    /\ rec' = [r \in Recs |-> IF r \in Range(weak[o]) THEN NoRecord ELSE rec[r]]
    /\ weak' = [weak EXCEPT ![o] = <<>>]

\* `js_map_finalizer`: the map is freed; its records leave the lists of keys.
FreeMap(m) ==
    /\ m \in live
    /\ live' = live \ {m}
    /\ weak' = [o \in Objects |-> SelectSeq(weak[o], LAMBDA r : r \notin Range(records[m]))]
    /\ rec' = [r \in Recs |-> IF r \in Range(records[m]) THEN NoRecord ELSE rec[r]]
    /\ records' = [records EXCEPT ![m] = <<>>]

\* The memory of a freed object or map is used again.
Create(x) == x \notin live /\ live' = live \cup {x} /\ UNCHANGED <<rec, records, weak>>

Next ==
    \/ \E m \in Maps, o \in Objects, r \in Recs : Set(m, o, r)
    \/ \E m \in Maps, o \in Objects : Delete(m, o)
    \/ \E o \in Objects : FreeObject(o)
    \/ \E m \in Maps : FreeMap(m)
    \/ \E x \in Objects \cup Maps : Create(x)

Spec == Init /\ [][Next]_weakVars
-----------------------------------------------------------------------------
(***************************************************************************)
(* The list of an object and the lists of the maps agree: a record in      *)
(* memory is once in the list of its map and once in the list of its key,  *)
(* both of which are alive, and no list holds a record that was freed.     *)
(* The assertion of delete_weak_ref, which looks for a record in the list  *)
(* of its key, then never fails, and no key finds the record of an object  *)
(* that had its address before.                                            *)
(***************************************************************************)
WeakListsAgree ==
    /\ \A r \in Recs : rec[r] # NoRecord =>
           /\ {rec[r][1], rec[r][2]} \subseteq live
           /\ Len(SelectSeq(records[rec[r][1]], LAMBDA q : q = r)) = 1
           /\ Len(SelectSeq(weak[rec[r][2]], LAMBDA q : q = r)) = 1
    /\ \A m \in Maps : \A i \in DOMAIN records[m] :
           rec[records[m][i]] # NoRecord /\ rec[records[m][i]][1] = m
    /\ \A o \in Objects : \A i \in DOMAIN weak[o] :
           rec[weak[o][i]] # NoRecord /\ rec[weak[o][i]][2] = o
=============================================================================
