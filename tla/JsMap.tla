-------------------------------- MODULE JsMap --------------------------------
(***************************************************************************)
(* Map and Set (quickjs.c): a list of records in the order of insertion, a *)
(* hash table over them, and cursors (iterators, calls of forEach) that    *)
(* lock the record they are at, which then outlives its deletion.          *)
(* Keys and values are plain: to release one runs no other code.           *)
(***************************************************************************)
EXTENDS Integers, Sequences, SequencesExt, FiniteSets, Bitwise

CONSTANTS Keys, Vals,
          Iterators, Loops, \* the cursors: iterators, and calls of forEach
          Hash,             \* map_hash_key of a key
          Recs,             \* memory for records: numbers, used again when free
          FirstThreshold,   \* the records that fit the first table (4)
          Slacks            \* what js_realloc2 may return beyond the request

Cursors == Iterators \cup Loops

VARIABLES rec,      \* the records: [key, val, rc, empty]
          records,  \* the list of them
          table,    \* the hash table, lists of records
          count, threshold,
          cur,      \* the cursors: [st, at]
          out       \* the entry the last step returned, or <<>>

mapVars == <<rec, records, table, count, threshold, cur, out>>

NoRec == 0
Free == [key |-> "free", val |-> "free", rc |-> 0, empty |-> TRUE]
Entry(r) == <<rec[r].key, rec[r].val>>
Without(s, r) == SelectSeq(s, LAMBDA x : x # r)

TypeOK ==
    /\ rec \in [Recs -> [key : Keys \cup {"free"}, val : Vals \cup {"free"}, rc : Nat, empty : BOOLEAN]]
    /\ records \in Seq(Recs)
    /\ Len(table) > 0 /\ \A i \in DOMAIN table : table[i] \in Seq(Recs)
    /\ count \in Nat
    /\ cur \in [Cursors -> [st : {"idle", "running"}, at : Recs \cup {NoRec}]]

Init ==
    /\ rec = [r \in Recs |-> Free]
    /\ records = <<>> /\ table = << <<>> >> /\ count = 0 /\ threshold = FirstThreshold
    /\ cur = [c \in Cursors |-> [st |-> "idle", at |-> NoRec]]
    /\ out = <<>>

Bucket(k, size) == (Hash[k] & (size - 1)) + 1

\* `map_find_record`
Find(k) ==
    LET hits == SelectSeq(table[Bucket(k, Len(table))], LAMBDA r : rec[r].key = k)
    IN  IF hits = <<>> THEN NoRec ELSE Head(hits)

\* `map_hash_resize`: the records that are not deleted, in a larger table.
Resize(rs, recs, slack) ==
    LET size == (IF Len(table) = 1 THEN 4 ELSE 2 * Len(table)) + slack
    IN  [b \in 1..size |->
            SelectSeq(rs, LAMBDA r : IF recs[r].empty THEN FALSE ELSE Bucket(recs[r].key, size) = b)]

\* `js_map_set` of a key that is there.
SetOld(k, v) ==
    /\ Find(k) # NoRec
    /\ rec' = [rec EXCEPT ![Find(k)].val = v]
    /\ out' = <<>> /\ UNCHANGED <<records, table, count, threshold, cur>>

\* `js_map_set`, `map_add_record`: a new record at the end, and perhaps a
\* larger table.
SetNew(k, v, r, slack) ==
    /\ Find(k) = NoRec
    /\ rec[r] = Free /\ \A q \in Recs : rec[q] = Free => r <= q
    /\ rec' = [rec EXCEPT ![r] = [key |-> k, val |-> v, rc |-> 1, empty |-> FALSE]]
    /\ records' = Append(records, r)
    /\ count' = count + 1
    /\ LET grown == Resize(records', rec', slack)
       IN  IF count + 1 >= threshold
           THEN table' = grown /\ threshold' = 2 * Len(grown)
           ELSE /\ table' = [table EXCEPT ![Bucket(k, Len(table))] = Append(@, r)]
                /\ UNCHANGED threshold
    /\ out' = <<>> /\ UNCHANGED cur

\* The list and the records after `map_delete_record` of r.
Deleted(m, r) ==
    IF m.rec[r].empty THEN m
    ELSE [m EXCEPT !.table = [i \in DOMAIN @ |-> Without(@[i], r)],
                   !.count = @ - 1,
                   !.records = IF m.rec[r].rc = 1 THEN Without(@, r) ELSE @,
                   !.rec[r] = IF @.rc = 1 THEN Free
                              ELSE [@ EXCEPT !.rc = @ - 1, !.empty = TRUE, !.key = "free", !.val = "free"]]

Mem == [rec |-> rec, records |-> records, table |-> table, count |-> count]
Store(m) == rec' = m.rec /\ records' = m.records /\ table' = m.table /\ count' = m.count

\* `js_map_delete`
Delete(k) ==
    /\ Find(k) # NoRec
    /\ Store(Deleted(Mem, Find(k)))
    /\ out' = <<>> /\ UNCHANGED <<threshold, cur>>

\* `js_map_clear`
Clear ==
    /\ Store(FoldLeft(LAMBDA m, r : Deleted(m, r), Mem, records))
    /\ out' = <<>> /\ UNCHANGED <<threshold, cur>>

\* `map_decref_record`: the cursor leaves the record it was at.
Unlocked(m, r) ==
    IF r = NoRec THEN m
    ELSE IF m.rec[r].rc = 1 THEN [m EXCEPT !.rec[r] = Free, !.records = Without(@, r)]
    ELSE [m EXCEPT !.rec[r].rc = @ - 1]

\* The next record in the list that is not deleted.
NextOf(r) ==
    LET rest == IF r = NoRec THEN records
                ELSE SubSeq(records, 1 + CHOOSE i \in DOMAIN records : records[i] = r, Len(records))
        live == SelectSeq(rest, LAMBDA q : ~rec[q].empty)
    IN  IF live = <<>> THEN NoRec ELSE Head(live)

Start(c) == [cur EXCEPT ![c] = [st |-> "running", at |-> NoRec]]

\* `js_create_map_iterator`
NewIterator(c) ==
    /\ cur[c].st = "idle"
    /\ cur' = Start(c)
    /\ out' = <<>> /\ UNCHANGED <<rec, records, table, count, threshold>>

\* `js_map_forEach` starts.
ForEach(c) ==
    /\ cur[c].st = "idle"
    /\ cur' = Start(c)
    /\ out' = <<>> /\ UNCHANGED <<rec, records, table, count, threshold>>

\* Mutation: the next record is visited though it may be deleted.
MoveToDeleted(c) ==
    LET i == IF cur[c].at = NoRec THEN 0 ELSE CHOOSE i \in DOMAIN records : records[i] = cur[c].at
        to == IF i = Len(records) THEN NoRec ELSE records[i + 1]
        m == Unlocked(Mem, cur[c].at)
    IN  /\ Store(IF to = NoRec THEN m ELSE [m EXCEPT !.rec[to].rc = @ + 1])
        /\ cur' = [cur EXCEPT ![c] = IF to = NoRec THEN [st |-> "idle", at |-> NoRec]
                                     ELSE [@ EXCEPT !.at = to]]
        /\ out' = IF to = NoRec THEN <<>> ELSE Entry(to)

\* A cursor moves on: it finds its next record, lets go of its own, locks the
\* next one, or ends.
Move(c) ==
    LET to == NextOf(cur[c].at)
        m == Unlocked(Mem, cur[c].at)
    IN  /\ Store(IF to = NoRec THEN m ELSE [m EXCEPT !.rec[to].rc = @ + 1])
        /\ cur' = [cur EXCEPT ![c] = IF to = NoRec THEN [st |-> "idle", at |-> NoRec]
                                     ELSE [@ EXCEPT !.at = to]]
        /\ out' = IF to = NoRec THEN <<>> ELSE Entry(to)

\* `js_map_iterator_next`
IteratorNext(c) ==
    /\ cur[c].st = "running"
    /\ Move(c)
    /\ UNCHANGED threshold

\* The loop of `js_map_forEach`, from one call of its function to the next;
\* the function may do anything meanwhile.
ForEachNext(c) ==
    /\ cur[c].st = "running"
    /\ Move(c)
    /\ UNCHANGED threshold

\* The iterator is collected (`js_map_iterator_finalizer`), or the function of
\* forEach throws.
Abandon(c) ==
    /\ cur[c].st = "running"
    /\ Store(Unlocked(Mem, cur[c].at))
    /\ cur' = [cur EXCEPT ![c] = [st |-> "idle", at |-> NoRec]]
    /\ out' = <<>> /\ UNCHANGED threshold

Next ==
    \/ \E k \in Keys, v \in Vals : SetOld(k, v)
    \/ \E k \in Keys, v \in Vals, r \in Recs, slack \in Slacks : SetNew(k, v, r, slack)
    \/ \E k \in Keys : Delete(k)
    \/ Clear
    \/ \E c \in Iterators : NewIterator(c) \/ IteratorNext(c)
    \/ \E c \in Loops : ForEach(c) \/ ForEachNext(c)
    \/ \E c \in Cursors : Abandon(c)

Spec == Init /\ [][Next]_mapVars
-----------------------------------------------------------------------------
Live == SelectSeq(records, LAMBDA r : ~rec[r].empty)
Ahead(r) ==
    LET rest == IF r = NoRec THEN records
                ELSE SubSeq(records, 1 + CHOOSE i \in DOMAIN records : records[i] = r, Len(records))
    IN  SelectSeq(rest, LAMBDA q : ~rec[q].empty)

\* The map as its users see it.
Abstract == INSTANCE MapSpec WITH
    entries <- [i \in DOMAIN Live |-> Entry(Live[i])],
    todo <- [c \in Cursors |->
               IF cur[c].st = "idle" THEN <<>>
               ELSE [i \in DOMAIN Ahead(cur[c].at) |-> Entry(Ahead(cur[c].at)[i])]],
    running <- {c \in Cursors : cur[c].st = "running"}

(***************************************************************************)
(* The lists of records, the hash table and the locks implement the        *)
(* entries in their order and the visits of the cursors: whatever is       *)
(* added, deleted and added again while iterators and calls of forEach are *)
(* under way, each of them visits every entry that is there once and none  *)
(* that is not.                                                            *)
(***************************************************************************)
IsAMap == Abstract!Spec
StepsAsAMap == Abstract!Next \/ UNCHANGED Abstract!specVars

(***************************************************************************)
(* The hash table holds exactly the records that are not deleted, each in  *)
(* the list of its key, so that a lookup finds it, through every change of *)
(* size; size is their number.                                             *)
(***************************************************************************)
TableExact ==
    /\ \A r \in Recs : LET in == {b \in DOMAIN table : r \in Range(table[b])}
                       IN  in = IF rec[r].empty THEN {} ELSE {Bucket(rec[r].key, Len(table))}
    /\ \A k \in Keys : (Find(k) # NoRec) <=> \E i \in DOMAIN Live : rec[Live[i]].key = k
    /\ count = Len(Live)

(***************************************************************************)
(* `ref_count` of a record: one for the map unless it is deleted, and one  *)
(* for each cursor at it.  A cursor is at a record of the list, and a      *)
(* record that nobody needs is freed.                                      *)
(***************************************************************************)
RecordsCounted ==
    /\ \A r \in Recs : rec[r].rc = (IF rec[r].empty THEN 0 ELSE 1)
                                  + Cardinality({c \in Cursors : cur[c].at = r})
    /\ \A c \in Cursors : cur[c].at # NoRec => cur[c].at \in Range(records)
    /\ Range(records) = {r \in Recs : rec[r].rc > 0}
=============================================================================
